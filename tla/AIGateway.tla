----------------------------- MODULE AIGateway -----------------------------
(***************************************************************************)
(* ai_gateway.py: completions through a chain of providers, with retries   *)
(* and one circuit per provider shared by all requests.                    *)
(*                                                                         *)
(* Concurrency.  One event loop: requests interleave where they await the  *)
(* provider's HTTP call and the back-off.  A circuit's methods are atomic. *)
(*                                                                         *)
(* Abstractions.  A reply is its class: an answer, 401, something worth    *)
(* retrying (a timeout, 429, another status, a wrong shape), or a body     *)
(* that is no JSON, whose ValueError nobody catches.  Time is kept only as *)
(* "the cooldown is over".                                                 *)
(***************************************************************************)
EXTENDS Naturals, Sequences

CONSTANTS
    Providers,
    Requests,       \* calls of generate_completion()
    Chain,          \* the providers of the chain that are implemented, in order
    Configured,     \* the providers with an API key
    Threshold,      \* AI_CIRCUIT_BREAKER_THRESHOLD
    Retries         \* AI_MAX_RETRIES_PER_PROVIDER

ASSUME GatewayAssumption ==
    /\ Chain \in Seq(Providers) /\ Chain # <<>>
    /\ Threshold \in Nat \ {0}
    /\ Retries \in Nat

VARIABLES
    consecutive_failures,
    opened,     \* opened_at is set: "no", "yes" or "elapsed" (cooldown over)
    stage,      \* where each request stands
    at,         \* its place in the chain
    attempt,    \* its attempt with that provider
    outcome     \* what generate_completion() ended with

circuitVars == <<consecutive_failures, opened>>
vars == <<consecutive_failures, opened, stage, at, attempt, outcome>>

TypeOK ==
    /\ consecutive_failures \in [Providers -> 0..Threshold]
    /\ opened \in [Providers -> {"no", "yes", "elapsed"}]
    /\ stage \in [Requests -> {"new", "next", "call", "backoff", "done"}]
    /\ at \in [Requests -> 1..(Len(Chain) + 1)]
    /\ attempt \in [Requests -> 0..Retries]
    /\ outcome \in [Requests -> {"none", "answered", "failed", "escaped"}]

Init ==
    /\ consecutive_failures = [p \in Providers |-> 0]
    /\ opened = [p \in Providers |-> "no"]
    /\ stage = [r \in Requests |-> "new"]
    /\ at = [r \in Requests |-> 1]
    /\ attempt = [r \in Requests |-> 0]
    /\ outcome = [r \in Requests |-> "none"]

-----------------------------------------------------------------------------
(* _CircuitState.                                                           *)

reset(p) ==
    /\ consecutive_failures' = [consecutive_failures EXCEPT ![p] = 0]
    /\ opened' = [opened EXCEPT ![p] = "no"]
record_success(p) == reset(p)

\* The count is only compared with the threshold, so it stops there.
Bumped(p) ==
    IF consecutive_failures[p] < Threshold THEN consecutive_failures[p] + 1 ELSE Threshold
record_failure(p) ==
    /\ consecutive_failures' = [consecutive_failures EXCEPT ![p] = Bumped(p)]
    /\ opened' = IF Bumped(p) >= Threshold /\ opened[p] = "no"
                 THEN [opened EXCEPT ![p] = "yes"] ELSE opened

CooldownElapses(p) ==
    /\ opened[p] = "yes"
    /\ opened' = [opened EXCEPT ![p] = "elapsed"]
    /\ UNCHANGED <<consecutive_failures, stage, at, attempt, outcome>>

-----------------------------------------------------------------------------
(* generate_completion() and _call_with_retries().                          *)

Goto(r, s) == stage' = [stage EXCEPT ![r] = s]
Here(r) == Chain[at[r]]
PassOver(r) ==
    /\ Goto(r, "next")
    /\ at' = [at EXCEPT ![r] = @ + 1]
    /\ attempt' = [attempt EXCEPT ![r] = 0]
    /\ UNCHANGED outcome
Finish(r, o) ==
    /\ Goto(r, "done")
    /\ outcome' = [outcome EXCEPT ![r] = o]
    /\ UNCHANGED <<at, attempt>>

Submit(r) ==
    /\ stage[r] = "new"
    /\ Goto(r, "next")
    /\ UNCHANGED <<circuitVars, at, attempt, outcome>>

\* The next provider: unconfigured, behind an open circuit, or asked.  is_open()
\* closes a circuit whose cooldown is over and forgets its failures.
Take(r) ==
    /\ stage[r] = "next" /\ at[r] <= Len(Chain)
    /\ LET p == Here(r)
       IN  \/ /\ p \notin Configured \/ opened[p] = "yes"
              /\ PassOver(r)
              /\ UNCHANGED circuitVars
           \/ /\ p \in Configured /\ opened[p] # "yes"
              /\ IF opened[p] = "elapsed" THEN reset(p) ELSE UNCHANGED circuitVars
              /\ Goto(r, "call")
              /\ UNCHANGED <<at, attempt, outcome>>

\* AllProvidersFailedError.  Slip: it is raised as soon as one provider is left.
ExhaustedEarly(r) ==
    /\ stage[r] = "next" /\ at[r] >= Len(Chain)
    /\ Finish(r, "failed")
    /\ UNCHANGED circuitVars
Exhausted(r) ==
    /\ stage[r] = "next" /\ at[r] > Len(Chain)
    /\ Finish(r, "failed")
    /\ UNCHANGED circuitVars

Answered(r) ==
    /\ stage[r] = "call"
    /\ record_success(Here(r))
    /\ Finish(r, "answered")

\* 401: no retry.
Rejected(r) ==
    /\ stage[r] = "call"
    /\ record_failure(Here(r))
    /\ PassOver(r)

Failed(r) ==
    /\ stage[r] = "call"
    /\ record_failure(Here(r))
    /\ IF attempt[r] < Retries
       THEN Goto(r, "backoff") /\ UNCHANGED <<at, attempt, outcome>>
       ELSE PassOver(r)

NotJSON(r) ==
    /\ stage[r] = "call"
    /\ Finish(r, "escaped")
    /\ UNCHANGED circuitVars

\* The circuit is not looked at again before a retry.
Retry(r) ==
    /\ stage[r] = "backoff"
    /\ Goto(r, "call")
    /\ attempt' = [attempt EXCEPT ![r] = IF @ < Retries THEN @ + 1 ELSE @]
    /\ UNCHANGED <<circuitVars, at, outcome>>

Progress(r) ==
    \/ Take(r) \/ Exhausted(r) \/ Answered(r) \/ Rejected(r) \/ Failed(r)
    \/ NotJSON(r) \/ Retry(r)

Next ==
    \/ \E r \in Requests : Submit(r) \/ Progress(r)
    \/ \E p \in Providers : CooldownElapses(p)

Spec == Init /\ [][Next]_vars
\* A provider answers or wait_for() cuts it off, and a sleep ends.
Fairness == \A r \in Requests : WF_vars(Progress(r))
FairSpec == Spec /\ Fairness

-----------------------------------------------------------------------------
(* Properties.                                                              *)

\* How often the provider that each request has got to was asked for it.
made ==
    [r \in Requests |->
        IF outcome[r] = "failed" \/ stage[r] \in {"new", "next"} THEN 0 ELSE attempt[r] + 1]
Promise == INSTANCE Completion WITH
    Length <- Len(Chain), MaxCalls <- Retries + 1, calls <- made

\* generate_completion() keeps the promise of module Completion: chain order, a
\* bounded number of calls, an answer only from a provider that was asked and failure
\* only after the last one, however providers behave and whatever other requests do
\* to the circuits meanwhile.
KeepsPromise == Promise!Spec
\* That promise, and an end to every request: providers fail in every way, circuits
\* open under the request, and still it gets an answer or an error.
ImplementsCompletion == Promise!FairSpec

=============================================================================
