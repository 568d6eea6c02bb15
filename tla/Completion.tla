----------------------------- MODULE Completion -----------------------------
(***************************************************************************)
(* What AIGateway.generate_completion() promises its callers, without      *)
(* circuits, errors or back-off: providers are asked in the order of the   *)
(* chain, each a bounded number of times, an answer comes from a provider  *)
(* that was asked, and AllProvidersFailedError only after the last one.    *)
(***************************************************************************)
EXTENDS Naturals

CONSTANTS
    Requests,
    Length,     \* of the provider chain
    MaxCalls    \* calls to one provider for one request

VARIABLES
    at,         \* the provider each request has got to
    calls,      \* how often it has been asked for this request
    outcome

vars == <<at, calls, outcome>>

Init ==
    /\ at = [r \in Requests |-> 1]
    /\ calls = [r \in Requests |-> 0]
    /\ outcome = [r \in Requests |-> "none"]

Pending(r) == outcome[r] = "none"
End(r, o) == outcome' = [outcome EXCEPT ![r] = o] /\ UNCHANGED <<at, calls>>

Call(r) ==
    /\ Pending(r) /\ at[r] <= Length /\ calls[r] < MaxCalls
    /\ calls' = [calls EXCEPT ![r] = @ + 1]
    /\ UNCHANGED <<at, outcome>>

PassOver(r) ==
    /\ Pending(r) /\ at[r] <= Length
    /\ at' = [at EXCEPT ![r] = @ + 1]
    /\ calls' = [calls EXCEPT ![r] = 0]
    /\ UNCHANGED outcome

Answer(r) == Pending(r) /\ calls[r] > 0 /\ End(r, "answered")

\* AllProvidersFailedError.
Fail(r) == Pending(r) /\ at[r] = Length + 1 /\ End(r, "failed")

\* An exception of no class the gateway knows, raised while a provider is asked.
Escape(r) == Pending(r) /\ calls[r] > 0 /\ End(r, "escaped")

Next == \E r \in Requests : Call(r) \/ PassOver(r) \/ Answer(r) \/ Fail(r) \/ Escape(r)

Spec == Init /\ [][Next]_vars

\* A request that has reached a provider is not left without an end.
UnderWay(r) == Pending(r) /\ (at[r] > 1 \/ calls[r] > 0)
Ends == []<>(\A r \in Requests : ~UnderWay(r))
FairSpec == Spec /\ Ends
=============================================================================
