---------------------------- MODULE ExternalAgent ----------------------------
(***************************************************************************)
(* external_agent.py: requests to one service with a cached OAuth token, a *)
(* circuit breaker, retries and negotiation of the API version.            *)
(*                                                                         *)
(* Concurrency.  One event loop, several callers.  A caller awaits the     *)
(* token endpoint while it holds the token lock, the service, and the      *)
(* back-off; the breaker's methods do nothing else under their lock and    *)
(* are one step.  A caller may be cancelled while it awaits the service,   *)
(* or leave with an exception the agent does not know (Lose).              *)
(*                                                                         *)
(* Abstractions.  A reply is a transport error, a retryable status, one    *)
(* that asks for another version (404, 406), or any other.  Versions are   *)
(* numbered by preference.  Time is kept as "recovery_seconds are over"    *)
(* and "the token is about to expire".                                     *)
(***************************************************************************)
EXTENDS Naturals

CONSTANTS
    Callers,
    NumVersions,    \* len(api_versions)
    MaxAttempts,    \* RetryConfig.max_attempts
    FailureThreshold, HalfOpenMax,  \* CircuitBreakerConfig
    MaxLost         \* bound: callers lost in a call

VARIABLES
    circuit, failure_count, half_open_calls,    \* the breaker
    recovered,  \* recovery_seconds are over since _opened_at
    trials,     \* history: callers let in since the circuit became half-open
    token,      \* the cached token is good for longer than the leeway
    fetching,   \* callers in _get_token's POST, under its lock
    negotiated, \* _negotiated_version, 0 for None
    phase, tries,   \* where each caller stands, and its attempts at one version
    tried, known,   \* versions it has tried, and known_good when it began
    lost        \* bound

breaker == <<circuit, failure_count, half_open_calls, recovered, trials>>
tokens  == <<token, fetching>>
caller  == <<phase, tries, tried, known>>
agentVars == <<breaker, tokens, negotiated, caller, lost>>

Versions == 1..NumVersions

TypeOK ==
    /\ circuit \in {"closed", "open", "half_open"}
    /\ failure_count \in 0..FailureThreshold
    /\ half_open_calls \in 0..HalfOpenMax
    /\ recovered \in BOOLEAN /\ trials \subseteq Callers
    /\ token \in BOOLEAN /\ fetching \subseteq Callers
    /\ negotiated \in 0..NumVersions
    /\ phase \in [Callers -> {"idle", "auth", "check", "call", "sleep"}]
    /\ tries \in [Callers -> 0..MaxAttempts]
    /\ tried \in [Callers -> SUBSET Versions]
    /\ known \in [Callers -> 0..NumVersions]
    /\ lost \in 0..MaxLost

Init ==
    /\ circuit = "closed" /\ failure_count = 0 /\ half_open_calls = 0
    /\ recovered = FALSE /\ trials = {}
    /\ token = FALSE /\ fetching = {}
    /\ negotiated = 0
    /\ phase = [c \in Callers |-> "idle"]
    /\ tries = [c \in Callers |-> 0]
    /\ tried = [c \in Callers |-> {}]
    /\ known = [c \in Callers |-> 0]
    /\ lost = 0

-----------------------------------------------------------------------------
(* CircuitBreaker.                                                          *)

Trying == circuit = "open" /\ recovered
Slots == IF Trying THEN 0 ELSE half_open_calls
Refused == (circuit = "open" /\ ~recovered) \/ (circuit = "half_open" /\ Slots >= HalfOpenMax)

before_call(c) ==
    /\ circuit' = IF Trying THEN "half_open" ELSE circuit
    /\ IF circuit' = "half_open"
       THEN half_open_calls' = Slots + 1 /\ trials' = trials \cup {c}
       ELSE UNCHANGED <<half_open_calls, trials>>
    /\ UNCHANGED <<failure_count, recovered>>

\* Slip: the success of a trial is only counted.
on_success_stays ==
    /\ failure_count' = 0
    /\ UNCHANGED <<circuit, half_open_calls, recovered, trials>>
on_success ==
    /\ failure_count' = 0 /\ circuit' = "closed" /\ trials' = {}
    /\ UNCHANGED <<half_open_calls, recovered>>

Bumped == IF failure_count < FailureThreshold THEN failure_count + 1 ELSE failure_count
on_failure ==
    /\ failure_count' = Bumped
    /\ IF circuit = "half_open" \/ Bumped >= FailureThreshold
       THEN circuit' = "open" /\ recovered' = FALSE /\ trials' = {}
       ELSE UNCHANGED <<circuit, recovered, trials>>
    /\ UNCHANGED half_open_calls

Recovery ==
    /\ circuit = "open" /\ ~recovered /\ recovered' = TRUE
    /\ UNCHANGED <<circuit, failure_count, half_open_calls, trials, tokens, negotiated,
                   caller, lost>>

-----------------------------------------------------------------------------
(* request(): version negotiation around _request_with_resilience.          *)

Goto(c, p) == phase' = [phase EXCEPT ![c] = p]
\* request() returns or raises.
Finish(c) ==
    /\ Goto(c, "idle")
    /\ tries' = [tries EXCEPT ![c] = 0]
    /\ tried' = [tried EXCEPT ![c] = {}]
    /\ known' = [known EXCEPT ![c] = 0]

Ask(c) ==
    /\ phase[c] = "idle"
    /\ Goto(c, "auth")
    /\ known' = [known EXCEPT ![c] = negotiated]
    /\ tried' = [tried EXCEPT ![c] = {}]
    /\ UNCHANGED <<breaker, tokens, negotiated, tries, lost>>

\* The version in use: the known good one first, then the others by preference.
Current(c) ==
    IF known[c] # 0 /\ known[c] \notin tried[c] THEN known[c]
    ELSE CHOOSE v \in Versions \ tried[c] : \A w \in Versions \ tried[c] : v <= w

\* OAuth2ClientCredentialsAuth: a cached token, or a new one fetched under the lock.
UseToken(c) ==
    /\ phase[c] = "auth" /\ fetching = {} /\ token
    /\ Goto(c, "check")
    /\ UNCHANGED <<breaker, tokens, negotiated, tries, tried, known, lost>>
FetchToken(c) ==
    /\ phase[c] = "auth" /\ fetching = {} /\ ~token
    /\ fetching' = {c}
    /\ UNCHANGED <<breaker, token, negotiated, caller, lost>>
TokenArrives(c) ==
    /\ c \in fetching /\ fetching' = {}
    /\ \/ token' = TRUE /\ Goto(c, "check") /\ UNCHANGED <<tries, tried, known>>
       \/ UNCHANGED token /\ Finish(c)
    /\ UNCHANGED <<breaker, negotiated, lost>>
TokenExpires ==
    /\ token /\ token' = FALSE
    /\ UNCHANGED <<breaker, fetching, negotiated, caller, lost>>

Attempt(c) ==
    /\ phase[c] = "check"
    /\ \/ /\ Refused                                \* CircuitOpenError
          /\ Finish(c)
          /\ UNCHANGED breaker
       \/ /\ ~Refused
          /\ before_call(c)
          /\ Goto(c, "call")
          /\ tries' = [tries EXCEPT ![c] = @ + 1]
          /\ UNCHANGED <<tried, known>>
    /\ UNCHANGED <<tokens, negotiated, lost>>

\* The back-off follows the last transport error too, before it is raised.
TransportError(c) ==
    /\ phase[c] = "call"
    /\ on_failure
    /\ Goto(c, "sleep")
    /\ UNCHANGED <<tokens, negotiated, tries, tried, known, lost>>

\* A retryable status: after the last attempt a reply like any other, which makes the
\* version the known good one.
RetryableStatus(c) ==
    /\ phase[c] = "call"
    /\ on_failure
    /\ IF tries[c] < MaxAttempts
       THEN Goto(c, "sleep") /\ UNCHANGED <<negotiated, tries, tried, known>>
       ELSE Finish(c) /\ negotiated' = Current(c)
    /\ UNCHANGED <<tokens, lost>>

Wake(c) ==
    /\ phase[c] = "sleep"
    /\ IF tries[c] < MaxAttempts
       THEN Goto(c, "check") /\ UNCHANGED <<tries, tried, known>>
       ELSE Finish(c)
    /\ UNCHANGED <<breaker, tokens, negotiated, lost>>

Reply(c) ==
    /\ phase[c] = "call"
    /\ on_success
    /\ Finish(c)
    /\ negotiated' = Current(c)
    /\ UNCHANGED <<tokens, lost>>

\* 404 or 406: the next version, and after the last one a VersionNegotiationError.
Missing(c) ==
    /\ phase[c] = "call"
    /\ on_success
    /\ LET asked == tried[c] \cup {Current(c)}
       IN  IF asked = Versions THEN Finish(c)
           ELSE /\ Goto(c, "auth")
                /\ tried' = [tried EXCEPT ![c] = asked]
                /\ tries' = [tries EXCEPT ![c] = 0]
                /\ UNCHANGED known
    /\ UNCHANGED <<tokens, negotiated, lost>>

Lose(c) ==
    /\ phase[c] = "call" /\ lost < MaxLost
    /\ lost' = lost + 1
    /\ Finish(c)
    /\ UNCHANGED <<breaker, tokens, negotiated>>

Step(c) ==
    \/ UseToken(c) \/ FetchToken(c) \/ TokenArrives(c) \/ Attempt(c)
    \/ TransportError(c) \/ RetryableStatus(c) \/ Wake(c) \/ Reply(c) \/ Missing(c)
Next ==
    \/ \E c \in Callers : Ask(c) \/ Step(c) \/ Lose(c)
    \/ Recovery \/ TokenExpires

Spec == Init /\ [][Next]_agentVars

-----------------------------------------------------------------------------
(* Properties.                                                              *)

\* A half-open breaker at capacity waits for calls that are under way and will
\* report, whatever late reports came in between.  A caller lost in its trial ends
\* the promise: its slot is never given back and nobody is let through again.
TrialUnderWay ==
    lost = 0 /\ circuit = "half_open" /\ half_open_calls >= HalfOpenMax
        => \E c \in trials : phase[c] = "call"

=============================================================================
