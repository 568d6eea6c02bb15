--------------------------- MODULE FallbackRouter ---------------------------
(***************************************************************************)
(* fallback_router.py: requests go to the primary server behind a circuit  *)
(* breaker; reads fall back to a list of caches and writes to a hook.      *)
(*                                                                         *)
(* Concurrency.  One router is shared by threads.  The breaker's methods   *)
(* are atomic (its lock); a request, a cache access and the hook are one   *)
(* step each, and other threads run between any two of them.               *)
(*                                                                         *)
(* Abstractions.  There is one path.  A body is the version of the         *)
(* resource it shows; writes make a new version.  Time is kept only as     *)
(* "recovery_timeout is over"; cache_ttl only labels an answer.            *)
(***************************************************************************)
EXTENDS Naturals

CONSTANTS
    Clients,        \* threads that call request(), one call at a time
    NumCaches,      \* the length of the list caches
    Threshold,      \* CircuitBreaker(failure_threshold)
    MaxWrites,      \* bound: versions of the resource
    MaxRaises       \* bound: requests that make urllib raise something else

ASSUME RouterAssumption ==
    /\ NumCaches \in Nat
    /\ Threshold \in Nat \ {0}
    /\ MaxWrites \in Nat /\ MaxRaises \in Nat

VARIABLES
    state, failures, \* the breaker
    elapsed,    \* recovery_timeout is over since _opened_at
    server,     \* what the primary is like
    version,    \* the newest version it has
    cache,      \* the entry of each cache: its version, 0 for none
    pc,         \* where each request stands
    method,     \* its method
    got,        \* GET: the version in the answer; a write: the one it made
    at,         \* the cache it is about to use
    answer,     \* where the last answer came from
    queued,     \* whether the hook took the last request, a write
    trial,      \* history: the request let through by the half-open breaker
    raises      \* bound

breakerVars == <<state, failures, elapsed, trial>>
requestVars == <<pc, method, got, at, answer>>
worldVars   == <<server, version, raises>>
vars == <<state, failures, elapsed, server, version, cache, pc, method, got, at,
          answer, queued, trial, raises>>

Caches == 1..NumCaches
Source == {"nothing", "primary", "error", "cache", "queued", "none"}

TypeOK ==
    /\ state \in {"closed", "open", "half_open"}
    /\ failures \in 0..Threshold
    /\ elapsed \in BOOLEAN
    /\ server \in {"up", "sick", "down"}
    /\ version \in Nat
    /\ cache \in [Caches -> Nat]
    /\ pc \in [Clients -> {"idle", "call", "reply", "ok", "err", "put", "look", "hook"}]
    /\ method \in [Clients -> {"GET", "WRITE"}]
    /\ got \in [Clients -> Nat]
    /\ at \in [Clients -> 1..(NumCaches + 1)]
    /\ answer \in [Clients -> Source]
    /\ queued \in [Clients -> BOOLEAN]
    /\ trial \in SUBSET Clients
    /\ raises \in Nat

Init ==
    /\ state = "closed" /\ failures = 0 /\ elapsed = FALSE
    /\ server = "up" /\ version = 1
    /\ cache = [k \in Caches |-> 0]
    /\ pc = [c \in Clients |-> "idle"]
    /\ method = [c \in Clients |-> "GET"]
    /\ got = [c \in Clients |-> 0]
    /\ at = [c \in Clients |-> 1]
    /\ answer = [c \in Clients |-> "nothing"]
    /\ queued = [c \in Clients |-> FALSE]
    /\ trial = {} /\ raises = 0

-----------------------------------------------------------------------------
(* CircuitBreaker.                                                          *)

\* Slips: the failures are not forgotten; only a closed breaker is reset.
record_success_keeps ==
    /\ state' = "closed" /\ UNCHANGED failures
    /\ trial' = {}
    /\ UNCHANGED elapsed
record_success_closed ==
    /\ failures' = IF state = "closed" THEN 0 ELSE failures
    /\ UNCHANGED <<state, elapsed, trial>>
record_success ==
    /\ state' = "closed" /\ failures' = 0
    /\ trial' = {}
    /\ UNCHANGED elapsed

\* failures are only compared with the threshold, so they stop there.
Bumped == IF failures < Threshold THEN failures + 1 ELSE failures
record_failure ==
    /\ failures' = Bumped
    /\ IF state = "half_open" \/ Bumped >= Threshold
       THEN state' = "open" /\ elapsed' = FALSE /\ trial' = {}
       ELSE UNCHANGED <<state, elapsed, trial>>

Trying == state = "open" /\ elapsed
Allowed == state = "closed" \/ Trying

RecoveryTimeout ==
    /\ state = "open" /\ ~elapsed
    /\ elapsed' = TRUE
    /\ UNCHANGED <<state, failures, trial, worldVars, cache, requestVars, queued>>

-----------------------------------------------------------------------------
(* request() and _route().                                                  *)

Goto(c, s) == pc' = [pc EXCEPT ![c] = s]
Fallback(c) == Goto(c, IF method[c] = "GET" THEN "look" ELSE "hook")

\* request() returns.
Return(c, source) ==
    /\ Goto(c, "idle")
    /\ answer' = [answer EXCEPT ![c] = source]

Ask(c) ==
    /\ pc[c] = "idle"
    /\ \E m \in {"GET", "WRITE"} :
        /\ method' = [method EXCEPT ![c] = m]
        /\ Goto(c, CASE Allowed -> "call"
                     [] ~Allowed /\ m = "GET" -> "look"
                     [] OTHER -> "hook")
    /\ state' = IF Trying THEN "half_open" ELSE state
    /\ trial' = IF Trying THEN {c} ELSE trial
    /\ at' = [at EXCEPT ![c] = 1]
    /\ got' = [got EXCEPT ![c] = 0]
    /\ answer' = [answer EXCEPT ![c] = "nothing"]
    /\ queued' = [queued EXCEPT ![c] = FALSE]
    /\ UNCHANGED <<failures, elapsed, worldVars, cache>>

\* The primary serves the request; it may also do so and answer with a 5xx.
Serve(c) ==
    /\ pc[c] = "call" /\ server # "down"
    /\ IF method[c] = "GET"
       THEN got' = [got EXCEPT ![c] = version] /\ UNCHANGED version
       ELSE /\ version < MaxWrites
            /\ version' = version + 1
            /\ got' = [got EXCEPT ![c] = version + 1]
    /\ Goto(c, "reply")
    /\ UNCHANGED <<breakerVars, server, raises, cache, method, at, answer, queued>>

\* It does not: a network error, or a server that refuses with a 5xx or 4xx.
Refuse(c) ==
    /\ pc[c] = "call"
    /\ \/ server # "up" /\ Goto(c, "err")
       \/ server = "up" /\ Goto(c, "ok")
    /\ UNCHANGED <<breakerVars, worldVars, cache, method, got, at, answer, queued>>

\* The answer: below 500 when the primary is well.
Reply(c) ==
    /\ pc[c] = "reply"
    /\ Goto(c, IF server = "up" THEN "ok" ELSE "err")
    /\ UNCHANGED <<breakerVars, worldVars, cache, method, got, at, answer, queued>>

\* An exception that is not one of NETWORK_ERRORS, such as a path that cannot be
\* encoded: request() answers 503 and the breaker hears nothing.
Raise(c) ==
    /\ pc[c] = "call" /\ raises < MaxRaises
    /\ raises' = raises + 1
    /\ Return(c, "none")
    /\ UNCHANGED <<breakerVars, server, version, cache, method, got, at, queued>>

Success(c) ==
    /\ pc[c] = "ok"
    /\ record_success
    /\ IF method[c] = "GET" /\ got[c] # 0 /\ NumCaches > 0
       THEN Goto(c, "put") /\ UNCHANGED answer
       ELSE Return(c, "primary")
    /\ UNCHANGED <<worldVars, cache, method, got, at, queued>>

\* Slip: a 5xx is an answer and is not counted.
FailureOfNetwork(c) ==
    /\ pc[c] = "err"
    /\ IF got[c] = 0 THEN record_failure ELSE UNCHANGED breakerVars
    /\ Fallback(c)
    /\ UNCHANGED <<worldVars, cache, method, got, at, answer, queued>>
Failure(c) ==
    /\ pc[c] = "err"
    /\ record_failure
    /\ Fallback(c)
    /\ UNCHANGED <<worldVars, cache, method, got, at, answer, queued>>

\* _cache_put, one cache after the other; a failure is swallowed.
CachePut(c) ==
    /\ pc[c] = "put"
    /\ cache' \in {cache, [cache EXCEPT ![at[c]] = got[c]]}
    /\ IF at[c] < NumCaches
       THEN at' = [at EXCEPT ![c] = @ + 1] /\ UNCHANGED <<pc, answer>>
       ELSE Return(c, "primary") /\ UNCHANGED at
    /\ UNCHANGED <<breakerVars, worldVars, method, got, queued>>

\* _cache_get: the first cache that answers with an entry.
CacheGet(c) ==
    /\ pc[c] = "look"
    /\ \/ /\ at[c] <= NumCaches /\ cache[at[c]] # 0
          /\ got' = [got EXCEPT ![c] = cache[at[c]]]
          /\ Return(c, "cache")
          /\ UNCHANGED at
       \/ /\ at[c] <= NumCaches                       \* empty, or it failed
          /\ at' = [at EXCEPT ![c] = @ + 1]
          /\ UNCHANGED <<got, pc, answer>>
       \/ /\ at[c] > NumCaches
          /\ \E s \in {"error", "none"} : Return(c, s)
          /\ UNCHANGED <<got, at>>
    /\ UNCHANGED <<breakerVars, worldVars, cache, method, queued>>

\* on_offline_write takes the write, or there is none or it fails.
OfflineWrite(c) ==
    /\ pc[c] = "hook"
    /\ \/ Return(c, "queued") /\ queued' = [queued EXCEPT ![c] = TRUE]
       \/ \E s \in {"error", "none"} : Return(c, s) /\ UNCHANGED queued
    /\ UNCHANGED <<breakerVars, worldVars, cache, method, got, at>>

RequestStep(c) ==
    \/ Serve(c) \/ Refuse(c) \/ Reply(c) \/ Success(c) \/ Failure(c)
    \/ CachePut(c) \/ CacheGet(c) \/ OfflineWrite(c)

ServerChange ==
    /\ server' \in {"up", "sick", "down"} \ {server}
    /\ UNCHANGED <<breakerVars, version, raises, cache, requestVars, queued>>

Next ==
    \/ \E c \in Clients : Ask(c) \/ RequestStep(c) \/ Raise(c)
    \/ RecoveryTimeout \/ ServerChange

Spec == Init /\ [][Next]_vars

\* Threads run and time passes; nobody has to ask, nor the primary to recover.
FairSpec ==
    /\ Spec
    /\ \A c \in Clients : WF_vars(RequestStep(c))
    /\ WF_vars(RecoveryTimeout)

-----------------------------------------------------------------------------
(* Properties.                                                              *)

\* The breaker's two variables agree whatever order late successes and failures
\* of other threads come in: it is closed exactly while fewer than Threshold
\* failures followed the last success.
BreakerCoherent == state = "closed" <=> failures < Threshold

\* A half-open breaker is waiting for its one trial: that request is still under
\* way and will report, or nobody would ever be let through again.  Only an
\* exception that escapes _call_primary ends the promise.
Reporting(c) == pc[c] \in {"call", "reply", "ok", "err"}
OneTrial ==
    raises = 0 /\ state = "half_open" => \E c \in Clients : trial = {c} /\ Reporting(c)

\* Automatic recovery: when the primary stays well and requests keep coming, the
\* traffic returns to it for good.
Recovers ==
    /\ [](raises = 0)
    /\ <>[](server = "up")
    /\ []<><<\E c \in Clients : Ask(c)>>_vars
    => <>[](state = "closed")

=============================================================================
