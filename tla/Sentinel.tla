------------------------------ MODULE Sentinel ------------------------------
(***************************************************************************)
(* sentinel_core.py for one client: sliding windows of its requests and    *)
(* bad responses, quarantines that escalate, and the maintenance tasks     *)
(* decay_strikes() and prune_idle().                                       *)
(*                                                                         *)
(* Concurrency.  evaluate_request() runs in one go, the route's handler    *)
(* then awaits, and record_response() follows when it answers.  Clients    *)
(* share nothing, so one stands for all.                                   *)
(*                                                                         *)
(* Abstractions.  A time is its age in ticks; Tick ages everything.  The   *)
(* quarantine doubles with each strike, the default multiplier.            *)
(***************************************************************************)
EXTENDS Naturals, Sequences, FiniteSetsExt

CONSTANTS
    Window,         \* window_seconds
    MaxRequests,    \* max_requests_per_window
    MaxBad,         \* max_errors_per_window, max_auth_failures_per_window
    Quarantine, MaxQuarantine,  \* quarantine_seconds, max_quarantine_seconds
    Idle,           \* of prune_idle() and decay_strikes(), longer than the window
    MaxStrikes, MaxOpen         \* bounds: strikes counted, requests being served

Kinds == {"error", "auth"}

VARIABLES
    request_times,  \* ages, oldest first
    bad_times,      \* error_times and auth_failure_times
    quarantined,    \* ticks left of the quarantine
    quarantine_strikes,
    open,           \* admitted requests whose handler has not answered
    admitted        \* history: ages of the requests let through in the last window

sentinelVars == <<request_times, bad_times, quarantined, quarantine_strikes, open, admitted>>
quarantineVars == <<quarantined, quarantine_strikes>>

\* Ages beyond Idle + 1 are all alike.
Ages == 0..(Idle + 1)
TypeOK ==
    /\ request_times \in Seq(Ages)
    /\ bad_times \in [Kinds -> Seq(Ages)]
    /\ quarantined \in 0..MaxQuarantine
    /\ quarantine_strikes \in 0..MaxStrikes
    /\ open \in 0..MaxOpen
    /\ admitted \in Seq(Ages)

Init ==
    /\ request_times = <<>> /\ bad_times = [k \in Kinds |-> <<>>]
    /\ quarantined = 0 /\ quarantine_strikes = 0
    /\ open = 0 /\ admitted = <<>>

Aged(s) == [i \in DOMAIN s |-> IF s[i] > Idle THEN s[i] ELSE s[i] + 1]
Young(s) == {i \in DOMAIN s : s[i] <= Window}
\* popleft() as long as the first is too old.
_trim_window(s) == IF Young(s) = {} THEN <<>> ELSE SubSeq(s, Min(Young(s)), Len(s))
Noted(s) == _trim_window(Append(s, 0))

Tick ==
    /\ request_times' = Aged(request_times)
    /\ bad_times' = [k \in Kinds |-> Aged(bad_times[k])]
    /\ quarantined' = IF quarantined > 0 THEN quarantined - 1 ELSE 0
    /\ admitted' = _trim_window(Aged(admitted))
    /\ UNCHANGED <<quarantine_strikes, open>>

\* quarantine_seconds, doubled with each strike counted before.
Doubled[strikes \in 0..MaxStrikes] ==
    IF strikes = 0 THEN Quarantine ELSE 2 * Doubled[strikes - 1]
_quarantine ==
    /\ quarantine_strikes' = Min({quarantine_strikes + 1, MaxStrikes})
    /\ quarantined' = Min({Doubled[quarantine_strikes], MaxQuarantine})

-----------------------------------------------------------------------------
(* evaluate_request(): a quarantined client is turned away and changes     *)
(* nothing.                                                                *)

Suspicious ==
    /\ quarantined = 0
    /\ _quarantine
    /\ UNCHANGED <<request_times, bad_times, open, admitted>>

Burst ==
    /\ quarantined = 0 /\ Len(Noted(request_times)) > MaxRequests
    /\ request_times' = Noted(request_times)
    /\ _quarantine
    /\ UNCHANGED <<bad_times, open, admitted>>

Admit ==
    /\ quarantined = 0 /\ Len(Noted(request_times)) <= MaxRequests
    /\ open < MaxOpen
    /\ request_times' = Noted(request_times)
    /\ admitted' = Append(admitted, 0)
    /\ open' = open + 1
    /\ UNCHANGED <<bad_times, quarantineVars>>

\* record_response(), also when the client was quarantined meanwhile.
Answer ==
    /\ open > 0 /\ open' = open - 1
    /\ UNCHANGED <<request_times, bad_times, quarantineVars, admitted>>

BadAnswer(k) ==
    /\ open > 0 /\ open' = open - 1
    /\ bad_times' = [bad_times EXCEPT ![k] = Noted(@)]
    /\ IF Len(Noted(bad_times[k])) > MaxBad THEN _quarantine ELSE UNCHANGED quarantineVars
    /\ UNCHANGED <<request_times, admitted>>

-----------------------------------------------------------------------------
\* The youngest request is older than Idle, or there is none.
Quiet == \A i \in DOMAIN request_times : request_times[i] > Idle

\* decay_strikes(): without any request time the client was last seen at time zero.
Decay ==
    /\ quarantine_strikes > 0
    /\ Quiet
    /\ quarantine_strikes' = quarantine_strikes - 1
    /\ UNCHANGED <<request_times, bad_times, quarantined, open, admitted>>

\* prune_idle(): the record is dropped, get() will make a new one.  Slip: the record
\* of a client that is not quarantined is dropped, seen lately or not.
Forget ==
    /\ request_times' = <<>> /\ bad_times' = [k \in Kinds |-> <<>>]
    /\ quarantined' = 0 /\ quarantine_strikes' = 0
    /\ UNCHANGED <<open, admitted>>
PruneAny == quarantined = 0 /\ Forget
Prune ==
    /\ quarantined = 0
    /\ Quiet
    /\ Forget

Next ==
    \/ Tick \/ Suspicious \/ Burst \/ Admit \/ Answer \/ Decay \/ Prune
    \/ \E k \in Kinds : BadAnswer(k)

Spec == Init /\ [][Next]_sentinelVars

-----------------------------------------------------------------------------
\* However requests, quarantines and the maintenance tasks interleave, no stretch of
\* Window ticks sees more than MaxRequests requests of a client let through.
AdmittedWithinLimit == Len(_trim_window(admitted)) <= MaxRequests

=============================================================================
