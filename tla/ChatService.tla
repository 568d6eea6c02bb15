----------------------------- MODULE ChatService -----------------------------
(***************************************************************************)
(* chat_service.py: one conversation, kept in the in-memory store, to      *)
(* which several callers send messages while others end it.                *)
(*                                                                         *)
(* Concurrency.  One event loop.  send_message() holds the ChatSession     *)
(* object across the provider's calls and its back-off, and the store      *)
(* hands every caller the same object; everything else is one step.        *)
(*                                                                         *)
(* Abstractions.  What is said, and with it the trimming of the history,   *)
(* is left out.  Time is kept as "idle for longer than the TTL".           *)
(***************************************************************************)
EXTENDS Naturals

CONSTANTS
    Senders,        \* calls of send_message()
    MaxRetries      \* PROVIDER_MAX_RETRIES

VARIABLES
    stored,     \* the store has the session
    idle,       \* is_expired()
    sending,    \* where each call stands
    retries,    \* failed attempts of its provider call
    over,       \* history: the session was ended, or deleted as expired
    late        \* history: calls that were under way then

chatVars == <<stored, idle, sending, retries, over, late>>

TypeOK ==
    /\ stored \in BOOLEAN /\ idle \in BOOLEAN /\ over \in BOOLEAN
    /\ sending \in [Senders -> {"new", "call", "backoff", "replied", "failed", "refused"}]
    /\ retries \in [Senders -> 0..MaxRetries]
    /\ late \subseteq Senders

\* start_session().
Init ==
    /\ stored = TRUE /\ idle = FALSE
    /\ sending = [s \in Senders |-> "new"]
    /\ retries = [s \in Senders |-> 0]
    /\ over = FALSE /\ late = {}

Awaiting(s) == sending[s] \in {"call", "backoff"}
UnderWay == {s \in Senders : Awaiting(s)}
Goto(s, p) == sending' = [sending EXCEPT ![s] = p]

delete ==
    /\ stored' = FALSE
    /\ over' = TRUE
    /\ late' = late \cup UnderWay

\* The session is not there any more, or has expired.
Refuse(s) ==
    /\ sending[s] = "new" /\ (~stored \/ idle)
    /\ Goto(s, "refused")
    /\ IF stored THEN delete ELSE UNCHANGED <<stored, over, late>>
    /\ UNCHANGED <<idle, retries>>

\* Slip: a session that a caller still knows is used although it was ended.
SendToEnded(s) ==
    /\ sending[s] = "new" /\ ~idle
    /\ Goto(s, "call")
    /\ UNCHANGED <<stored, idle, retries, over, late>>
Send(s) ==
    /\ sending[s] = "new" /\ stored /\ ~idle
    /\ Goto(s, "call")
    /\ UNCHANGED <<stored, idle, retries, over, late>>

\* The provider answers; the session is saved, whatever became of it meanwhile.
Reply(s) ==
    /\ sending[s] = "call"
    /\ idle' = FALSE /\ stored' = TRUE
    /\ Goto(s, "replied")
    /\ UNCHANGED <<retries, over, late>>

\* The question stays in the session when every attempt has failed.
Fail(s) ==
    /\ sending[s] = "call"
    /\ IF retries[s] < MaxRetries
       THEN Goto(s, "backoff") /\ retries' = [retries EXCEPT ![s] = @ + 1]
       ELSE Goto(s, "failed") /\ UNCHANGED retries
    /\ UNCHANGED <<stored, idle, over, late>>
Retry(s) ==
    /\ sending[s] = "backoff" /\ Goto(s, "call")
    /\ UNCHANGED <<stored, idle, retries, over, late>>

\* end_session(), and time.  A call ends well within the TTL.
End == stored /\ delete /\ UNCHANGED <<idle, sending, retries>>
TTL ==
    /\ UnderWay = {} /\ idle' = TRUE
    /\ UNCHANGED <<stored, sending, retries, over, late>>

Next ==
    \/ End \/ TTL
    \/ \E s \in Senders : Refuse(s) \/ Send(s) \/ Reply(s) \/ Fail(s) \/ Retry(s)

Spec == Init /\ [][Next]_chatVars

-----------------------------------------------------------------------------
\* A session that the user cleared, or that expired, comes back only through the
\* reply to a call that was already under way: no later message reaches it.
RevivedOnlyByLateReply ==
    [][over /\ ~stored /\ stored' => \E s \in late : Awaiting(s) /\ sending'[s] = "replied"]_chatVars

=============================================================================
