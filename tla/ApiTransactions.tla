--------------------------- MODULE ApiTransactions ---------------------------
(***************************************************************************)
(* The routes of api/ that write to the database: registration, a user's   *)
(* change of email, an administrator's change of a user's flags, and a     *)
(* chat message.  get_db_session() gives each request one transaction that *)
(* is committed when the route returns and rolled back when it raises.     *)
(*                                                                         *)
(* The database is PostgreSQL at its default level, READ COMMITTED: a      *)
(* statement sees what was committed when it ran, a flushed row is locked  *)
(* until the transaction ends, and the unique index on the email makes a   *)
(* second writer wait and then fail.  get_current_user() and               *)
(* get_current_superuser() are outside the tree: they load the caller and  *)
(* demand an active (and super) user, as their use says.                   *)
(***************************************************************************)
EXTENDS Naturals

CONSTANTS
    Users, Emails, None,
    FirstAdmins,    \* the administrators the platform starts with
    EmailOf,        \* their emails
    Requests,       \* HTTP requests under way at a time
    MaxTurns        \* bound: chat messages

VARIABLES
    account,    \* committed rows: email (None: no such user), active, super
    turns,      \* committed rows: conversations, messages of users and of the AI
    tx          \* the transaction of each request

apiVars == <<account, turns, tx>>

Ops == {"none", "register", "email", "revoke", "deactivate", "grant", "chat"}
NoTx == [op |-> "none", stage |-> "idle", user |-> None, email |-> None, new |-> FALSE]

TypeOK ==
    /\ account \in [Users -> [email : Emails \cup {None}, active : BOOLEAN, super : BOOLEAN]]
    /\ turns \in [conversations : Nat, user : Nat, ai : Nat]
    /\ tx \in [Requests -> [op : Ops, stage : {"idle", "loaded", "flushed"},
                            user : Users \cup {None}, email : Emails \cup {None}, new : BOOLEAN]]

Init ==
    /\ account = [u \in Users |-> [email |-> IF u \in FirstAdmins THEN EmailOf[u] ELSE None,
                                   active |-> u \in FirstAdmins, super |-> u \in FirstAdmins]]
    /\ turns = [conversations |-> 0, user |-> 0, ai |-> 0]
    /\ tx = [r \in Requests |-> NoTx]

Exists(u) == account[u].email # None
Taken(e, u) == \E v \in Users \ {u} : account[v].email = e
Admin(u) == account[u].active /\ account[u].super

Open(r, op, u, e, new) ==
    /\ tx[r] = NoTx
    /\ tx' = [tx EXCEPT ![r] =
                [op |-> op, stage |-> "loaded", user |-> u, email |-> e, new |-> new]]
    /\ UNCHANGED <<account, turns>>
Rollback(r) == tx' = [tx EXCEPT ![r] = NoTx]

\* register() has found no such email (else 409 at once).  The id is new.
Register(r, u, e) ==
    /\ ~Exists(u) /\ \A q \in Requests : tx[q].user # u
    /\ ~Taken(e, u)
    /\ Open(r, "register", u, e, TRUE)

\* PATCH /users/me with an email no other account has.
ChangeEmail(r, u, e) ==
    /\ Exists(u) /\ account[u].active /\ account[u].email # e /\ ~Taken(e, u)
    /\ Open(r, "email", u, e, FALSE)

\* PATCH /admin/users/{id}: nobody revokes or deactivates himself.
AdminUpdate(r, a, u, op) ==
    /\ Admin(a) /\ Exists(u)
    /\ op \in {"revoke", "deactivate"} => a # u
    /\ Open(r, op, u, None, FALSE)

\* POST /chat/messages, to a new conversation or to one that exists.
SendMessage(r, u, new) ==
    /\ Exists(u) /\ account[u].active
    /\ ~new => turns.conversations > 0
    /\ turns.ai < MaxTurns
    /\ Open(r, "chat", u, None, new)

\* db.flush(): waits for the row or the index entry another transaction has written,
\* and violates the unique index if that one was committed.  Slip: email is not unique.
FlushAnyEmail(r) ==
    /\ tx[r].stage = "loaded"
    /\ tx' = [tx EXCEPT ![r].stage = "flushed"]
    /\ UNCHANGED <<account, turns>>
Flush(r) ==
    /\ tx[r].stage = "loaded"
    /\ \A q \in Requests \ {r} : tx[q].stage = "flushed" =>
        /\ tx[q].op = "chat" \/ tx[r].op = "chat" \/ tx[q].user # tx[r].user
        /\ tx[r].email = None \/ tx[q].email # tx[r].email
    /\ IF tx[r].email # None /\ Taken(tx[r].email, tx[r].user)
       THEN Rollback(r)                                             \* 409
       ELSE tx' = [tx EXCEPT ![r].stage = "flushed"]
    /\ UNCHANGED <<account, turns>>

\* The AI's answer fails: 502, and the question goes with the transaction.  Slip:
\* the exception is handled and the transaction committed.
AnswerFailsKept(r) ==
    /\ tx[r].op = "chat" /\ tx[r].stage = "loaded"
    /\ turns' = [turns EXCEPT !.user = @ + 1,
                              !.conversations = IF tx[r].new THEN @ + 1 ELSE @]
    /\ Rollback(r)
    /\ UNCHANGED account
AnswerFails(r) ==
    /\ tx[r].op = "chat" /\ tx[r].stage = "loaded"
    /\ Rollback(r)
    /\ UNCHANGED <<account, turns>>

\* The commit after the route: what was flushed, or nothing if it fails.
Written(r) ==
    LET u == tx[r].user
    IN  CASE tx[r].op = "register" ->
                [account EXCEPT ![u] = [email |-> tx[r].email, active |-> TRUE, super |-> FALSE]]
          [] tx[r].op = "email"      -> [account EXCEPT ![u].email = tx[r].email]
          [] tx[r].op = "revoke"     -> [account EXCEPT ![u].super = FALSE]
          [] tx[r].op = "deactivate" -> [account EXCEPT ![u].active = FALSE]
          [] tx[r].op = "grant"      -> [account EXCEPT ![u].super = TRUE, ![u].active = TRUE]
          [] OTHER                   -> account
Commit(r) ==
    /\ tx[r].stage = "flushed"
    /\ account' = Written(r)
    /\ turns' = IF tx[r].op # "chat" THEN turns
                ELSE [conversations |-> turns.conversations + (IF tx[r].new THEN 1 ELSE 0),
                      user |-> turns.user + 1, ai |-> turns.ai + 1]
    /\ Rollback(r)
CommitFails(r) ==
    /\ tx[r].stage = "flushed"
    /\ Rollback(r)
    /\ UNCHANGED <<account, turns>>

Next ==
    \E r \in Requests :
        \/ \E u \in Users, e \in Emails : Register(r, u, e) \/ ChangeEmail(r, u, e)
        \/ \E a, u \in Users, op \in {"revoke", "deactivate", "grant"} : AdminUpdate(r, a, u, op)
        \/ \E u \in Users, new \in BOOLEAN : SendMessage(r, u, new)
        \/ Flush(r) \/ AnswerFails(r) \/ Commit(r) \/ CommitFails(r)

Spec == Init /\ [][Next]_apiVars

-----------------------------------------------------------------------------
(* Properties.                                                              *)

\* However the checks of concurrent requests interleave with their commits, an email
\* belongs to one account, and a message of a user is never without its answer nor a
\* conversation without a message.
RowsConsistent ==
    /\ \A u, v \in Users : Exists(u) /\ account[u].email = account[v].email => u = v
    /\ turns.user = turns.ai /\ turns.conversations <= turns.user

=============================================================================
