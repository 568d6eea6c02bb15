----------------------------- MODULE UserService -----------------------------
(***************************************************************************)
(* UserService on its InMemoryUserRepository                               *)
(* (backend/app/services/user_service.py), the only repository in the      *)
(* tree.  Its coroutines never suspend, so that each call of the service   *)
(* is one step.                                                            *)
(*                                                                         *)
(* Abstractions.  A password hash is the password it verifies: to          *)
(* strengthen it on login changes nothing here.  A profile is whether it   *)
(* holds a display_name.  Nobody clears is_active.  Emails are normalized  *)
(* and well formed: the others are refused before anything is read.  A     *)
(* token is its payload; tokens alike but for their jti are one, which     *)
(* expires with the last of them.                                          *)
(***************************************************************************)
EXTENDS Naturals

CONSTANTS
    UserIds,        \* what uuid4() may draw: no id is drawn twice
    Emails,
    Passwords,
    Weak            \* the passwords _validate_password_strength refuses

VARIABLES
    by_id,          \* _by_id: the record under a user_id, {} for none
    by_email,       \* _by_email: the user_id under an email, {} for none
    drawn,          \* history: the ids drawn so far
    issued          \* tokens that are valid: signed and not expired

accountVars == <<by_id, by_email, drawn, issued>>

UserRecord == [email : Emails, password : Passwords, named : BOOLEAN]
Token == [sub : UserIds, type : {"access", "refresh"}]

TypeOK ==
    /\ by_id \in [UserIds -> SUBSET UserRecord]
    /\ by_email \in [Emails -> SUBSET UserIds]
    /\ drawn \in SUBSET UserIds
    /\ issued \in SUBSET Token

Init ==
    /\ by_id = [u \in UserIds |-> {}]
    /\ by_email = [e \in Emails |-> {}]
    /\ drawn = {}
    /\ issued = {}

-----------------------------------------------------------------------------
(* InMemoryUserRepository.                                                  *)

Known(u) == by_id[u] # {}                                \* get_by_id
get_by_email(e) == {u \in by_email[e] : Known(u)}

create(u, r) ==
    /\ by_id' = [by_id EXCEPT ![u] = {r}]
    /\ by_email' = [by_email EXCEPT ![r.email] = {u}]

update(u, r) ==
    /\ by_id' = [by_id EXCEPT ![u] = {r}]
    /\ UNCHANGED by_email

\* Slip: the email keeps pointing to the erased record.
deletes_record_only(u) ==
    /\ by_id' = [by_id EXCEPT ![u] = {}]
    /\ UNCHANGED by_email
delete(u) ==
    /\ by_id' = [by_id EXCEPT ![u] = {}]
    /\ by_email' = [e \in Emails |->
                       IF \E r \in by_id[u] : r.email = e THEN {} ELSE by_email[e]]

-----------------------------------------------------------------------------
(* UserService: what each call does when it raises nothing.                 *)

Strong(p) == p \in Passwords \ Weak                      \* _validate_password_strength
TokenPair(u) == [sub : {u}, type : {"access", "refresh"}]

register(u, e, p, display_name) ==
    /\ u \notin drawn
    /\ Strong(p)
    /\ get_by_email(e) = {}
    /\ create(u, [email |-> e, password |-> p, named |-> display_name])
    /\ drawn' = drawn \cup {u}
    /\ UNCHANGED issued

authenticate(e, p) ==
    /\ \E u \in get_by_email(e) : \E r \in by_id[u] :
          /\ r.password = p
          /\ issued' = issued \cup TokenPair(u)
    /\ UNCHANGED <<by_id, by_email, drawn>>

\* The old refresh token stays valid until it expires.
refresh_access_token(t) ==
    /\ t \in issued /\ t.type = "refresh"
    /\ Known(t.sub)
    /\ issued' = issued \cup TokenPair(t.sub)
    /\ UNCHANGED <<by_id, by_email, drawn>>

update_profile(u, display_name) ==
    /\ \E r \in by_id[u] : update(u, [r EXCEPT !.named = @ \/ display_name])
    /\ UNCHANGED <<drawn, issued>>

change_password(u, current, new) ==
    /\ Strong(new)
    /\ \E r \in by_id[u] :
          /\ r.password = current
          /\ update(u, [r EXCEPT !.password = new])
    /\ UNCHANGED <<drawn, issued>>

delete_account(u) ==
    /\ delete(u)
    /\ UNCHANGED <<drawn, issued>>

\* ACCESS_TOKEN_TTL is shorter than REFRESH_TOKEN_TTL, and the two come in pairs.
Expire(t) ==
    /\ t \in issued
    /\ t.type = "refresh" => [t EXCEPT !.type = "access"] \notin issued
    /\ issued' = issued \ {t}
    /\ UNCHANGED <<by_id, by_email, drawn>>

Next ==
    \/ \E u \in UserIds, e \in Emails, p \in Passwords, n \in BOOLEAN : register(u, e, p, n)
    \/ \E e \in Emails, p \in Passwords : authenticate(e, p)
    \/ \E t \in issued : refresh_access_token(t) \/ Expire(t)
    \/ \E u \in UserIds, n \in BOOLEAN : update_profile(u, n)
    \/ \E u \in UserIds, p \in Passwords, q \in Passwords : change_password(u, p, q)
    \/ \E u \in UserIds : delete_account(u)

-----------------------------------------------------------------------------
(* Properties.                                                              *)

\* The two dictionaries of the repository agree: whoever is registered can log in
\* by email and nobody else by the same one, and an email that was given up with
\* its account can be registered again.
IndexAgrees ==
    /\ \A u \in UserIds : \A r \in by_id[u] : by_email[r.email] = {u}
    /\ \A e \in Emails : \A u \in by_email[e] : \E r \in by_id[u] : r.email = e
=============================================================================
