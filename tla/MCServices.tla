----------------------------- MODULE MCServices -----------------------------
(* An instance of Services for TLC.                                         *)
EXTENDS Services, TLC

CONSTANTS p1, p2, db, web, auth, ann, bob, a, b, d1, d2      \* model values

ChainOfTwo == <<p1, p2>>
Dependencies == (db :> {}) @@ (auth :> {db}) @@ (web :> {auth})
FirstEmails == (ann :> a) @@ (bob :> b)

\* A device and one that shares its canvas hash or its TLS fingerprint.
RelatedDevices == (d1 :> {d1, d2}) @@ (d2 :> {d1, d2})
\* The classifier need only mention a hard category for it to be flagged.
Thresholds == ("soft" :> 7) @@ ("hard" :> 0)
Embeddings == {<<1, 0>>, <<-1, 1>>, <<1>>}

\* One argument the tool requires, one it knows, and one it does not.
Schema == ("n" :> "integer") @@ ("s" :> "string")
SomeArguments == UNION {[D -> {"str", "int", "bool"}] : D \in SUBSET {"n", "x"}}

\* Payloads of one or two strings, under plain keys and under keys that read
\* differently in a field path.  A list and a dictionary are never in one place.
Place0 == <<"#", "0">>
KeyNames ==
    {<<"a">>, <<"b">>, <<"0">>, <<"sup2">>, <<".">>, <<>>,
     <<"a", ".", "b">>, <<"a", ".", "0">>, <<"a", "[", "0", "]">>}
Paths ==
    {<<k>> : k \in KeyNames} \cup {<<<<"a">>, <<"b">>, <<"b">>>>}
    \cup {<<j, k>> : j \in {<<"a">>, <<"0">>}, k \in {<<"b">>, <<"sup2">>, <<"a", ".", "b">>, Place0}}
Together(s, t) ==
    \E i \in DOMAIN s \cap DOMAIN t :
        /\ SubSeq(s, 1, i - 1) = SubSeq(t, 1, i - 1)
        /\ s[i] # t[i] /\ Place0 \notin {s[i], t[i]}
Shapes == {{s} : s \in Paths} \cup {{st[1], st[2]} : st \in {st \in Paths \X Paths : Together(st[1], st[2])}}
SmallPayloads == UNION {[D -> {"nothing", "email", "ssn", "health"}] : D \in Shapes}
=============================================================================
