-------------------------- MODULE ComplianceGuard --------------------------
(***************************************************************************)
(* compliance_guard.py: scan a payload for personal data, ask for a legal  *)
(* basis, anonymize what was found.                                        *)
(*                                                                         *)
(* A payload, dictionaries and lists nested at will, is given by its       *)
(* leaves: a function from the path of each string to what the string      *)
(* holds.  A path is the sequence of keys from the root.  A key is the     *)
(* sequence of its words, digits, dots and brackets; a list's place is     *)
(* <<"#", n>>.  _walk() writes a path down as text; _apply_anonymization() *)
(* splits the text again, at any dot and bracket, and reads digits as a    *)
(* number: what is left of a key are its Parts.                            *)
(*                                                                         *)
(* Abstractions.  Every branch ends in strings; a number is written in one *)
(* way; anonymized text is alike, whatever the mode.                       *)
(***************************************************************************)
EXTENDS Naturals, Sequences, SequencesExt

CONSTANTS
    Payloads,           \* payloads considered
    max_scan_depth,
    Numbers,            \* texts of digits
    Odd                 \* texts that isdigit() calls digits and int() refuses, as superscripts

Separators == {".", "[", "]"}
IsPlace(key) == key # <<>> /\ Head(key) = "#"
IsOdd(key) == key # <<>> /\ Head(key) \in Odd

\* What becomes of a key on its way through a field path.
Part(token) ==
    CASE token \in Separators -> <<>>
      [] token \in Numbers    -> << <<"#", token>> >>
      [] OTHER                -> << <<token>> >>
Parts(key) ==
    IF IsPlace(key) THEN <<key>> ELSE FlattenSeq([i \in DOMAIN key |-> Part(key[i])])
FieldPath(p) == FlattenSeq([i \in DOMAIN p |-> Parts(p[i])])

Holds == {"nothing", "email", "ssn", "health", "anon"}
PII == {"email", "ssn"}

VARIABLES
    payload, legal_basis,
    allowed,    \* of the ComplianceReport: "unknown", "yes", "no"; or evaluate() "raised"
    copy        \* anonymized_payload

guardVars == <<payload, legal_basis, allowed, copy>>

TypeOK ==
    /\ payload \in Payloads /\ legal_basis \in BOOLEAN
    /\ allowed \in {"unknown", "yes", "no", "raised"}
    /\ DOMAIN copy = DOMAIN payload /\ \A p \in DOMAIN copy : copy[p] \in Holds

Init ==
    /\ payload \in Payloads /\ legal_basis \in BOOLEAN
    /\ allowed = "unknown" /\ copy = payload

\* scan(): _walk() does not look below max_scan_depth.  Slip: nor at it.
MatchesAbove(kinds) ==
    {p \in DOMAIN payload : Len(p) < max_scan_depth /\ payload[p] \in kinds}
Matches(kinds) ==
    {p \in DOMAIN payload : Len(p) <= max_scan_depth /\ payload[p] \in kinds}

\* _apply_anonymization() raises for a path of no parts, and for a part that int()
\* refuses when the parts before it lead somewhere.
Leads(parts) == \E p \in DOMAIN payload : IsPrefix(parts, p)
MustRaise(parts) ==
    parts = <<>> \/ \E n \in DOMAIN parts : IsOdd(parts[n]) /\ Leads(SubSeq(parts, 1, n - 1))
\* A string is indexed like a list, where it is long enough; but its characters take
\* no assignment.
MayRaise(parts) ==
    \E n, m \in DOMAIN parts :
        /\ n < m /\ SubSeq(parts, 1, n) \in DOMAIN payload
        /\ \A k \in (n + 1)..(m - 1) : IsPlace(parts[k])
        /\ IsOdd(parts[m]) \/ (m = Len(parts) /\ IsPlace(parts[m]))

\* A field path that leads to no string of the copy is passed over.
anonymize(hit) == [p \in DOMAIN payload |-> IF p \in hit THEN "anon" ELSE payload[p]]

evaluate ==
    /\ allowed = "unknown"
    /\ LET hit == {FieldPath(p) : p \in Matches(PII)} IN
        \/ /\ \E parts \in hit : MustRaise(parts) \/ MayRaise(parts)
           /\ allowed' = "raised"
           /\ UNCHANGED copy
        \/ /\ \A parts \in hit : ~MustRaise(parts)
           /\ allowed' = IF Matches({"ssn", "health"}) # {} /\ ~legal_basis THEN "no" ELSE "yes"
           /\ copy' = anonymize(hit)
    /\ UNCHANGED <<payload, legal_basis>>

Spec == Init /\ [][evaluate]_guardVars

-----------------------------------------------------------------------------
\* A key that reads in a field path as what it is: a place of a list, or one word.
Plain(key) ==
    \/ IsPlace(key)
    \/ Len(key) = 1 /\ Head(key) \notin Separators \cup Numbers \cup Odd
PlainPath(p) == \A i \in DOMAIN p : Plain(p[i])
Found(p) == Len(p) <= max_scan_depth /\ payload[p] \in PII

\* In a report's copy every string found under plain keys is anonymized, whatever other
\* keys read as.  Keys that are not plain do harm only where something was found under
\* them: then a string that nothing was found in may be overwritten in place of the
\* one meant, or evaluate() raises.
AnonymizedWell ==
    LET astray == \E q \in DOMAIN payload : Found(q) /\ ~PlainPath(q) IN
    /\ allowed \in {"yes", "no"} =>
        \A p \in DOMAIN payload :
            /\ Found(p) /\ PlainPath(p) => copy[p] = "anon"
            /\ copy[p] # payload[p] => Found(p) \/ astray
    /\ allowed = "raised" => astray

=============================================================================
