----------------------------- MODULE Moderation -----------------------------
(***************************************************************************)
(* core/moderation.py: a call guarded by moderate_io(), whose prompt and   *)
(* whose output are each screened by rules and by a classifier.            *)
(*                                                                         *)
(* Abstractions.  A text is the set of categories the rules find in it.    *)
(* The classifier is a service that may raise, and may answer a category   *)
(* more than once; one that answers nothing stands for _noop_classifier.   *)
(* Scores are tenths.                                                      *)
(***************************************************************************)
EXTENDS Naturals, Sequences, SequencesExt

CONSTANTS
    Categories,
    HARD_BLOCK_CATEGORIES,
    thresholds,         \* of each category
    Scores,             \* a classifier may give
    MaxHits,            \* bound: hits of one answer
    check_output

VARIABLES
    stage,      \* of the guarded call
    text,       \* "prompt" or "output": what is being screened
    rules,      \* categories the rules have found in each of them
    heard       \* the classifier's answer about each

modVars == <<stage, text, rules, heard>>

Texts == {"prompt", "output"}
Hits == [category : Categories, score : Scores]

TypeOK ==
    /\ stage \in {"screen", "classify", "call", "returned", "raised", "blocked"}
    /\ text \in Texts
    /\ rules \in [Texts -> SUBSET Categories]
    /\ heard \in [Texts -> SeqOf(Hits, MaxHits)]

Nothing(value) == [t \in Texts |-> value]

\* A prompt that is not a string is not screened.
Init ==
    /\ stage \in {"screen", "call"}
    /\ text = "prompt"
    /\ rules \in IF stage = "call" THEN {Nothing({})}
                 ELSE {[Nothing({}) EXCEPT !["prompt"] = found] : found \in SUBSET Categories}
    /\ heard = Nothing(<<>>)

-----------------------------------------------------------------------------
(* moderate().                                                              *)

\* A rule that matches is a hit of high confidence.
local_hits(found) == {[category |-> c, score |-> 9] : c \in found}

\* The best score of each category.
\* Slip: the last score of a category, where the classifier's follow those of the rules.
MergedLast(found, answer) ==
    {h \in local_hits(found) : \A i \in DOMAIN answer : answer[i].category # h.category}
    \cup {answer[i] : i \in {i \in DOMAIN answer : \A j \in DOMAIN answer :
                                answer[j].category = answer[i].category => j <= i}}
merge_scores(found, answer) ==
    LET hits == local_hits(found) \cup ToSet(answer)
    IN {h \in hits : \A g \in hits : g.category = h.category => g.score <= h.score}

is_flagged(hit) == hit.score >= thresholds[hit.category]

\* What the guarded call does with an allowed text.
Allowed == stage' = IF text = "prompt" THEN "call" ELSE "returned"

\* A blank text is allowed, and one with a hard-blocked category blocked, at once.
Screen(blank) ==
    /\ stage = "screen"
    /\ IF blank
       THEN rules[text] = {} /\ Allowed
       ELSE stage' = IF rules[text] \cap HARD_BLOCK_CATEGORIES # {} THEN "blocked" ELSE "classify"
    /\ UNCHANGED <<text, rules, heard>>

\* An exception of the classifier counts as an answer without hits.
Classified(answer) ==
    /\ stage = "classify"
    /\ heard' = [heard EXCEPT ![text] = answer]
    /\ IF \E h \in merge_scores(rules[text], answer) : is_flagged(h)
       THEN stage' = "blocked"
       ELSE Allowed
    /\ UNCHANGED <<text, rules>>

-----------------------------------------------------------------------------
(* moderate_io().                                                           *)

\* The function returns an output that is screened ...
Output(found) ==
    /\ stage = "call" /\ check_output
    /\ stage' = "screen" /\ text' = "output"
    /\ rules' = [rules EXCEPT !["output"] = found]
    /\ UNCHANGED heard

\* ... or one that is no string, or need not be screened; or it raises.
Unscreened ==
    /\ stage = "call"
    /\ stage' \in {"returned", "raised"}
    /\ UNCHANGED <<text, rules, heard>>

Next ==
    \/ \E blank \in BOOLEAN : Screen(blank)
    \/ \E answer \in SeqOf(Hits, MaxHits) : Classified(answer)
    \/ \E found \in SUBSET Categories : Output(found)
    \/ Unscreened

Spec == Init /\ [][Next]_modVars

-----------------------------------------------------------------------------
\* Nothing objectionable passes: the function is not called, and its output not
\* returned, when the rules or the classifier gave any category a score that
\* reaches its threshold, however the other of them judged it; and nothing else
\* is blocked.
Objectionable(t) ==
    \/ rules[t] \cap HARD_BLOCK_CATEGORIES # {}
    \/ \E h \in local_hits(rules[t]) \cup ToSet(heard[t]) : h.score >= thresholds[h.category]
ModeratedWell ==
    /\ stage \in {"call", "returned"} \/ text = "output" => ~Objectionable("prompt")
    /\ stage = "returned" => ~Objectionable("output")
    /\ stage = "blocked" => Objectionable(text)

=============================================================================
