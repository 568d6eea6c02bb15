----------------------------- MODULE Deployment -----------------------------
(***************************************************************************)
(* orchestrator.py: one pipeline run after another, and the traffic of the *)
(* Cloud Run service they deploy to.                                       *)
(*                                                                         *)
(* External.  gcloud keeps the revisions, the tag "canary" and the split   *)
(* of traffic; a call succeeds with all its effect or fails with none.  A  *)
(* deployment makes its revision the latest one; --to-latest gives it all  *)
(* traffic.  The pipeline is one process, which may be killed between two  *)
(* calls; nothing resumes it.                                              *)
(*                                                                         *)
(* Abstraction.  A canary's share is the smaller one: canary_percent, 10   *)
(* by default, is below 50.                                                *)
(***************************************************************************)
EXTENDS Naturals

CONSTANTS
    MaxDeployments,         \* bound
    require_human_approval  \* config; without a human attached it never comes

VARIABLES
    step,       \* what the pipeline does next
    latest,     \* the latest revision, which has the tag "canary"; 0 at first
    full,       \* the revision with the larger share of traffic
    share,      \* share of the latest revision: "none", "some", "all"
    verdict,    \* result of the last run() that ended
    soaked      \* history: revisions whose soak has ended, well or not

deployVars == <<step, latest, full, share, verdict, soaked>>

TypeOK ==
    /\ step \in {"idle", "analysis", "tests", "build", "deploy", "split", "soak",
                 "promote", "rollback"}
    /\ latest \in 0..MaxDeployments
    /\ full \in 0..latest
    /\ share \in {"none", "some", "all"}
    /\ verdict \in {"none", "deployed", "failed"}
    /\ soaked \subseteq 0..latest

Init ==
    /\ step = "idle" /\ latest = 0 /\ full = 0 /\ share = "all" /\ verdict = "none"
    /\ soaked = {0}

TrafficVars == <<latest, full, share>>
Goes(s) == step' = s /\ UNCHANGED verdict
Ends(v) == step' = "idle" /\ verdict' = v

Run ==
    /\ step = "idle" /\ latest < MaxDeployments
    /\ Goes("analysis")
    /\ UNCHANGED <<TrafficVars, soaked>>

\* run_static_analysis(), run_tests() and build_image().
Check ==
    /\ \/ step = "analysis" /\ Goes("tests")
       \/ step = "tests" /\ Goes("build")
       \/ step = "build" /\ Goes("deploy")
       \/ step \in {"analysis", "tests", "build"} /\ Ends("failed")
    /\ UNCHANGED <<TrafficVars, soaked>>

\* deploy_canary(): with --no-traffic the others keep what they have.
Deploy ==
    /\ step = "deploy"
    /\ \/ latest' = latest + 1 /\ share' = "none" /\ Goes("split")
       \/ Ends("failed") /\ UNCHANGED <<latest, share>>
    /\ UNCHANGED <<full, soaked>>

\* Slip: a split that fails is answered with rollback(), like a failed soak.
SplitRollsBack ==
    /\ step = "split"
    /\ \/ share' = "some" /\ Goes("soak")
       \/ Goes("rollback") /\ UNCHANGED share
    /\ UNCHANGED <<latest, full, soaked>>
Split ==
    /\ step = "split"
    /\ \/ share' = "some" /\ Goes("soak")
       \/ Ends("failed") /\ UNCHANGED share
    /\ UNCHANGED <<latest, full, soaked>>

\* observe_canary() until the deadline or the first breach.
Soak ==
    /\ step = "soak"
    /\ Goes("promote") \/ Goes("rollback")
    /\ soaked' = soaked \cup {latest}
    /\ UNCHANGED TrafficVars

ToLatest == share' = "all" /\ full' = latest

\* promote_to_production().  _await_human_approval() answers "not required".
Promote ==
    /\ step = "promote"
    /\ \/ ~require_human_approval /\ ToLatest /\ Ends("deployed")
       \/ Goes("rollback") /\ UNCHANGED <<share, full>>
    /\ UNCHANGED <<latest, soaked>>

\* rollback() calls gcloud with --to-latest; its own result is not looked at.
Rollback ==
    /\ step = "rollback"
    /\ ToLatest \/ UNCHANGED <<share, full>>
    /\ Ends("failed")
    /\ UNCHANGED <<latest, soaked>>

Killed ==
    /\ step # "idle"
    /\ Goes("idle")
    /\ UNCHANGED <<TrafficVars, soaked>>

Next == Run \/ Check \/ Deploy \/ Split \/ Soak \/ Promote \/ Rollback \/ Killed

Spec == Init /\ [][Next]_deployVars

-----------------------------------------------------------------------------
\* However runs fail or are killed, the main share of traffic never goes to a revision
\* nobody observed.  (Observed well would be false: see Rollback.)
FullIsSoaked == full \in soaked

=============================================================================
