----------------------------- MODULE Reconnect ------------------------------
(***************************************************************************)
(* reconnect.py --watch beside kill_switch.sh: a watchdog that lifts the   *)
(* kill switch when the host looks safe, and an operator who sets and      *)
(* lifts it by hand.                                                       *)
(*                                                                         *)
(* Concurrency.  One watchdog (its own lock file), the operator's shell    *)
(* and a pending --revert-after: operating system processes.  Each check   *)
(* of a cycle reads one thing of the world and is a step of its own; so    *)
(* is each firewall call (KillSwitch).                                     *)
(*                                                                         *)
(* Abstractions.  A pass of run_checks gives one verdict on the host.      *)
(* The configuration is the default one: the script is there and no        *)
(* interface is managed.  recent keeps the reconnects of the last hour;    *)
(* one that the state file does not have is FALSE in it.                   *)
(***************************************************************************)
EXTENDS KillSwitch, FiniteSets

CONSTANTS
    Operator, Watchdog,   \* the other two processes
    StablePasses,         \* Config.stable_passes
    MaxReconnects,        \* Config.max_reconnects_per_hour
    MaxCommands,          \* bound: commands of the operator
    MaxUpsets             \* bound: crashes, reboots, failed writes of the file

ASSUME ReconnectAssumption ==
    /\ Procs = {Operator, Watchdog, Revert} /\ Awaited = {Watchdog}
    /\ Operator # Watchdog /\ Revert \notin {Operator, Watchdog}
    /\ StablePasses \in Nat \ {0} /\ MaxReconnects \in Nat
    /\ MaxCommands \in Nat /\ MaxUpsets \in Nat

VARIABLES
    pc,         \* where the cycle stands
    passes,     \* clean passes of this cycle
    recent,     \* reconnects of the last hour, oldest first: is it in the file?
    safe, hold, \* the verdict the checks would give, and the HOLD file
    cleaned,    \* history: direct_unblock() ran beside another command
    commands, upsets    \* bounds

cycleVars == <<pc, passes, recent>>
envVars   == <<safe, hold>>
vars == <<backend, table, chain, jump, lock, job, at, ended, revert, kills,
          pc, passes, recent, safe, hold, cleaned, commands, upsets>>

TypeOK ==
    /\ KsTypeOK
    /\ pc \in {"poll", "hold", "rate", "check", "record", "off", "lifting",
               "cleaning", "lifted", "verify", "recheck", "reisolate", "isolating"}
    /\ passes \in 0..(StablePasses - 1)
    /\ recent \in Seq(BOOLEAN)
    /\ safe \in BOOLEAN /\ hold \in BOOLEAN
    /\ cleaned \in BOOLEAN
    /\ commands \in 0..MaxCommands /\ upsets \in 0..MaxUpsets

Init ==
    /\ KsInit
    /\ pc = "poll" /\ passes = 0 /\ recent = <<>>
    /\ safe \in BOOLEAN /\ hold = FALSE
    /\ cleaned = FALSE /\ commands = 0 /\ upsets = 0

Goto(s) == pc' = s
Upset == upsets < MaxUpsets /\ upsets' = upsets + 1

-----------------------------------------------------------------------------
(* cycle().  The gates and the checks.                                      *)

Isolated ==                                            \* is_isolated
    /\ pc = "poll" /\ Active
    /\ Goto("hold")
    /\ UNCHANGED <<ksVars, passes, recent, envVars, cleaned, commands, upsets>>

HoldGate ==
    /\ pc = "hold"
    /\ Goto(IF hold THEN "poll" ELSE "rate")
    /\ UNCHANGED <<ksVars, passes, recent, envVars, cleaned, commands, upsets>>

Filed == {i \in DOMAIN recent : recent[i]}           \* State.recent
\* Slip: one too many.
RateGateLate ==
    /\ pc = "rate"
    /\ Goto(IF Cardinality(Filed) > MaxReconnects THEN "poll" ELSE "check")
    /\ passes' = 0
    /\ UNCHANGED <<ksVars, recent, envVars, cleaned, commands, upsets>>
RateGate ==
    /\ pc = "rate"
    /\ Goto(IF Cardinality(Filed) >= MaxReconnects THEN "poll" ELSE "check")
    /\ passes' = 0
    /\ UNCHANGED <<ksVars, recent, envVars, cleaned, commands, upsets>>

\* run_checks: the disk, load and memory, the required services, the listening
\* ports, the UID-0 accounts and the baseline of files; one that crashes fails.
run_checks == safe

\* Slip: the count starts anew with every pass.
CheckPassForgets ==
    /\ pc = "check"
    /\ passes' = 0
    /\ Goto(IF safe /\ passes + 1 < StablePasses THEN "check"
            ELSE IF safe THEN "record" ELSE "poll")
    /\ UNCHANGED <<ksVars, recent, envVars, cleaned, commands, upsets>>
\* One pass of checks_stable: an unclean one ends the cycle.
CheckPass ==
    /\ pc = "check"
    /\ \/ /\ run_checks /\ passes + 1 < StablePasses
          /\ passes' = passes + 1
          /\ UNCHANGED pc
       \/ /\ run_checks /\ passes + 1 = StablePasses
          /\ passes' = 0
          /\ Goto("record")
       \/ /\ ~run_checks
          /\ passes' = 0
          /\ Goto("poll")
    /\ UNCHANGED <<ksVars, recent, envVars, cleaned, commands, upsets>>

\* State.record: an OSError leaves the file as it is, and the next cycle reads
\* the file again.
Record ==
    /\ pc = "record"
    /\ \/ recent' = Append(recent, TRUE) /\ UNCHANGED upsets
       \/ recent' = Append(recent, FALSE) /\ Upset
    /\ Goto("off")
    /\ UNCHANGED <<ksVars, passes, envVars, cleaned, commands>>

-----------------------------------------------------------------------------
(* cycle().  Restore, verify, re-check.                                     *)

\* restore_network: the script, and direct_unblock() when it fails.
RunOff ==
    /\ pc = "off"
    /\ Begin(Watchdog, "off")
    /\ Goto("lifting")
    /\ UNCHANGED <<revert, passes, recent, envVars, cleaned, commands, upsets>>

OffEnds ==
    /\ pc = "lifting" /\ Idle(Watchdog)
    /\ \/ /\ ended[Watchdog] = "ok"
          /\ Goto("lifted")
          /\ UNCHANGED <<job, at, ended, cleaned>>
       \/ /\ ended[Watchdog] = "failed"
          /\ job' = [job EXCEPT ![Watchdog] = "cleanup"]
          /\ at' = [at EXCEPT ![Watchdog] = 1]
          /\ ended' = Noted(Watchdog, "ok")
          /\ cleaned' = TRUE
          /\ Goto("cleaning")
    /\ UNCHANGED <<backend, ruleVars, lock, revert, kills, passes, recent,
                   envVars, commands, upsets>>

CleanupEnds ==
    /\ pc = "cleaning" /\ Idle(Watchdog)
    /\ Goto("lifted")
    /\ UNCHANGED <<ksVars, passes, recent, envVars, cleaned, commands, upsets>>

\* Rules still there: restore_failed.
Lifted ==
    /\ pc = "lifted"
    /\ Goto(IF Active THEN "poll" ELSE "verify")
    /\ UNCHANGED <<ksVars, passes, recent, envVars, cleaned, commands, upsets>>

\* The internet is reached, or verify_internet gives up: no_internet.
Verify ==
    /\ pc = "verify"
    /\ \E s \in {"recheck", "poll"} : Goto(s)
    /\ UNCHANGED <<ksVars, passes, recent, envVars, cleaned, commands, upsets>>

Recheck ==
    /\ pc = "recheck"
    /\ Goto(IF run_checks THEN "poll" ELSE "reisolate")
    /\ UNCHANGED <<ksVars, passes, recent, envVars, cleaned, commands, upsets>>

\* reisolate(): the exit code of the script is only logged.
RunOn ==
    /\ pc = "reisolate"
    /\ Begin(Watchdog, "on")
    /\ Goto("isolating")
    /\ UNCHANGED <<revert, passes, recent, envVars, cleaned, commands, upsets>>

OnEnds ==
    /\ pc = "isolating" /\ Idle(Watchdog)
    /\ Goto("poll")
    /\ UNCHANGED <<ksVars, passes, recent, envVars, cleaned, commands, upsets>>

Cycle ==
    \/ Isolated \/ HoldGate \/ RateGate \/ CheckPass \/ Record
    \/ RunOff \/ OffEnds \/ CleanupEnds \/ Lifted \/ Verify \/ Recheck
    \/ RunOn \/ OnEnds

-----------------------------------------------------------------------------
(* The operator, the processes, the world.                                  *)

Command(j) ==
    /\ commands < MaxCommands /\ commands' = commands + 1
    /\ Begin(Operator, j)
    /\ \/ UNCHANGED revert
       \/ j = "on" /\ lock = Nobody /\ revert = "none" /\ revert' = "asked"
    /\ UNCHANGED <<cycleVars, envVars, cleaned, upsets>>

Runs(p) ==
    /\ Step(p)
    /\ UNCHANGED <<cycleVars, envVars, cleaned, commands, upsets>>

Killed(p) ==
    /\ Die(p) /\ job[p] # "cleanup"
    /\ UNCHANGED <<cycleVars, envVars, cleaned, commands, upsets>>

RevertProcess ==
    /\ RevertWakes \/ RevertBegins
    /\ UNCHANGED <<cycleVars, envVars, cleaned, commands, upsets>>

\* systemd kills the watchdog with its child and starts it again.  A crash in
\* the middle of State.record leaves a file that cannot be read.
WatchdogRestart ==
    /\ pc # "poll" /\ Upset
    /\ Goto("poll") /\ passes' = 0
    /\ recent' \in {recent} \cup
         (IF pc = "record" THEN {[i \in DOMAIN recent |-> FALSE]} ELSE {})
    /\ IF Idle(Watchdog) THEN UNCHANGED procVars ELSE End(Watchdog, "failed")
    /\ UNCHANGED <<backend, ruleVars, kills, envVars, cleaned, commands>>

\* Rules live in memory only; HOLD and the state file are on disk.
Reboot ==
    /\ Upset
    /\ table' = FALSE /\ chain' = [p \in Parts |-> "absent"] /\ jump' = {}
    /\ lock' = Nobody /\ revert' = "none"
    /\ job' = [p \in Procs |-> "none"] /\ at' = [p \in Procs |-> 1]
    /\ ended' = [p \in Awaited |-> "ok"]
    /\ Goto("poll") /\ passes' = 0
    /\ UNCHANGED <<backend, kills, recent, envVars, cleaned, commands>>

OldestExpires ==
    /\ recent # <<>>
    /\ recent' = Tail(recent)
    /\ UNCHANGED <<ksVars, pc, passes, envVars, cleaned, commands, upsets>>

World ==
    /\ \/ safe' = ~safe /\ UNCHANGED hold
       \/ hold' = ~hold /\ UNCHANGED safe
    /\ UNCHANGED <<ksVars, cycleVars, cleaned, commands, upsets>>

Next ==
    \/ Cycle
    \/ \E j \in {"on", "off"} : Command(j)
    \/ \E p \in Procs : Runs(p) \/ Killed(p)
    \/ RevertProcess \/ WatchdogRestart \/ Reboot \/ OldestExpires \/ World

Spec == Init /\ [][Next]_vars

\* Processes run, the hour passes.  Nothing is assumed of the operator or the
\* world.
Fairness ==
    /\ WF_vars(Cycle) /\ WF_vars(RevertProcess) /\ WF_vars(OldestExpires)
    /\ \A p \in Procs : WF_vars(Runs(p))

FairSpec == Spec /\ Fairness

-----------------------------------------------------------------------------
(* Properties.                                                              *)

\* "status" tells the truth while no command is under way: ACTIVE means that
\* every hook of every family drops, inactive that none does -- as long as no
\* command was interrupted and no cleanup went past the lock.
Quiet == lock \in {Nobody, Revert} /\ \A p \in Procs : Idle(p)
StatusTruthful ==
    /\ TypeOK
    /\ Quiet /\ kills = 0 /\ upsets = 0 /\ ~cleaned =>
         \A p \in Parts : Blocked(p) = Active

\* Setting the switch again never opens a hole: no step of an "on" lets through
\* what was blocked before it, not even beside an interrupted or racing command.
NoHole ==
    [][\A p \in Procs : job[p] = "on" /\ at'[p] = at[p] + 1 =>
          \A q \in Parts : Blocked(q) => Blocked(q)']_vars

\* Flapping guard: no more reconnects in an hour than configured, over crashes
\* of the watchdog and reboots, unless the state file lost one.
FlappingGuard ==
    (\A i \in DOMAIN recent : recent[i]) => Len(recent) <= MaxReconnects

\* A host that stays safe, without HOLD, is reconnected however the lock, the
\* operator and interrupted commands got in the way.
ComesBack ==
    MaxReconnects > 0 /\ <>[](safe /\ ~hold) => []<>(~Active)

\* The dead man's switch: a pending revert lifts the block, unless it is killed or
\* another command takes the lock in the moment it lets go of it.
RevertLifts ==
    (revert = "sleeping") ~> (~Active \/ lock \in {Operator, Watchdog} \/ kills > 0)

\* "the script will never override it": while HOLD is there, no step of the
\* watchdog lets through what was blocked.
HoldKept ==
    [][hold /\ job[Watchdog] \in {"off", "cleanup"} /\ at'[Watchdog] > at[Watchdog] =>
          \A q \in Parts : Blocked(q) => Blocked(q)']_vars

=============================================================================
