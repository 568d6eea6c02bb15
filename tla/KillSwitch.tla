----------------------------- MODULE KillSwitch -----------------------------
(***************************************************************************)
(* kill_switch.sh: the firewall rules that cut a host off from the         *)
(* internet, the commands that set and remove them, and the flock they     *)
(* exclude one another with.                                               *)
(*                                                                         *)
(* Concurrency.  A command is a process that runs its script one firewall  *)
(* call at a time; between two calls other processes run.  The process     *)
(* started by --revert-after inherits the descriptor of the lock file and  *)
(* with it the lock, and holds it while it sleeps.                         *)
(*                                                                         *)
(* Abstractions.  A part is one hook of one address family.  What is let   *)
(* through (LOCAL_NETS) is not kept: a chain with its rules drops what is  *)
(* not local.  A refused "on" (preflight_ssh) and --dry-run change nothing. *)
(***************************************************************************)
EXTENDS Naturals, Sequences

CONSTANTS
    Families,     \* address families, in the order of ipt_bins
    Hooks,        \* chains of a family, in the order of CHAINS
    Procs,        \* who runs commands: the operator, the watchdog, the revert
    Revert,       \* the process of --revert-after
    Awaited,      \* the processes whose exit code somebody reads
    Nobody,
    MaxKills      \* bound: commands that die half way

ASSUME KillSwitchAssumption ==
    /\ Families \in Seq(STRING) \ {<<>>} /\ Hooks \in Seq(STRING) \ {<<>>}
    /\ Awaited \subseteq Procs
    /\ Revert \in Procs /\ Nobody \notin Procs
    /\ MaxKills \in Nat

VARIABLES
    backend,    \* which tool the commands use
    table,      \* the nft table is loaded
    chain,      \* the iptables chain of each part
    jump,       \* the parts whose hook jumps to its chain
    lock,       \* who holds /run/kill_switch.lock
    job,        \* what each process is running
    at,         \* how far it is in its script
    ended,      \* how the last command ended, for those Awaited
    revert,     \* --revert-after: asked for, or its process sleeping
    kills       \* bound

ruleVars == <<table, chain, jump>>
procVars == <<lock, job, at, ended, revert>>
ksVars   == <<backend, table, chain, jump, lock, job, at, ended, revert, kills>>

Parts == {<<Families[f], Hooks[h]>> : f \in DOMAIN Families, h \in DOMAIN Hooks}

KsTypeOK ==
    /\ backend \in {"nft", "iptables"}
    /\ table \in BOOLEAN
    /\ chain \in [Parts -> {"absent", "empty", "drop"}]
    /\ jump \in SUBSET Parts
    /\ lock \in Procs \cup {Nobody}
    /\ job \in [Procs -> {"none", "on", "off", "cleanup"}]
    /\ at \in [Procs -> Nat \ {0}]
    /\ ended \in [Awaited -> {"ok", "failed"}]
    /\ revert \in {"none", "asked", "sleeping", "due"}
    /\ kills \in 0..MaxKills

KsInit ==
    /\ backend \in {"nft", "iptables"}
    /\ table = FALSE
    /\ chain = [p \in Parts |-> "absent"]
    /\ jump = {}
    /\ lock = Nobody
    /\ job = [p \in Procs |-> "none"]
    /\ at = [p \in Procs |-> 1]
    /\ ended = [p \in Awaited |-> "ok"]
    /\ revert = "none"
    /\ kills = 0

-----------------------------------------------------------------------------
(* The firewall calls, and the scripts made of them.                        *)

\* A call names a family and a hook, or goes for "all" of them.
Call(op, fam, hook) == [op |-> op, fam |-> fam, hook |-> hook]
\* n calls for each family, one family after the other.
PerFamily(n, Nth(_, _)) ==
    [k \in 1..(Len(Families) * n) |-> Nth(Families[((k - 1) \div n) + 1], ((k - 1) % n) + 1)]

\* The k-th of the calls ops, made for one hook after the other.
HookByHook(ops, fam, k) ==
    Call(ops[((k - 1) % Len(ops)) + 1], fam, Hooks[((k - 1) \div Len(ops)) + 1])

\* Slip: the old chains are flushed before the new rules are loaded.
ipt_on_flushes ==
    PerFamily(2 * Len(Hooks) + 1, LAMBDA fam, k :
        IF k <= Len(Hooks) THEN Call("flush", fam, Hooks[k])
        ELSE IF k = Len(Hooks) + 1 THEN Call("restore", fam, "all")
        ELSE Call("jump", fam, Hooks[k - Len(Hooks) - 1]))
\* An atomic restore of the family's chains, then a jump from each hook.
ipt_on ==
    PerFamily(Len(Hooks) + 1, LAMBDA fam, k :
        IF k = 1 THEN Call("restore", fam, "all") ELSE Call("jump", fam, Hooks[k - 1]))

\* The jumps first, then chain by chain.
ipt_off ==
    PerFamily(3 * Len(Hooks), LAMBDA fam, k :
        IF k <= Len(Hooks) THEN Call("unjump", fam, Hooks[k])
        ELSE HookByHook(<<"flush", "delete">>, fam, k - Len(Hooks)))

\* direct_unblock() of reconnect.py: both tools, hook by hook, without the lock.
direct_unblock ==
    <<Call("unload", "all", "all")>> \o
    PerFamily(3 * Len(Hooks), LAMBDA fam, k :
        HookByHook(<<"unjump", "flush", "delete">>, fam, k))

\* nft_on and nft_off are one atomic call each.
nft_on == <<Call("load", "all", "all")>>
nft_off == <<Call("unload", "all", "all")>>

Script(j) ==
    CASE j = "cleanup" -> direct_unblock
      [] j = "on" -> IF backend = "nft" THEN nft_on ELSE ipt_on
      [] j = "off" -> IF backend = "nft" THEN nft_off ELSE ipt_off

\* A jump to a chain that is not there is refused, and set -e ends the command.
Refused(c) == c.op = "jump" /\ chain[<<c.fam, c.hook>>] = "absent"

Perform(c) ==
    LET p == <<c.fam, c.hook>> IN
    \/ /\ c.op \in {"load", "unload"}
       /\ table' = (c.op = "load")
       /\ UNCHANGED <<chain, jump>>
    \/ /\ c.op = "restore"
       /\ chain' = [q \in Parts |-> IF q[1] = c.fam THEN "drop" ELSE chain[q]]
       /\ UNCHANGED <<table, jump>>
    \/ /\ c.op \in {"jump", "unjump"}
       /\ jump' = IF c.op = "jump" THEN jump \cup {p} ELSE jump \ {p}
       /\ UNCHANGED <<table, chain>>
    \/ /\ c.op = "flush"
       /\ chain' = [chain EXCEPT ![p] = IF @ = "absent" THEN @ ELSE "empty"]
       /\ UNCHANGED <<table, jump>>
    \/ /\ c.op = "delete"                 \* -X: only an empty, unused chain
       /\ chain' = [chain EXCEPT ![p] =
                      IF @ = "empty" /\ p \notin jump THEN "absent" ELSE @]
       /\ UNCHANGED <<table, jump>>

\* What gets through, and what "status" says: it looks at the table, or at the
\* first jump of the first family.
Blocked(p) == table \/ (p \in jump /\ chain[p] = "drop")
Active == IF backend = "nft" THEN table ELSE <<Families[1], Hooks[1]>> \in jump

-----------------------------------------------------------------------------
(* A command.                                                               *)

Idle(p) == job[p] = "none"
Noted(p, how) == [q \in Awaited |-> IF q = p THEN how ELSE ended[q]]

\* exec 9>lock; flock -n 9.  A command that finds the lock taken fails.
\* Slip: a command that finds the lock taken goes on.
BeginUnlocked(p, j) ==
    /\ Idle(p)
    /\ lock' = IF lock = Nobody THEN p ELSE lock
    /\ job' = [job EXCEPT ![p] = j]
    /\ at' = [at EXCEPT ![p] = 1]
    /\ UNCHANGED <<backend, ruleVars, ended, kills>>
Begin(p, j) ==
    /\ Idle(p)
    /\ IF lock = Nobody
       THEN /\ lock' = p
            /\ job' = [job EXCEPT ![p] = j]
            /\ at' = [at EXCEPT ![p] = 1]
            /\ UNCHANGED ended
       ELSE /\ ended' = Noted(p, "failed")
            /\ UNCHANGED <<lock, job, at>>
    /\ UNCHANGED <<backend, ruleVars, kills>>

\* The process ends; the lock goes with it, or stays with the sleeping revert.
End(p, how) ==
    /\ job' = [job EXCEPT ![p] = "none"]
    /\ at' = [at EXCEPT ![p] = 1]
    /\ ended' = Noted(p, how)
    /\ IF how = "ok" /\ job[p] = "on" /\ revert = "asked"
       THEN revert' = "sleeping" /\ lock' = Revert
       ELSE /\ lock' = IF lock = p THEN Nobody ELSE lock
            /\ revert' = IF job[p] = "on" /\ revert = "asked" THEN "none" ELSE revert

Step(p) ==
    /\ ~Idle(p)
    /\ LET s == Script(job[p]) IN
       \/ /\ at[p] <= Len(s) /\ ~Refused(s[at[p]])
          /\ Perform(s[at[p]])
          /\ at' = [at EXCEPT ![p] = @ + 1]
          /\ UNCHANGED <<lock, job, ended, revert>>
       \/ /\ at[p] <= Len(s) /\ Refused(s[at[p]])
          /\ End(p, "failed")
          /\ UNCHANGED ruleVars
       \/ /\ at[p] > Len(s)
          /\ End(p, "ok")
          /\ UNCHANGED ruleVars
    /\ UNCHANGED <<backend, kills>>

\* It is interrupted, or killed by the timeout of whoever runs it.
Die(p) ==
    /\ ~Idle(p) /\ kills < MaxKills
    /\ kills' = kills + 1
    /\ End(p, "failed")
    /\ UNCHANGED <<backend, ruleVars>>

\* The time is over: the process becomes "kill_switch.sh off", which opens the
\* lock file anew and so lets go of the lock it inherited.
\* Slip: it goes on with the descriptor it inherited.
RevertWakesLocked ==
    /\ revert = "sleeping"
    /\ revert' = "due"
    /\ UNCHANGED <<lock, backend, ruleVars, job, at, ended, kills>>
RevertWakes ==
    /\ revert = "sleeping"
    /\ revert' = "due"
    /\ lock' = Nobody
    /\ UNCHANGED <<backend, ruleVars, job, at, ended, kills>>

RevertBegins ==
    /\ revert = "due"
    /\ Begin(Revert, "off")
    /\ revert' = "none"

=============================================================================
