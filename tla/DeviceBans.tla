----------------------------- MODULE DeviceBans -----------------------------
(***************************************************************************)
(* core/device_dna_guard.py: banned devices, kept in memory and in a JSON  *)
(* file that a restart reads again.                                        *)
(*                                                                         *)
(* Concurrency.  ban() and unban() change the memory, take a snapshot of   *)
(* it and save it: they await the store's lock, which serves in order of   *)
(* arrival, and then a thread that replaces the file.  Other calls and     *)
(* checks go on meanwhile, and the process may die anywhere.               *)
(*                                                                         *)
(* Abstractions.  A device is its stable_id; devices related to it have a  *)
(* strong component in common, which is what _index finds.  A snapshot is  *)
(* the ban of each device, and its copies expire together.  The temporary  *)
(* file is whole or of no effect, as os.replace() is atomic.  No call is   *)
(* cancelled while it waits or its thread writes, and no save raises.      *)
(***************************************************************************)
EXTENDS Naturals, Sequences, SequencesExt

CONSTANTS
    Devices,
    Related,        \* devices with a strong component in common with each
    MaxChanges,     \* bound: calls of ban() and unban()
    MaxDeaths       \* bound: restarts

VARIABLES
    bans,       \* _bans
    file,       \* the bans in the file
    saves,      \* calls that have the store's lock, or wait for it
    replaced,   \* the first of them has replaced the file
    promise,    \* history: what a call that returned has promised of each device
    changes, deaths     \* bounds

banVars == <<bans, file, saves, replaced, promise, changes, deaths>>

Entry == {"none", "permanent", "temporary", "expired"}
Bans == [Devices -> Entry]

TypeOK ==
    /\ bans \in Bans /\ file \in Bans
    /\ saves \in Seq([device : Devices, done : {"banned", "free"}, entries : Bans])
    /\ replaced \in BOOLEAN
    /\ promise \in [Devices -> {"nothing", "banned", "free"}]
    /\ changes \in 0..MaxChanges /\ deaths \in 0..MaxDeaths

Init ==
    /\ bans = [d \in Devices |-> "none"]
    /\ file = bans
    /\ saves = <<>> /\ replaced = FALSE
    /\ promise = [d \in Devices |-> "nothing"]
    /\ changes = 0 /\ deaths = 0

Active(d) == bans[d] \in {"permanent", "temporary"}

-----------------------------------------------------------------------------
\* The snapshot is taken before the lock is awaited.
save(d, done, entries) ==
    /\ changes < MaxChanges
    /\ changes' = changes + 1
    /\ bans' = entries
    /\ saves' = Append(saves, [device |-> d, done |-> done, entries |-> entries])
    /\ promise' = [promise EXCEPT ![d] = "nothing"]
    /\ UNCHANGED <<file, replaced, deaths>>

\* Without a ttl, or with a ttl of 0, the ban is permanent.
ban(d, ttl) == save(d, "banned", [bans EXCEPT ![d] = IF ttl = 0 THEN "permanent" ELSE "temporary"])

unban(d) == bans[d] # "none" /\ save(d, "free", [bans EXCEPT ![d] = "none"])

\* The thread of the call that has the lock replaces the file.
\* Slip: without the lock, the threads run in any order.
ReplaceUnlocked ==
    \E i \in DOMAIN saves :
        /\ ~replaced
        /\ file' = saves[i].entries
        /\ saves' = <<saves[i]>> \o RemoveAt(saves, i)
        /\ replaced' = TRUE
        /\ UNCHANGED <<bans, promise, changes, deaths>>
Replace ==
    /\ saves # <<>> /\ ~replaced
    /\ file' = Head(saves).entries
    /\ replaced' = TRUE
    /\ UNCHANGED <<bans, saves, promise, changes, deaths>>

\* The call gives the lock to the next one and returns.  It can promise what it did
\* unless the ban has expired, or another call on the device begun, since.
Return ==
    /\ replaced
    /\ LET d == Head(saves).device
           over == \/ Head(saves).done = "banned" /\ ~Active(d)
                   \/ \E i \in DOMAIN Tail(saves) : Tail(saves)[i].device = d
       IN promise' = IF over THEN promise ELSE [promise EXCEPT ![d] = Head(saves).done]
    /\ saves' = Tail(saves)
    /\ replaced' = FALSE
    /\ UNCHANGED <<bans, file, changes, deaths>>

\* check() drops bans of related devices that have expired, from the memory only; a
\* match ends it before it has seen them all.
check(d) ==
    /\ ~Active(d)
    /\ \E expired \in SUBSET {e \in Related[d] : bans[e] = "expired"} \ {{}} :
         bans' = [e \in Devices |-> IF e \in expired THEN "none" ELSE bans[e]]
    /\ UNCHANGED <<file, saves, replaced, promise, changes, deaths>>

Expire(d) ==
    LET Aged(entries) == [entries EXCEPT ![d] = IF @ = "temporary" THEN "expired" ELSE @]
    IN /\ "temporary" \in {bans[d], file[d]}
       /\ bans' = Aged(bans) /\ file' = Aged(file)
       /\ saves' = [i \in DOMAIN saves |-> [saves[i] EXCEPT !.entries = Aged(@)]]
       /\ promise' = [promise EXCEPT ![d] = IF @ = "banned" THEN "nothing" ELSE @]
       /\ UNCHANGED <<replaced, changes, deaths>>

\* The process dies, and the next one load()s the file before it serves.
Restart ==
    /\ deaths < MaxDeaths
    /\ deaths' = deaths + 1
    /\ bans' = file
    /\ saves' = <<>> /\ replaced' = FALSE
    /\ UNCHANGED <<file, promise, changes>>

Next ==
    \/ \E d \in Devices :
        \/ \E ttl \in {0, 1} : ban(d, ttl)
        \/ unban(d) \/ check(d) \/ Expire(d)
    \/ Replace \/ Return \/ Restart

Spec == Init /\ [][Next]_banVars

-----------------------------------------------------------------------------
\* What a call has promised survives: a device stays banned until the ban expires
\* and free until it is banned again, through saves of other calls that were under
\* way at the same time and through restarts.
PromisesKept ==
    \A d \in Devices :
        /\ promise[d] = "banned" => Active(d) /\ file[d] # "none"
        /\ promise[d] = "free" => bans[d] = "none" /\ file[d] = "none"

=============================================================================
