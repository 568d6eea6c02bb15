-------------------------- MODULE ReconnectProofs ---------------------------
(***************************************************************************)
(* What TLAPS proves of the kill switch and its watchdog, for any address  *)
(* families, hooks, number of passes and bounds.                           *)
(***************************************************************************)
EXTENDS Reconnect, SequenceTheorems, FiniteSetTheorems, TLAPS

-----------------------------------------------------------------------------
(* Where the k-th call of a script stands: in which family, at which step.  *)

LEMMA Divided ==
    ASSUME NEW n \in Nat \ {0}, NEW F \in Nat, NEW k \in 1..(F * n)
    PROVE  /\ ((k - 1) \div n) + 1 \in 1..F /\ ((k - 1) % n) + 1 \in 1..n
           /\ k = ((k - 1) \div n) * n + ((k - 1) % n) + 1
<1> DEFINE q == (k - 1) \div n
           r == (k - 1) % n
<1>1. q \in Int /\ r \in 0..(n - 1) /\ k - 1 = n * q + r
  OBVIOUS
<1>2. F * n \in Nat /\ k - 1 < F * n /\ k - 1 >= 0 /\ k - 1 \in Int
  OBVIOUS
<1> HIDE DEF q, r
<1>3. q < F
  <2> SUFFICES ASSUME q >= F PROVE FALSE
    BY <1>1
  <2>1. n * q >= n * F
    BY <1>1
  <2>2. n * F = F * n
    OBVIOUS
  <2> QED
    BY <1>1, <1>2, <2>1, <2>2
<1>4. q >= 0
  <2> SUFFICES ASSUME q <= -1 PROVE FALSE
    BY <1>1
  <2>1. n * q <= n * (-1)
    BY <1>1
  <2> QED
    BY <1>1, <1>2, <2>1
<1>5. n * q = q * n
  BY <1>1
<1> QED
  BY <1>1, <1>2, <1>3, <1>4, <1>5 DEF q, r

LEMMA Placed ==
    ASSUME NEW n \in Nat \ {0}, NEW F \in Nat, NEW f \in 1..F, NEW h \in 1..n
    PROVE  /\ (f - 1) * n + h \in 1..(F * n)
           /\ (((f - 1) * n + h) - 1) \div n = f - 1
           /\ (((f - 1) * n + h) - 1) % n = h - 1
<1> DEFINE k == (f - 1) * n + h
           q == (k - 1) \div n
           r == (k - 1) % n
<1>0. (f - 1) * n \in Nat /\ k \in Int /\ k - 1 \in Nat /\ F * n \in Nat
  OBVIOUS
<1>1. q \in Int /\ r \in 0..(n - 1) /\ k - 1 = n * q + r
  BY <1>0
<1>2. k <= F * n
  <2>1. (f - 1) * n + n = f * n
    OBVIOUS
  <2>2. f * n <= F * n
    OBVIOUS
  <2> QED
    BY <1>0, <2>1, <2>2
<1>a. k - 1 = n * (f - 1) + (h - 1)
  OBVIOUS
<1> DEFINE a == f - 1
<1>b. a \in Int /\ n * a \in Int /\ n * q \in Int
  BY <1>1
<1>3. q = a
  <2> HIDE DEF q, r, k, a
  <2>0. k - 1 = n * a + (h - 1)
    BY <1>a DEF a
  <2>1. ASSUME q >= a + 1 PROVE FALSE
    <3>1. n * q >= n * (a + 1)
      BY <1>1, <1>b, <2>1
    <3>2. n * (a + 1) = n * a + n
      BY <1>b
    <3> QED
      BY <1>1, <1>b, <2>0, <3>1, <3>2
  <2>2. ASSUME q + 1 <= a PROVE FALSE
    <3>1. n * (q + 1) <= n * a
      BY <1>1, <1>b, <2>2
    <3>2. n * (q + 1) = n * q + n
      BY <1>1
    <3> QED
      BY <1>1, <1>b, <2>0, <3>1, <3>2
  <2> QED
    BY <1>1, <1>b, <2>1, <2>2
<1>4. r = h - 1
  <2> HIDE DEF q, r
  <2> QED
  BY <1>1, <1>3, <1>a
<1> QED
  BY <1>0, <1>2, <1>3, <1>4
-----------------------------------------------------------------------------
(* The scripts.                                                             *)

Calls == [op : STRING, fam : STRING, hook : STRING]
PartOf(c) == <<c.fam, c.hook>>

LEMMA CallFields ==
    \A op, fam, hook : LET c == Call(op, fam, hook) IN c.op = op /\ c.fam = fam /\ c.hook = hook
BY DEF Call

LEMMA Lengths ==
    /\ Families \in Seq(STRING) /\ Len(Families) \in Nat \ {0} /\ DOMAIN Families = 1..Len(Families)
    /\ Hooks \in Seq(STRING) /\ Len(Hooks) \in Nat \ {0} /\ DOMAIN Hooks = 1..Len(Hooks)
BY KillSwitchAssumption

\* A script is a sequence of as many calls as its families times its steps.
LEMMA ScriptLength ==
    ASSUME NEW n \in Nat, NEW s, DOMAIN s = 1..(Len(Families) * n),
           s = [k \in 1..(Len(Families) * n) |-> s[k]]
    PROVE  Len(s) = Len(Families) * n
<1>1. Len(Families) * n \in Nat
  BY Lengths
<1> QED
  BY <1>1

\* "on" restores the chains of a family before it jumps to them, and jumps from
\* every hook.
LEMMA OnScript ==
    /\ DOMAIN ipt_on = 1..Len(ipt_on) /\ Len(ipt_on) \in Nat
    /\ \A k \in 1..Len(ipt_on) :
         /\ ipt_on[k].op \in {"restore", "jump"}
         /\ ipt_on[k].op = "jump" =>
              /\ PartOf(ipt_on[k]) \in Parts
              /\ \E j \in 1..(k - 1) : ipt_on[j].op = "restore" /\ ipt_on[j].fam = ipt_on[k].fam
    /\ \A q \in Parts : \E k \in 1..Len(ipt_on) : ipt_on[k].op = "jump" /\ PartOf(ipt_on[k]) = q
<1> DEFINE n == Len(Hooks) + 1
           F == Len(Families)
           fam(k) == Families[((k - 1) \div n) + 1]
           r(k) == ((k - 1) % n) + 1
<1>0. n \in Nat \ {0} /\ F \in Nat \ {0} /\ F * n \in Nat
  BY Lengths
<1>1. DOMAIN ipt_on = 1..(F * n) /\ ipt_on = [k \in 1..(F * n) |-> ipt_on[k]]
  BY DEF ipt_on, PerFamily
<1>b. \A k \in 1..(F * n) :
           ipt_on[k] = IF r(k) = 1 THEN Call("restore", fam(k), "all") ELSE Call("jump", fam(k), Hooks[r(k) - 1])
  BY DEF ipt_on, PerFamily
<1>2. Len(ipt_on) = F * n
  BY <1>0, <1>1, ScriptLength
<1> HIDE DEF n, F
<1>3. ASSUME NEW k \in 1..(F * n)
      PROVE  /\ ((k - 1) \div n) + 1 \in 1..F /\ r(k) \in 1..n
             /\ k = ((k - 1) \div n) * n + r(k)
  BY <1>0, Divided
<1>4. ASSUME NEW k \in 1..(F * n), r(k) # 1
      PROVE  /\ ipt_on[k].op = "jump" /\ ipt_on[k].fam = fam(k) /\ ipt_on[k].hook = Hooks[r(k) - 1]
             /\ PartOf(ipt_on[k]) \in Parts
             /\ \E j \in 1..(k - 1) : ipt_on[j].op = "restore" /\ ipt_on[j].fam = fam(k)
  <2> DEFINE d == (k - 1) \div n
             j == d * n + 1
  <2>1. d + 1 \in 1..F /\ r(k) \in 1..n /\ k = d * n + r(k) /\ d \in Nat /\ d * n \in Nat
    BY <1>0, <1>3
  <2>2. ipt_on[k].op = "jump" /\ ipt_on[k].fam = fam(k) /\ ipt_on[k].hook = Hooks[r(k) - 1]
    <3>1. ipt_on[k] = Call("jump", fam(k), Hooks[r(k) - 1])
      BY <1>4, <1>b
    <3> QED
      BY <3>1 DEF Call
  <2>3. r(k) - 1 \in DOMAIN Hooks /\ d + 1 \in DOMAIN Families
    BY <1>4, <2>1, Lengths DEF n, F
  <2>4. PartOf(ipt_on[k]) \in Parts
    BY <2>2, <2>3 DEF PartOf, Parts
  <2>5. j \in 1..(k - 1) /\ j \in 1..(F * n)
    BY <1>0, <1>4, <2>1
  <2>6. (j - 1) \div n = d /\ (j - 1) % n = 0
    <3>1. ((((d + 1) - 1) * n + 1) - 1) \div n = (d + 1) - 1 /\ ((((d + 1) - 1) * n + 1) - 1) % n = 1 - 1
      BY <1>0, <2>1, Placed
    <3>2. (d + 1) - 1 = d
      BY <2>1
    <3> QED
      BY <3>1, <3>2
  <2>7. ipt_on[j].op = "restore" /\ ipt_on[j].fam = fam(k)
    <3>1. j \in 1..(F * n) /\ ((j - 1) % n) + 1 = 1 /\ Families[((j - 1) \div n) + 1] = fam(k)
      BY <2>5, <2>6
    <3>2. ipt_on[j] = Call("restore", fam(k), "all")
      BY <1>b, <3>1
    <3> QED
      BY <3>2, CallFields
  <2> QED
    BY <2>2, <2>4, <2>5, <2>7
<1>5. ASSUME NEW k \in 1..(F * n), r(k) = 1 PROVE ipt_on[k].op = "restore"
  <2>1. ipt_on[k] = Call("restore", fam(k), "all")
    BY <1>5, <1>b
  <2> QED
    BY <2>1, CallFields
<1>6. ASSUME NEW q \in Parts
      PROVE  \E k \in 1..(F * n) : ipt_on[k].op = "jump" /\ PartOf(ipt_on[k]) = q
  <2>1. PICK f \in 1..F, h \in 1..Len(Hooks) : q = <<Families[f], Hooks[h]>>
    BY Lengths DEF Parts, F
  <2> DEFINE k == (f - 1) * n + (h + 1)
  <2>2. h + 1 \in 1..n
    BY Lengths DEF n
  <2>3. k \in 1..(F * n) /\ (k - 1) \div n = f - 1 /\ (k - 1) % n = (h + 1) - 1
    BY <1>0, <2>2, Placed
  <2>4. r(k) = h + 1 /\ ((k - 1) \div n) + 1 = f /\ r(k) # 1 /\ r(k) - 1 = h
    BY <2>2, <2>3
  <2>5. ipt_on[k].op = "jump" /\ ipt_on[k].fam = Families[f] /\ ipt_on[k].hook = Hooks[h]
    BY <1>4, <2>3, <2>4
  <2> QED
    BY <2>1, <2>3, <2>5 DEF PartOf
<1>7. ASSUME NEW k \in 1..(F * n)
      PROVE  /\ ipt_on[k].op \in {"restore", "jump"}
             /\ ipt_on[k].op = "jump" =>
                  /\ PartOf(ipt_on[k]) \in Parts
                  /\ \E j \in 1..(k - 1) : ipt_on[j].op = "restore" /\ ipt_on[j].fam = ipt_on[k].fam
  <2>1. CASE r(k) = 1
    BY <1>5, <2>1
  <2>2. CASE r(k) # 1
    BY <1>4, <2>2
  <2> QED
    BY <2>1, <2>2
<1> DEFINE N == F * n
<1>8. N \in Nat /\ Len(ipt_on) = N /\ DOMAIN ipt_on = 1..N
  BY <1>0, <1>1, <1>2
<1>9. \A q \in Parts : \E k \in 1..N : ipt_on[k].op = "jump" /\ PartOf(ipt_on[k]) = q
  BY <1>6
<1>10. \A k \in 1..N :
         /\ ipt_on[k].op \in {"restore", "jump"}
         /\ ipt_on[k].op = "jump" =>
              /\ PartOf(ipt_on[k]) \in Parts
              /\ \E j \in 1..(k - 1) : ipt_on[j].op = "restore" /\ ipt_on[j].fam = ipt_on[k].fam
  BY <1>7
<1> HIDE DEF N
<1> QED
  BY <1>8, <1>9, <1>10

\* "off" takes the jump of every hook away and sets none.
LEMMA OffScript ==
    /\ DOMAIN ipt_off = 1..Len(ipt_off) /\ Len(ipt_off) \in Nat
    /\ \A k \in 1..Len(ipt_off) : ipt_off[k].op \in {"unjump", "flush", "delete"}
    /\ \A q \in Parts : \E k \in 1..Len(ipt_off) : ipt_off[k].op = "unjump" /\ PartOf(ipt_off[k]) = q
<1> DEFINE n == 3 * Len(Hooks)
           F == Len(Families)
           fam(k) == Families[((k - 1) \div n) + 1]
           r(k) == ((k - 1) % n) + 1
<1>0. n \in Nat \ {0} /\ F \in Nat \ {0} /\ F * n \in Nat
  BY Lengths
<1>1. /\ DOMAIN ipt_off = 1..(F * n) /\ ipt_off = [k \in 1..(F * n) |-> ipt_off[k]]
      /\ \A k \in 1..(F * n) :
           ipt_off[k] = IF r(k) <= Len(Hooks) THEN Call("unjump", fam(k), Hooks[r(k)])
                        ELSE HookByHook(<<"flush", "delete">>, fam(k), r(k) - Len(Hooks))
  BY DEF ipt_off, PerFamily
<1>2. Len(ipt_off) = F * n
  BY <1>0, <1>1, ScriptLength
<1>a. Len(Hooks) <= n
  BY Lengths
<1> HIDE DEF n, F
<1>3. ASSUME NEW k \in 1..(F * n) PROVE ipt_off[k].op \in {"unjump", "flush", "delete"}
  <2>1. r(k) \in 1..n
    BY <1>0, Divided
  <2>2. CASE r(k) <= Len(Hooks)
    BY <1>1, <2>2 DEF Call
  <2>3. CASE ~(r(k) <= Len(Hooks))
    <3> DEFINE m == r(k) - Len(Hooks)
    <3>1. m \in Nat \ {0}
      <4>1. r(k) \in Nat /\ Len(Hooks) \in Nat /\ r(k) > Len(Hooks)
        BY <1>0, <2>1, <2>3, Lengths
      <4> HIDE DEF r
      <4> QED
        BY <4>1
    <3>2. (m - 1) % 2 \in {0, 1}
      BY <3>1
    <3>3. ipt_off[k] = Call(<<"flush", "delete">>[((m - 1) % 2) + 1], fam(k), Hooks[((m - 1) \div 2) + 1])
      BY <1>1, <2>3 DEF HookByHook
    <3> HIDE DEF m
    <3> QED
      BY <3>2, <3>3 DEF Call
  <2> QED
    BY <2>2, <2>3
<1>4. ASSUME NEW q \in Parts
      PROVE  \E k \in 1..(F * n) : ipt_off[k].op = "unjump" /\ PartOf(ipt_off[k]) = q
  <2>1. PICK f \in 1..F, h \in 1..Len(Hooks) : q = <<Families[f], Hooks[h]>>
    BY Lengths DEF Parts, F
  <2> DEFINE k == (f - 1) * n + h
  <2>2. h \in 1..n
    BY <1>0, <1>a, Lengths
  <2>3. k \in 1..(F * n) /\ (k - 1) \div n = f - 1 /\ (k - 1) % n = h - 1
    <3>1. n \in Nat \ {0} /\ F \in Nat /\ f \in 1..F /\ h \in 1..n
      BY <1>0, <2>2
    <3> HIDE <1>0, <1>1, <1>2, <1>3, <1>a, <2>1, <2>2
    <3> QED
      BY <3>1, Placed
  <2>4. r(k) = h /\ ((k - 1) \div n) + 1 = f
    BY <2>2, <2>3
  <2>5. ipt_off[k] = Call("unjump", Families[f], Hooks[h])
    BY <1>1, <2>3, <2>4
  <2> QED
    BY <2>1, <2>3, <2>5 DEF PartOf, Call
<1> QED
  BY <1>0, <1>1, <1>2, <1>3, <1>4

\* direct_unblock() sets no jump either.
LEMMA CleanupScript ==
    Len(direct_unblock) \in Nat /\ \A k \in 1..Len(direct_unblock) : direct_unblock[k].op # "jump"
<1> DEFINE n == 3 * Len(Hooks)
           N == Len(Families) * n
           s == PerFamily(n, LAMBDA fam, k : HookByHook(<<"unjump", "flush", "delete">>, fam, k))
           unload == Call("unload", "all", "all")
<1>0. n \in Nat \ {0} /\ N \in Nat
  BY Lengths
<1>1. /\ s = [k \in 1..N |-> HookByHook(<<"unjump", "flush", "delete">>,
                                        Families[((k - 1) \div n) + 1], ((k - 1) % n) + 1)]
  BY DEF PerFamily
<1>2. ASSUME NEW k \in 1..N PROVE s[k].op # "jump"
  <2> DEFINE m == ((k - 1) % n) + 1
  <2>1. m \in 1..n
    BY <1>0, Divided, Lengths
  <2>2. (m - 1) % 3 \in {0, 1, 2}
    BY <1>0, <2>1
  <2>3. s[k] = Call(<<"unjump", "flush", "delete">>[((m - 1) % 3) + 1],
                    Families[((k - 1) \div n) + 1], Hooks[((m - 1) \div 3) + 1])
    BY <1>1 DEF HookByHook
  <2> HIDE DEF m, s
  <2> QED
    BY <2>2, <2>3 DEF Call
<1>3. Len(s) = N /\ s = [k \in 1..N |-> s[k]]
  <2>1. DOMAIN s = 1..N /\ s = [k \in 1..N |-> s[k]]
    BY <1>1
  <2> HIDE DEF s
  <2> QED
    BY <1>0, <2>1
<1>4. direct_unblock = <<unload>> \o s
  BY DEF direct_unblock
<1> DEFINE T == {unload} \cup {s[k] : k \in 1..N}
<1>5. unload \in T /\ s \in [1..N -> T]
  <2> HIDE DEF s, N, unload
  <2> QED
    BY <1>3
<1>6. <<unload>> \in Seq(T) /\ s \in Seq(T)
  <2> HIDE DEF s, N, unload, T
  <2> QED
    BY <1>0, <1>5, SeqDef
<1>7. /\ Len(direct_unblock) = 1 + N
      /\ \A k \in 1..(1 + N) : direct_unblock[k] = IF k <= 1 THEN unload ELSE s[k - 1]
  <2> HIDE DEF s, N, unload, T
  <2>1. Len(<<unload>>) = 1 /\ <<unload>>[1] = unload
    OBVIOUS
  <2>2. /\ Len(<<unload>> \o s) = Len(<<unload>>) + Len(s)
        /\ \A k \in 1..(Len(<<unload>>) + Len(s)) :
             (<<unload>> \o s)[k] = IF k <= Len(<<unload>>) THEN <<unload>>[k] ELSE s[k - Len(<<unload>>)]
    BY <1>6, ConcatProperties
  <2>3. \A k \in 1..(1 + N) : k <= 1 => k = 1
    BY <1>0
  <2> QED
    BY <1>3, <1>4, <2>1, <2>2, <2>3
<1>8. unload.op = "unload"
  BY DEF Call
<1> HIDE DEF s, N, unload, T
<1>9. \A k \in 1..Len(direct_unblock) : direct_unblock[k].op # "jump"
  <2> TAKE k \in 1..Len(direct_unblock)
  <2>1. k \in 1..(1 + N)
    BY <1>7
  <2>2. CASE k = 1
    BY <1>7, <1>8, <2>1, <2>2
  <2>3. CASE k # 1
    <3>1. k - 1 \in 1..N /\ direct_unblock[k] = s[k - 1]
      BY <1>0, <1>7, <2>1, <2>3
    <3> QED
      BY <1>2, <3>1
  <2> QED
    BY <2>2, <2>3
<1> QED
  BY <1>0, <1>7, <1>9

LEMMA NftScripts ==
    /\ Len(nft_on) = 1 /\ nft_on[1] = Call("load", "all", "all")
    /\ Len(nft_off) = 1 /\ nft_off[1] = Call("unload", "all", "all")
BY DEF nft_on, nft_off

-----------------------------------------------------------------------------
(* Types.                                                                   *)

LEMMA ProcsOK == Watchdog \in Procs /\ Operator \in Procs /\ Revert \in Procs
                 /\ Revert # Watchdog /\ Revert # Operator /\ Nobody \notin Procs
BY ReconnectAssumption, KillSwitchAssumption

\* The calls of every script that set a jump set it from a hook of a family.
LEMMA ScriptJumps ==
    ASSUME KsTypeOK, NEW j \in {"on", "off", "cleanup"}, NEW k \in 1..Len(Script(j)),
           Script(j)[k].op = "jump"
    PROVE  PartOf(Script(j)[k]) \in Parts
<1>1. CASE j = "cleanup"
  <2>1. Script(j) = direct_unblock
    BY <1>1 DEF Script
  <2> QED
    BY <2>1, CleanupScript
<1>2. CASE backend = "nft" /\ j # "cleanup"
  <2>1. Script(j) \in {nft_on, nft_off}
    BY <1>2 DEF Script
  <2>2. Script(j)[1].op # "jump" /\ k = 1
    BY <2>1, NftScripts DEF Call
  <2> QED
    BY <2>2
<1>3. CASE backend # "nft" /\ j = "on"
  <2>1. Script(j) = ipt_on
    BY <1>3 DEF Script
  <2> QED
    BY <2>1, OnScript
<1>4. CASE backend # "nft" /\ j = "off"
  <2>1. Script(j) = ipt_off
    BY <1>4 DEF Script
  <2>2. ipt_off[k].op \in {"unjump", "flush", "delete"}
    BY <2>1, OffScript
  <2> QED
    BY <2>1, <2>2
<1> QED
  BY <1>1, <1>2, <1>3, <1>4

LEMMA PerformType ==
    ASSUME KsTypeOK, NEW c, Perform(c), c.op = "jump" => PartOf(c) \in Parts
    PROVE  /\ table' \in BOOLEAN /\ chain' \in [Parts -> {"absent", "empty", "drop"}]
           /\ jump' \in SUBSET Parts
<1>0. table \in BOOLEAN /\ chain \in [Parts -> {"absent", "empty", "drop"}] /\ jump \in SUBSET Parts
  BY DEF KsTypeOK
<1> DEFINE p == PartOf(c)
<1>1. CASE c.op \in {"load", "unload"}
  BY <1>0, <1>1 DEF Perform
<1>2. CASE c.op = "restore"
  <2>1. chain' = [q \in Parts |-> IF q[1] = c.fam THEN "drop" ELSE chain[q]] /\ UNCHANGED <<table, jump>>
    BY <1>2 DEF Perform
  <2> QED
    BY <1>0, <2>1
<1>3. CASE c.op \in {"jump", "unjump"}
  BY <1>0, <1>3 DEF Perform, PartOf
<1>4. CASE c.op = "flush"
  <2>1. chain' = [chain EXCEPT ![p] = IF @ = "absent" THEN @ ELSE "empty"] /\ UNCHANGED <<table, jump>>
    BY <1>4 DEF Perform, PartOf
  <2> HIDE DEF p
  <2> QED
    BY <1>0, <2>1
<1>5. CASE c.op = "delete"
  <2>1. chain' = [chain EXCEPT ![p] = IF @ = "empty" /\ p \notin jump THEN "absent" ELSE @]
        /\ UNCHANGED <<table, jump>>
    BY <1>5 DEF Perform, PartOf
  <2> HIDE DEF p
  <2> QED
    BY <1>0, <2>1
<1> QED
  BY <1>1, <1>2, <1>3, <1>4, <1>5 DEF Perform

LEMMA NotedType ==
    ASSUME KsTypeOK, NEW p, NEW how \in {"ok", "failed"}
    PROVE  Noted(p, how) \in [Awaited -> {"ok", "failed"}]
BY DEF KsTypeOK, Noted

LEMMA BeginType ==
    ASSUME KsTypeOK, NEW p \in Procs, NEW j \in {"on", "off"}, Begin(p, j),
           revert' \in {"none", "asked", "sleeping", "due"}
    PROVE  KsTypeOK'
<1>0. UNCHANGED <<backend, ruleVars, kills>>
  BY DEF Begin
<1>1. CASE lock = Nobody
  <2>1. /\ lock' = p /\ job' = [job EXCEPT ![p] = j] /\ at' = [at EXCEPT ![p] = 1] /\ UNCHANGED ended
    BY <1>1 DEF Begin
  <2> QED
    BY <1>0, <2>1 DEF KsTypeOK, ruleVars
<1>2. CASE lock # Nobody
  <2>1. ended' = Noted(p, "failed") /\ UNCHANGED <<lock, job, at>>
    BY <1>2 DEF Begin
  <2> QED
    BY <1>0, <2>1, NotedType DEF KsTypeOK, ruleVars
<1> QED
  BY <1>1, <1>2

LEMMA EndType ==
    ASSUME KsTypeOK, NEW p \in Procs, NEW how \in {"ok", "failed"}, End(p, how),
           UNCHANGED <<backend, ruleVars>>, kills' \in 0..MaxKills
    PROVE  KsTypeOK'
<1>1. /\ job' = [job EXCEPT ![p] = "none"] /\ at' = [at EXCEPT ![p] = 1]
      /\ ended' = Noted(p, how)
      /\ lock' \in {Nobody, lock, Revert} /\ revert' \in {"sleeping", "none", revert}
  BY DEF End
<1> QED
  BY <1>1, NotedType, ProcsOK DEF KsTypeOK, ruleVars

LEMMA StepType == ASSUME KsTypeOK, NEW p \in Procs, Step(p) PROVE KsTypeOK'
<1> DEFINE s == Script(job[p])
           c == s[at[p]]
<1>0. /\ job[p] \in {"on", "off", "cleanup"} /\ at[p] \in Nat \ {0} /\ UNCHANGED <<backend, kills>>
  BY DEF KsTypeOK, Step, Idle
<1>1. CASE at[p] <= Len(s) /\ ~Refused(c) /\ Perform(c) /\ at' = [at EXCEPT ![p] = @ + 1]
           /\ UNCHANGED <<lock, job, ended, revert>>
  <2>1. c.op = "jump" => PartOf(c) \in Parts
    <3>1. Len(s) \in Nat => at[p] \in 1..Len(s)
      BY <1>0, <1>1
    <3>2. Len(s) \in Nat
      <4>1. s \in {direct_unblock, nft_on, nft_off, ipt_on, ipt_off}
        BY <1>0 DEF Script
      <4> QED
        BY <4>1, CleanupScript, OnScript, OffScript, NftScripts
    <3> QED
      BY <1>0, <3>1, <3>2, ScriptJumps
  <2>2. /\ table' \in BOOLEAN /\ chain' \in [Parts -> {"absent", "empty", "drop"}] /\ jump' \in SUBSET Parts
    BY <1>1, <2>1, PerformType
  <2>3. at' \in [Procs -> Nat \ {0}]
    BY <1>0, <1>1 DEF KsTypeOK
  <2> QED
    BY <1>0, <1>1, <2>2, <2>3 DEF KsTypeOK
<1>2. ASSUME NEW how \in {"ok", "failed"}, End(p, how), UNCHANGED ruleVars PROVE KsTypeOK'
  BY <1>0, <1>2, EndType DEF KsTypeOK
<1> QED
  BY <1>1, <1>2 DEF Step

-----------------------------------------------------------------------------
(* Every step keeps the types.                                              *)

\* Steps that leave the kill switch alone.
Aside ==
    \/ Isolated \/ HoldGate \/ RateGate \/ CheckPass \/ Record \/ CleanupEnds \/ Lifted
    \/ Verify \/ Recheck \/ OnEnds \/ OldestExpires \/ World

LEMMA AsideKs == Aside => UNCHANGED ksVars
BY DEF Aside, Isolated, HoldGate, RateGate, CheckPass, Record, CleanupEnds, Lifted, Verify,
   Recheck, OnEnds, OldestExpires, World

LEMMA KsUnchanged == KsTypeOK /\ UNCHANGED ksVars => KsTypeOK'
BY DEF KsTypeOK, ksVars

LEMMA OffEndsKs == ASSUME KsTypeOK, OffEnds PROVE KsTypeOK'
<1>0. UNCHANGED <<backend, ruleVars, lock, revert, kills>>
  BY DEF OffEnds
<1>1. CASE UNCHANGED <<job, at, ended>>
  BY <1>0, <1>1 DEF KsTypeOK, ruleVars
<1>2. CASE /\ job' = [job EXCEPT ![Watchdog] = "cleanup"] /\ at' = [at EXCEPT ![Watchdog] = 1]
           /\ ended' = Noted(Watchdog, "ok")
  <2>1. ended' \in [Awaited -> {"ok", "failed"}]
    BY <1>2, NotedType
  <2>2. job' \in [Procs -> {"none", "on", "off", "cleanup"}]
    <3>1. job \in [Procs -> {"none", "on", "off", "cleanup"}] /\ job' = [job EXCEPT ![Watchdog] = "cleanup"]
      BY <1>2 DEF KsTypeOK
    <3> QED
      BY <3>1
  <2>3. at' \in [Procs -> Nat \ {0}]
    <3>1. at \in [Procs -> Nat \ {0}] /\ at' = [at EXCEPT ![Watchdog] = 1]
      BY <1>2 DEF KsTypeOK
    <3>2. \A p \in Procs : at'[p] \in Nat \ {0}
      BY <3>1
    <3> QED
      BY <3>1, <3>2
  <2> QED
    BY <1>0, <2>1, <2>2, <2>3 DEF KsTypeOK, ruleVars
<1> QED
  BY <1>1, <1>2 DEF OffEnds

LEMMA NextKs == ASSUME TypeOK, [Next]_vars PROVE KsTypeOK'
<1>0. KsTypeOK
  BY DEF TypeOK
<1>1. CASE Aside \/ UNCHANGED vars
  <2>1. UNCHANGED ksVars
    BY <1>1, AsideKs DEF vars, ksVars
  <2> QED
    BY <1>0, <2>1, KsUnchanged
<1>2. CASE RunOff \/ RunOn
  <2>1. revert' = revert /\ \E j \in {"on", "off"} : Begin(Watchdog, j)
    BY <1>2 DEF RunOff, RunOn
  <2>2. revert' \in {"none", "asked", "sleeping", "due"}
    BY <1>0, <2>1 DEF KsTypeOK
  <2> QED
    BY <1>0, <2>1, <2>2, ProcsOK, BeginType
<1>3. ASSUME NEW j \in {"on", "off"}, Command(j) PROVE KsTypeOK'
  <2>1. Begin(Operator, j) /\ revert' \in {revert, "asked"}
    BY <1>3 DEF Command
  <2>2. revert' \in {"none", "asked", "sleeping", "due"}
    BY <1>0, <2>1 DEF KsTypeOK
  <2> QED
    BY <1>0, <2>1, <2>2, ProcsOK, BeginType
<1>4. ASSUME NEW p \in Procs, Runs(p) \/ Killed(p) PROVE KsTypeOK'
  <2>1. CASE Runs(p)
    BY <1>0, <2>1, StepType DEF Runs
  <2>2. CASE Killed(p)
    <3>1. End(p, "failed") /\ UNCHANGED <<backend, ruleVars>> /\ kills' \in 0..MaxKills
      BY <1>0, <2>2, KillSwitchAssumption DEF Killed, Die, KsTypeOK
    <3> QED
      BY <1>0, <3>1, EndType
  <2> QED
    BY <1>4, <2>1, <2>2
<1>5. CASE RevertProcess
  <2>1. CASE RevertWakes
    BY <1>0, <2>1 DEF RevertWakes, KsTypeOK, ruleVars
  <2>2. CASE RevertBegins
    <3>1. Begin(Revert, "off") /\ revert' = "none"
      BY <2>2 DEF RevertBegins
    <3> QED
      BY <1>0, <3>1, ProcsOK, BeginType
  <2> QED
    BY <1>5, <2>1, <2>2 DEF RevertProcess
<1>6. CASE WatchdogRestart
  <2>1. UNCHANGED <<backend, ruleVars, kills>> /\ (UNCHANGED procVars \/ End(Watchdog, "failed"))
    BY <1>6 DEF WatchdogRestart
  <2>2. CASE UNCHANGED procVars
    BY <1>0, <2>1, <2>2 DEF KsTypeOK, procVars, ruleVars
  <2>3. CASE End(Watchdog, "failed")
    <3>1. kills' \in 0..MaxKills
      BY <1>0, <2>1 DEF KsTypeOK
    <3> QED
      BY <1>0, <2>1, <2>3, <3>1, ProcsOK, EndType
  <2> QED
    BY <2>1, <2>2, <2>3
<1>7. CASE Reboot
  <2>1. /\ table' = FALSE /\ chain' = [p \in Parts |-> "absent"] /\ jump' = {}
        /\ lock' = Nobody /\ revert' = "none"
        /\ job' = [p \in Procs |-> "none"] /\ at' = [p \in Procs |-> 1]
        /\ ended' = [p \in Awaited |-> "ok"] /\ UNCHANGED <<backend, kills>>
    BY <1>7 DEF Reboot
  <2>2. /\ chain' \in [Parts -> {"absent", "empty", "drop"}]
        /\ job' \in [Procs -> {"none", "on", "off", "cleanup"}] /\ at' \in [Procs -> Nat \ {0}]
        /\ ended' \in [Awaited -> {"ok", "failed"}]
    BY <2>1
  <2> QED
    BY <1>0, <2>1, <2>2 DEF KsTypeOK
<1> QED
  BY <1>0, <1>1, <1>2, <1>3, <1>4, <1>5, <1>6, <1>7, OffEndsKs DEF Next, Cycle, Aside

\* The state of the cycle and of the world.
CycleOK ==
    /\ pc \in {"poll", "hold", "rate", "check", "record", "off", "lifting",
               "cleaning", "lifted", "verify", "recheck", "reisolate", "isolating"}
    /\ passes \in 0..(StablePasses - 1)
    /\ recent \in Seq(BOOLEAN)
    /\ safe \in BOOLEAN /\ hold \in BOOLEAN
    /\ cleaned \in BOOLEAN
    /\ commands \in 0..MaxCommands /\ upsets \in 0..MaxUpsets

LEMMA NextCycle == ASSUME CycleOK, [Next]_vars PROVE CycleOK'
<1>0. /\ 0 \in 0..(StablePasses - 1)
      /\ upsets < MaxUpsets => upsets + 1 \in 0..MaxUpsets
      /\ commands < MaxCommands => commands + 1 \in 0..MaxCommands
  BY ReconnectAssumption DEF CycleOK
<1>1. CASE UNCHANGED vars
  BY <1>1 DEF vars, CycleOK
<1>2. CASE Isolated \/ HoldGate \/ RateGate \/ Lifted \/ Verify \/ Recheck \/ CleanupEnds \/ OnEnds
  BY <1>0, <1>2 DEF Isolated, HoldGate, RateGate, Lifted, Verify, Recheck, CleanupEnds, OnEnds,
     CycleOK, Goto, envVars
<1>3. CASE CheckPass
  <2>1. passes' \in 0..(StablePasses - 1)
    <3>1. CASE passes + 1 < StablePasses /\ passes' = passes + 1
      BY <3>1, ReconnectAssumption DEF CycleOK
    <3>2. CASE passes' = 0
      BY <1>0, <3>2
    <3> QED
      BY <1>3, <3>1, <3>2 DEF CheckPass
  <2>2. UNCHANGED <<recent, envVars, cleaned, commands, upsets>> /\ pc' \in {pc, "record", "poll"}
    BY <1>3 DEF CheckPass, Goto
  <2> QED
    BY <2>1, <2>2 DEF CycleOK, envVars
<1>4. CASE Record
  <2>1. \/ recent' = Append(recent, TRUE) /\ upsets' = upsets
        \/ recent' = Append(recent, FALSE) /\ upsets < MaxUpsets /\ upsets' = upsets + 1
    BY <1>4 DEF Record, Upset
  <2>2. recent' \in Seq(BOOLEAN)
    BY <2>1, AppendProperties DEF CycleOK
  <2>3. pc' = "off" /\ UNCHANGED <<passes, envVars, cleaned, commands>>
    BY <1>4 DEF Record, Goto
  <2> QED
    BY <1>0, <2>1, <2>2, <2>3 DEF CycleOK, envVars
<1>5. CASE RunOff \/ RunOn \/ OffEnds
  BY <1>5 DEF RunOff, RunOn, OffEnds, CycleOK, Goto, envVars
<1>6. ASSUME NEW j \in {"on", "off"}, Command(j) PROVE CycleOK'
  BY <1>0, <1>6 DEF Command, CycleOK, cycleVars, envVars
<1>7. ASSUME NEW p \in Procs, Runs(p) \/ Killed(p) PROVE CycleOK'
  BY <1>7 DEF Runs, Killed, CycleOK, cycleVars, envVars
<1>8. CASE RevertProcess
  BY <1>8 DEF RevertProcess, CycleOK, cycleVars, envVars
<1>9. CASE WatchdogRestart
  <2>1. recent' \in Seq(BOOLEAN)
    <3>1. recent' = recent \/ recent' = [i \in DOMAIN recent |-> FALSE]
      BY <1>9 DEF WatchdogRestart
    <3>2. recent \in Seq(BOOLEAN) /\ DOMAIN recent = 1..Len(recent) /\ Len(recent) \in Nat
      BY DEF CycleOK
    <3> DEFINE n == Len(recent)
    <3>3. n \in Nat => [i \in 1..n |-> FALSE] \in Seq(BOOLEAN)
      <4> HIDE DEF n
      <4> QED
        BY SeqDef
    <3> QED
      BY <3>1, <3>2, <3>3
  <2>2. pc' = "poll" /\ passes' = 0 /\ upsets < MaxUpsets /\ upsets' = upsets + 1
        /\ UNCHANGED <<envVars, cleaned, commands>>
    BY <1>9 DEF WatchdogRestart, Goto, Upset
  <2> QED
    BY <1>0, <2>1, <2>2 DEF CycleOK, envVars
<1>10. CASE Reboot
  BY <1>0, <1>10 DEF Reboot, Upset, CycleOK, Goto, envVars
<1>11. CASE OldestExpires
  <2>1. recent' = Tail(recent) /\ recent # <<>> /\ UNCHANGED <<pc, passes, envVars, cleaned, commands, upsets>>
    BY <1>11 DEF OldestExpires
  <2>2. recent' \in Seq(BOOLEAN)
    BY <2>1 DEF CycleOK
  <2> QED
    BY <2>1, <2>2 DEF CycleOK, envVars
<1>12. CASE World
  BY <1>12 DEF World, CycleOK, cycleVars
<1> QED
  BY <1>1, <1>2, <1>3, <1>4, <1>5, <1>6, <1>7, <1>8, <1>9, <1>10, <1>11, <1>12 DEF Next, Cycle

LEMMA InitType == Init => TypeOK
<1> SUFFICES ASSUME Init PROVE TypeOK
  OBVIOUS
<1>1. KsTypeOK
  <2>1. /\ chain \in [Parts -> {"absent", "empty", "drop"}]
        /\ job \in [Procs -> {"none", "on", "off", "cleanup"}] /\ at \in [Procs -> Nat \ {0}]
        /\ ended \in [Awaited -> {"ok", "failed"}]
    BY DEF Init, KsInit
  <2>2. 0 \in 0..MaxKills
    BY KillSwitchAssumption
  <2> QED
    BY <2>1, <2>2 DEF Init, KsInit, KsTypeOK
<1>2. 0 \in 0..(StablePasses - 1) /\ 0 \in 0..MaxCommands /\ 0 \in 0..MaxUpsets /\ <<>> \in Seq(BOOLEAN)
  BY ReconnectAssumption
<1> QED
  BY <1>1, <1>2 DEF Init, TypeOK

LEMMA NextType == TypeOK /\ [Next]_vars => TypeOK'
<1>1. TypeOK <=> KsTypeOK /\ CycleOK
  BY DEF TypeOK, CycleOK
<1>2. TypeOK' <=> KsTypeOK' /\ CycleOK'
  BY DEF TypeOK, CycleOK
<1> QED
  BY <1>1, <1>2, NextKs, NextCycle

-----------------------------------------------------------------------------
(* Setting the switch again opens no hole.                                  *)

\* The calls of "on" only add to what is blocked.
LEMMA OnOnlyBlocks ==
    ASSUME KsTypeOK, NEW k \in Nat \ {0}, k <= Len(Script("on")), Perform(Script("on")[k]),
           NEW q \in Parts, Blocked(q)
    PROVE  Blocked(q)'
<1> DEFINE c == Script("on")[k]
<1>1. CASE backend = "nft"
  <2>1. Script("on") = nft_on
    BY <1>1 DEF Script
  <2>2. k = 1 /\ c.op = "load"
    BY <2>1, NftScripts, CallFields
  <2>3. table' = TRUE
    BY <2>2 DEF Perform
  <2> QED
    BY <2>3 DEF Blocked
<1>2. CASE backend # "nft"
  <2>1. Script("on") = ipt_on
    BY <1>2 DEF Script
  <2>2. c.op \in {"restore", "jump"}
    BY <2>1, OnScript
  <2>3. CASE c.op = "restore"
    <3>1. chain' = [r \in Parts |-> IF r[1] = c.fam THEN "drop" ELSE chain[r]] /\ UNCHANGED <<table, jump>>
      BY <2>3 DEF Perform
    <3>2. chain[q] = "drop" => chain'[q] = "drop"
      BY <3>1
    <3> QED
      BY <3>1, <3>2 DEF Blocked
  <2>4. CASE c.op = "jump"
    <3>1. jump \subseteq jump' /\ UNCHANGED <<table, chain>>
      BY <2>4 DEF Perform
    <3> QED
      BY <3>1 DEF Blocked
  <2> QED
    BY <2>2, <2>3, <2>4
<1> QED
  BY <1>1, <1>2

\* A process gets on in its script by a step of its own, which performs the call.
LEMMA Advances ==
    ASSUME TypeOK, [Next]_vars, NEW p \in Procs, at'[p] = at[p] + 1
    PROVE  at[p] <= Len(Script(job[p])) /\ Perform(Script(job[p])[at[p]])
<1>0. at \in [Procs -> Nat \ {0}] /\ at[p] \in Nat \ {0}
  BY DEF TypeOK, KsTypeOK
<1>1. ASSUME NEW q \in Procs, Runs(q)
      PROVE  at[p] <= Len(Script(job[p])) /\ Perform(Script(job[p])[at[p]])
  <2>1. CASE at' = [at EXCEPT ![q] = 1]
    BY <1>0, <2>1
  <2>2. CASE /\ at[q] <= Len(Script(job[q])) /\ Perform(Script(job[q])[at[q]])
             /\ at' = [at EXCEPT ![q] = @ + 1]
    <3>1. p = q
      BY <1>0, <2>2
    <3> QED
      BY <2>2, <3>1
  <2> QED
    BY <1>1, <2>1, <2>2 DEF Runs, Step, End
<1>2. CASE at' = at
  BY <1>0, <1>2
<1>3. ASSUME NEW q \in Procs, at' = [at EXCEPT ![q] = 1] PROVE FALSE
  BY <1>0, <1>3
<1>4. CASE Aside \/ UNCHANGED vars
  BY <1>2, <1>4, AsideKs DEF ksVars, vars
<1>5. ASSUME NEW q \in Procs, NEW j, Begin(q, j) PROVE at' = at \/ at' = [at EXCEPT ![q] = 1]
  BY <1>5 DEF Begin
<1>6. CASE RunOff \/ RunOn \/ OffEnds
  BY <1>2, <1>3, <1>5, <1>6, ProcsOK DEF RunOff, RunOn, OffEnds
<1>7. ASSUME NEW j \in {"on", "off"}, Command(j)
      PROVE  at[p] <= Len(Script(job[p])) /\ Perform(Script(job[p])[at[p]])
  BY <1>2, <1>3, <1>5, <1>7, ProcsOK DEF Command
<1>8. ASSUME NEW q \in Procs, Killed(q)
      PROVE  at[p] <= Len(Script(job[p])) /\ Perform(Script(job[p])[at[p]])
  BY <1>3, <1>8 DEF Killed, Die, End
<1>9. CASE RevertProcess
  BY <1>2, <1>3, <1>5, <1>9, ProcsOK DEF RevertProcess, RevertWakes, RevertBegins
<1>10. CASE WatchdogRestart
  BY <1>2, <1>3, <1>10, ProcsOK DEF WatchdogRestart, procVars, End
<1>11. CASE Reboot
  BY <1>0, <1>11 DEF Reboot
<1> QED
  BY <1>1, <1>4, <1>6, <1>7, <1>8, <1>9, <1>10, <1>11 DEF Next, Cycle, Aside

\* "on" is set again over rules that are there, after an interrupted command or beside a
\* cleanup that does not take the lock: none of its calls lets through what was blocked.
THEOREM OnOpensNoHole == Spec => NoHole
<1>1. ASSUME TypeOK, [Next]_vars
      PROVE  [\A p \in Procs : job[p] = "on" /\ at'[p] = at[p] + 1 =>
                 \A q \in Parts : Blocked(q) => Blocked(q)']_vars
  <2> SUFFICES ASSUME NEW p \in Procs, job[p] = "on", at'[p] = at[p] + 1, NEW q \in Parts, Blocked(q)
               PROVE  Blocked(q)'
    OBVIOUS
  <2>1. at[p] <= Len(Script("on")) /\ Perform(Script("on")[at[p]])
    BY <1>1, Advances
  <2>2. KsTypeOK /\ at[p] \in Nat \ {0}
    BY <1>1 DEF TypeOK, KsTypeOK
  <2> QED
    BY <2>1, <2>2, OnOnlyBlocks
<1> QED
  BY <1>1, InitType, NextType, PTL DEF Spec, NoHole

-----------------------------------------------------------------------------
(* The flapping guard.                                                      *)

\* The file never has more reconnects than allowed, and one less while the watchdog is on
\* its way to record another.
Rated ==
    /\ Cardinality(Filed) <= MaxReconnects
    /\ pc \in {"check", "record"} => Cardinality(Filed) < MaxReconnects

LEMMA FiledFinite ==
    ASSUME CycleOK
    PROVE  IsFiniteSet(Filed) /\ Cardinality(Filed) \in Nat /\ Filed \in SUBSET (1..Len(recent))
<1>1. Len(recent) \in Nat /\ Filed \in SUBSET (1..Len(recent))
  BY DEF CycleOK, Filed
<1>2. IsFiniteSet(1..Len(recent))
  BY <1>1, FS_Interval
<1> QED
  BY <1>1, <1>2, FS_Subset, FS_CardinalityType

LEMMA RecordRated == ASSUME CycleOK, Rated, Record PROVE Rated'
<1> DEFINE n == Len(recent) + 1
<1>0. /\ IsFiniteSet(Filed) /\ Cardinality(Filed) \in Nat /\ recent \in Seq(BOOLEAN) /\ Len(recent) \in Nat
      /\ Cardinality(Filed) < MaxReconnects /\ MaxReconnects \in Nat /\ pc' = "off"
  BY FiledFinite, ReconnectAssumption DEF CycleOK, Rated, Record, Goto
<1>1. PICK b \in BOOLEAN : recent' = Append(recent, b)
  BY DEF Record
<1>2. /\ DOMAIN recent' = 1..n /\ recent'[n] = b /\ DOMAIN recent = 1..Len(recent)
      /\ \A i \in 1..Len(recent) : recent'[i] = recent[i]
  BY <1>0, <1>1
<1>3. Filed' = IF b THEN Filed \cup {n} ELSE Filed
  BY <1>0, <1>2 DEF Filed
<1>4. Cardinality(Filed \cup {n}) <= Cardinality(Filed) + 1 /\ Cardinality(Filed \cup {n}) \in Nat
  <2>1. /\ IsFiniteSet(Filed \cup {n})
        /\ Cardinality(Filed \cup {n}) = IF n \in Filed THEN Cardinality(Filed) ELSE Cardinality(Filed) + 1
    BY <1>0, FS_AddElement
  <2> QED
    BY <1>0, <2>1
<1>5. Cardinality(Filed') <= MaxReconnects
  BY <1>0, <1>3, <1>4
<1> QED
  BY <1>0, <1>5 DEF Rated

LEMMA ExpiryRated == ASSUME CycleOK, Rated, OldestExpires PROVE Rated'
<1>0. /\ IsFiniteSet(Filed) /\ Cardinality(Filed) \in Nat /\ MaxReconnects \in Nat
      /\ recent \in Seq(BOOLEAN) /\ recent # <<>> /\ recent' = Tail(recent) /\ pc' = pc
  BY FiledFinite, ReconnectAssumption DEF CycleOK, OldestExpires
<1>1. /\ Len(recent) \in Nat /\ DOMAIN recent' = 1..(Len(recent) - 1) /\ DOMAIN recent = 1..Len(recent)
      /\ \A i \in 1..(Len(recent) - 1) : recent'[i] = recent[i + 1]
  <2>1. /\ Tail(recent) \in Seq(BOOLEAN) /\ Len(Tail(recent)) = Len(recent) - 1
        /\ \A i \in 1..Len(Tail(recent)) : Tail(recent)[i] = recent[i + 1]
    BY <1>0, HeadTailProperties
  <2> QED
    BY <1>0, <2>1
<1> DEFINE f == [i \in Filed' |-> i + 1]
<1>2. \A i \in Filed' : i \in 1..(Len(recent) - 1) /\ i + 1 \in Filed
  BY <1>1 DEF Filed
<1>3. f \in Injection(Filed', Filed)
  BY <1>1, <1>2 DEF Injection, IsInjective
<1>4. Cardinality(Filed') <= Cardinality(Filed) /\ IsFiniteSet(Filed')
  <2> HIDE DEF f
  <2> QED
    BY <1>0, <1>3, FS_Injection
<1>5. Cardinality(Filed') \in Nat
  BY <1>4, FS_CardinalityType
<1> QED
  BY <1>0, <1>4, <1>5 DEF Rated

LEMMA NextRated == ASSUME TypeOK, Rated, [Next]_vars PROVE Rated'
<1>0. CycleOK /\ Cardinality(Filed) \in Nat /\ MaxReconnects \in Nat
  BY FiledFinite, ReconnectAssumption DEF TypeOK, CycleOK
<1>1. ASSUME recent' = recent, pc' = pc \/ pc' \notin {"check", "record"} PROVE Rated'
  BY <1>1 DEF Rated, Filed
<1>2. CASE RateGate
  BY <1>0, <1>2 DEF RateGate, Goto, Rated, Filed
<1>3. CASE CheckPass
  BY <1>3 DEF CheckPass, Goto, Rated, Filed
<1>4. CASE WatchdogRestart
  <2>1. recent' = recent \/ recent' = [i \in DOMAIN recent |-> FALSE]
    BY <1>4 DEF WatchdogRestart
  <2>2. pc' = "poll"
    BY <1>4 DEF WatchdogRestart, Goto
  <2>3. CASE recent' = [i \in DOMAIN recent |-> FALSE]
    <3>1. Filed' = {}
      BY <2>3 DEF Filed
    <3> QED
      BY <1>0, <2>2, <3>1, FS_EmptySet DEF Rated
  <2> QED
    BY <1>1, <2>1, <2>2, <2>3
<1>5. CASE Isolated \/ HoldGate \/ CleanupEnds \/ Lifted \/ Verify \/ Recheck \/ OnEnds \/ World
  BY <1>1, <1>5 DEF Isolated, HoldGate, CleanupEnds, Lifted, Verify, Recheck, OnEnds, World, Goto, cycleVars
<1>6. CASE RunOff \/ RunOn \/ OffEnds \/ RevertProcess \/ Reboot \/ UNCHANGED vars
  BY <1>1, <1>6 DEF RunOff, RunOn, OffEnds, RevertProcess, Reboot, Goto, cycleVars, vars
<1>7. CASE (\E j \in {"on", "off"} : Command(j)) \/ (\E p \in Procs : Runs(p) \/ Killed(p))
  BY <1>1, <1>7 DEF Command, Runs, Killed, cycleVars
<1> QED
  BY <1>0, <1>2, <1>3, <1>4, <1>5, <1>6, <1>7, RecordRated, ExpiryRated DEF Next, Cycle

\* A reconnect is recorded before the block is lifted, so neither a crash of the watchdog
\* nor a reboot between the two lets it go through the gate once more than allowed.
THEOREM FlappingIsBounded == Spec => []FlappingGuard
<1>1. Init => Rated
  <2> SUFFICES ASSUME Init PROVE Rated
    OBVIOUS
  <2>1. Filed = {} /\ pc = "poll"
    BY DEF Init, Filed
  <2> QED
    BY <2>1, FS_EmptySet, ReconnectAssumption DEF Rated
<1>2. TypeOK /\ Rated => FlappingGuard
  <2> SUFFICES ASSUME TypeOK, Rated, \A i \in DOMAIN recent : recent[i] PROVE Len(recent) <= MaxReconnects
    BY DEF FlappingGuard
  <2>1. recent \in Seq(BOOLEAN) /\ Len(recent) \in Nat /\ DOMAIN recent = 1..Len(recent)
    BY DEF TypeOK
  <2>2. Filed = 1..Len(recent)
    BY <2>1 DEF Filed
  <2>3. Cardinality(1..Len(recent)) = Len(recent)
    BY <2>1, FS_Interval
  <2> QED
    BY <2>2, <2>3 DEF Rated
<1>3. TypeOK /\ Rated /\ [Next]_vars => TypeOK' /\ Rated'
  BY NextType, NextRated
<1> QED
  BY <1>1, <1>2, <1>3, InitType, PTL DEF Spec

-----------------------------------------------------------------------------
(* The status.                                                              *)

Undisturbed == kills = 0 /\ upsets = 0 /\ ~cleaned

\* The rules of all parts are there, or no hook jumps to its chain.
Full == jump = Parts /\ \A q \in Parts : chain[q] = "drop"
Clear == jump = {}

\* What the calls of "on" have set, and those of "off" have taken away, so far.
Set(c) ==
    /\ c.op = "restore" => \A q \in Parts : q[1] = c.fam => chain[q] = "drop"
    /\ c.op = "jump" => PartOf(c) \in jump
Taken(c) == c.op = "unjump" => PartOf(c) \notin jump

\* One command runs at a time, under the lock.
Locked ==
    /\ \A p \in Procs : ~Idle(p) => lock = p /\ job[p] \in {"on", "off"}
    /\ revert = "sleeping" => lock = Revert
    /\ revert # "none" => Idle(Revert)

\* A tool leaves the other one's rules alone; between commands the rules are all
\* there or none is, and during one, what its calls did stands.
Progress ==
    /\ backend = "nft" => jump = {}
    /\ backend = "iptables" =>
         /\ table = FALSE
         /\ (\A p \in Procs : Idle(p)) => Full \/ Clear
         /\ \A p \in Procs : job[p] = "on" => \A k \in 1..(at[p] - 1) : Set(ipt_on[k])
         /\ \A p \in Procs : job[p] = "off" => \A k \in 1..(at[p] - 1) : Taken(ipt_off[k])

Tidy == Undisturbed => Locked /\ Progress

\* While no call is made and nobody begins or ends, that stands.
LEMMA TidyStays ==
    ASSUME Locked, Progress, UNCHANGED <<backend, table, chain, jump, lock, job, at, revert>>
    PROVE  Locked' /\ Progress'
<1>1. Locked'
  BY DEF Locked, Idle
<1>2. Progress'
  BY DEF Progress, Idle, Full, Clear, Set, Taken
<1> QED
  BY <1>1, <1>2

LEMMA BeginTidy ==
    ASSUME KsTypeOK, Locked, Progress, NEW p \in Procs, NEW j \in {"on", "off"}, Begin(p, j),
           \/ revert' = revert /\ (p # Revert \/ revert = "none")
           \/ revert' = "asked" /\ p # Revert /\ lock = Nobody
           \/ revert' = "none"
    PROVE  Locked' /\ Progress'
<1>0. UNCHANGED <<backend, table, chain, jump>> /\ Idle(p)
  BY DEF Begin, ruleVars
<1>1. CASE lock # Nobody
  <2>1. UNCHANGED <<lock, job, at>>
    BY <1>1 DEF Begin
  <2>2. CASE revert' = revert
    BY <1>0, <2>1, <2>2, TidyStays
  <2>3. CASE revert' = "none"
    <3>1. Locked'
      BY <2>1, <2>3 DEF Locked, Idle
    <3>2. Progress'
      BY <1>0, <2>1 DEF Progress, Idle, Full, Clear, Set, Taken
    <3> QED
      BY <3>1, <3>2
  <2> QED
    BY <1>1, <2>2, <2>3
<1>2. CASE lock = Nobody
  <2>1. lock' = p /\ job' = [job EXCEPT ![p] = j] /\ at' = [at EXCEPT ![p] = 1]
    BY <1>2 DEF Begin
  <2>2. job \in [Procs -> {"none", "on", "off", "cleanup"}] /\ at \in [Procs -> Nat \ {0}]
    BY DEF KsTypeOK
  <2>3. \A q \in Procs : Idle(q)
    BY <1>2, ProcsOK DEF Locked
  <2>4. job'[p] = j /\ at'[p] = 1 /\ \A q \in Procs : q # p => job'[q] = "none"
    BY <2>1, <2>2, <2>3 DEF Idle
  <2>5. revert # "sleeping"
    BY <1>2, ProcsOK DEF Locked
  <2>6. Locked'
    <3>1. \A q \in Procs : job'[q] # "none" => lock' = q /\ job'[q] \in {"on", "off"}
      BY <2>1, <2>4
    <3>2. revert' # "sleeping"
      BY <2>5
    <3>3. revert' # "none" => job'[Revert] = "none"
      BY <2>4, ProcsOK
    <3> QED
      BY <3>1, <3>2, <3>3 DEF Locked, Idle
  <2>7. Progress'
    <3>1. ~(\A q \in Procs : job'[q] = "none")
      BY <2>4
    <3>2. \A q \in Procs : job'[q] # "none" => at'[q] - 1 = 0
      BY <2>4
    <3>3. \A q \in Procs : job'[q] # "none" => 1..(at'[q] - 1) = {}
      BY <3>2
    <3> QED
      BY <1>0, <3>1, <3>3 DEF Progress, Idle
  <2> QED
    BY <2>6, <2>7
<1> QED
  BY <1>1, <1>2

\* A call of the command that runs.
LEMMA CallTidy ==
    ASSUME KsTypeOK, Locked, Progress, NEW p \in Procs, job[p] \in {"on", "off"},
           at[p] <= Len(Script(job[p])), Perform(Script(job[p])[at[p]]),
           at' = [at EXCEPT ![p] = @ + 1], UNCHANGED <<backend, lock, job, ended, revert>>
    PROVE  Locked' /\ Progress'
<1> DEFINE c == Script(job[p])[at[p]]
<1>0. /\ at \in [Procs -> Nat \ {0}] /\ at[p] \in Nat \ {0} /\ at'[p] = at[p] + 1
      /\ job \in [Procs -> {"none", "on", "off", "cleanup"}]
      /\ jump \in SUBSET Parts /\ backend \in {"nft", "iptables"}
  BY DEF KsTypeOK
<1>1. Locked'
  BY DEF Locked, Idle
<1>2. \A q \in Procs : q # p => job[q] = "none"
  BY DEF Locked, Idle
<1>3. ~(\A q \in Procs : Idle(q)')
  BY DEF Idle
<1>4. CASE backend = "nft"
  <2>1. Script(job[p]) \in {nft_on, nft_off}
    BY <1>4 DEF Script
  <2>2. at[p] = 1 /\ c.op \in {"load", "unload"}
    BY <1>0, <2>1, NftScripts, CallFields
  <2>3. UNCHANGED jump
    BY <2>2 DEF Perform
  <2> QED
    BY <1>1, <1>4, <2>3 DEF Progress
<1>5. CASE backend = "iptables" /\ job[p] = "on"
  <2>1. Script(job[p]) = ipt_on
    BY <1>5 DEF Script
  <2>2. c = ipt_on[at[p]] /\ at[p] \in 1..Len(ipt_on) /\ c.op \in {"restore", "jump"}
    BY <1>0, <2>1, OnScript
  <2>3. \A k \in 1..(at[p] - 1) : Set(ipt_on[k])
    BY <1>5 DEF Progress
  <2>4. UNCHANGED table /\ \A d : Set(d) => Set(d)'
    <3>1. CASE c.op = "restore"
      <4>1. chain' = [q \in Parts |-> IF q[1] = c.fam THEN "drop" ELSE chain[q]] /\ UNCHANGED <<table, jump>>
        BY <3>1 DEF Perform
      <4>2. \A q \in Parts : chain[q] = "drop" => chain'[q] = "drop"
        BY <4>1
      <4> QED
        BY <4>1, <4>2 DEF Set
    <3>2. CASE c.op = "jump"
      <4>1. jump \subseteq jump' /\ UNCHANGED <<table, chain>>
        BY <3>2 DEF Perform
      <4> QED
        BY <4>1 DEF Set
    <3> QED
      BY <2>2, <3>1, <3>2
  <2>d. PICK d : d = c                     \* the call itself, now that the process goes on
    OBVIOUS
  <2>5. Set(d)'
    <3>1. CASE d.op = "restore"
      <4>1. chain' = [q \in Parts |-> IF q[1] = d.fam THEN "drop" ELSE chain[q]]
        BY <2>d, <3>1 DEF Perform
      <4> QED
        BY <3>1, <4>1 DEF Set
    <3>2. CASE d.op = "jump"
      <4>1. PartOf(d) \in jump'
        BY <2>d, <3>2 DEF Perform, PartOf
      <4> QED
        BY <3>2, <4>1 DEF Set
    <3> QED
      BY <2>2, <2>d, <3>1, <3>2
  <2>6. \A k \in 1..(at'[p] - 1) : Set(ipt_on[k])'
    <3> TAKE k \in 1..(at'[p] - 1)
    <3>1. k \in 1..(at[p] - 1) \/ k = at[p]
      BY <1>0
    <3>2. CASE k = at[p]
      BY <2>2, <2>d, <2>5, <3>2
    <3>3. CASE k \in 1..(at[p] - 1)
      BY <2>3, <2>4, <3>3
    <3> QED
      BY <3>1, <3>2, <3>3
  <2>7. \A q \in Procs : job[q] # "none" => q = p /\ job[q] = "on"
    BY <1>2, <1>5
  <2>8. table' = FALSE
    BY <1>5, <2>4 DEF Progress
  <2> QED
    BY <1>1, <1>3, <1>5, <2>6, <2>7, <2>8 DEF Progress
<1>6. CASE backend = "iptables" /\ job[p] = "off"
  <2>1. Script(job[p]) = ipt_off
    BY <1>6 DEF Script
  <2>2. c = ipt_off[at[p]] /\ at[p] \in 1..Len(ipt_off) /\ c.op \in {"unjump", "flush", "delete"}
    BY <1>0, <2>1, OffScript
  <2>3. \A k \in 1..(at[p] - 1) : Taken(ipt_off[k])
    BY <1>6 DEF Progress
  <2>4. UNCHANGED table /\ jump' \subseteq jump
    BY <2>2 DEF Perform
  <2>d. PICK d : d = c
    OBVIOUS
  <2>5. Taken(d)'
    <3>1. d.op = "unjump" => PartOf(d) \notin jump'
      BY <2>d DEF Perform, PartOf
    <3> QED
      BY <3>1 DEF Taken
  <2>6. \A k \in 1..(at'[p] - 1) : Taken(ipt_off[k])'
    <3> TAKE k \in 1..(at'[p] - 1)
    <3>1. k \in 1..(at[p] - 1) \/ k = at[p]
      BY <1>0
    <3>2. CASE k \in 1..(at[p] - 1)
      <4>1. Taken(ipt_off[k])
        BY <2>3, <3>2
      <4> QED
        BY <2>4, <4>1 DEF Taken
    <3> QED
      BY <2>2, <2>d, <2>5, <3>1, <3>2
  <2>7. \A q \in Procs : job[q] # "none" => q = p /\ job[q] = "off"
    BY <1>2, <1>6
  <2>8. table' = FALSE
    BY <1>6, <2>4 DEF Progress
  <2> QED
    BY <1>1, <1>3, <1>6, <2>6, <2>7, <2>8 DEF Progress
<1> QED
  BY <1>0, <1>4, <1>5, <1>6

\* No jump of an undisturbed "on" is refused: its family's chains are there.
LEMMA NotRefused ==
    ASSUME KsTypeOK, Locked, Progress, NEW p \in Procs, job[p] \in {"on", "off"},
           at[p] <= Len(Script(job[p]))
    PROVE  ~Refused(Script(job[p])[at[p]])
<1> DEFINE c == Script(job[p])[at[p]]
<1>0. at[p] \in Nat \ {0} /\ backend \in {"nft", "iptables"}
  BY DEF KsTypeOK
<1>1. CASE backend = "nft"
  <2>1. Script(job[p]) \in {nft_on, nft_off}
    BY <1>1 DEF Script
  <2>2. c.op # "jump"
    BY <1>0, <2>1, NftScripts, CallFields
  <2> QED
    BY <2>2 DEF Refused
<1>2. CASE backend = "iptables" /\ job[p] = "off"
  <2>1. Script(job[p]) = ipt_off
    BY <1>2 DEF Script
  <2>2. c.op # "jump"
    BY <1>0, <2>1, OffScript
  <2> QED
    BY <2>2 DEF Refused
<1>3. CASE backend = "iptables" /\ job[p] = "on"
  <2>1. Script(job[p]) = ipt_on
    BY <1>3 DEF Script
  <2>2. c = ipt_on[at[p]] /\ at[p] \in 1..Len(ipt_on)
    BY <1>0, <2>1, OnScript
  <2>3. \A k \in 1..(at[p] - 1) : Set(ipt_on[k])
    BY <1>3 DEF Progress
  <2>4. CASE c.op = "jump"
    <3>1. /\ PartOf(c) \in Parts
          /\ \E j \in 1..(at[p] - 1) : ipt_on[j].op = "restore" /\ ipt_on[j].fam = c.fam
      BY <2>2, <2>4, OnScript
    <3>2. PICK j \in 1..(at[p] - 1) : ipt_on[j].op = "restore" /\ ipt_on[j].fam = c.fam
      BY <3>1
    <3>3. chain[PartOf(c)] = "drop"
      <4>1. Set(ipt_on[j]) /\ PartOf(c)[1] = c.fam
        BY <2>3, <3>2 DEF PartOf
      <4> QED
        BY <3>1, <3>2, <4>1 DEF Set
    <3> QED
      BY <3>3 DEF Refused, PartOf
  <2> QED
    BY <2>4 DEF Refused
<1> QED
  BY <1>0, <1>1, <1>2, <1>3

\* The command ends after its last call: the rules are all there, or none is.
LEMMA EndTidy ==
    ASSUME KsTypeOK, Locked, Progress, NEW p \in Procs, job[p] \in {"on", "off"},
           at[p] > Len(Script(job[p])), End(p, "ok"), UNCHANGED <<backend, ruleVars>>
    PROVE  Locked' /\ Progress'
<1>0. /\ at[p] \in Nat \ {0} /\ job \in [Procs -> {"none", "on", "off", "cleanup"}]
      /\ jump \in SUBSET Parts /\ backend \in {"nft", "iptables"} /\ p # Nobody
      /\ UNCHANGED <<table, chain, jump>>
  BY ProcsOK DEF KsTypeOK, ruleVars
<1>1. lock = p /\ \A q \in Procs : q # p => job[q] = "none"
  BY DEF Locked, Idle
<1>2. \A q \in Procs : job'[q] = "none"
  BY <1>0, <1>1 DEF End
<1>3. Locked'
  <2>1. revert # "sleeping"
    <3>1. revert # "none" => p # Revert
      BY DEF Locked, Idle
    <3>2. revert = "sleeping" => lock = Revert
      BY DEF Locked
    <3> QED
      BY <1>1, <3>1, <3>2
  <2>2. revert' = "sleeping" => lock' = Revert
    BY <2>1 DEF End
  <2> QED
    BY <1>2, <2>2, ProcsOK DEF Locked, Idle
<1>4. backend = "iptables" => Full \/ Clear
  <2>1. CASE backend = "iptables" /\ job[p] = "on"
    <3>1. Script(job[p]) = ipt_on
      BY <2>1 DEF Script
    <3>2. \A k \in 1..Len(ipt_on) : Set(ipt_on[k])
      <4>1. \A k \in 1..(at[p] - 1) : Set(ipt_on[k])
        BY <2>1 DEF Progress
      <4>2. Len(ipt_on) \in Nat /\ Len(ipt_on) <= at[p] - 1
        BY <1>0, <3>1, OnScript
      <4> QED
        BY <1>0, <4>1, <4>2
    <3>3. ASSUME NEW q \in Parts PROVE q \in jump /\ chain[q] = "drop"
      <4>1. PICK k \in 1..Len(ipt_on) : ipt_on[k].op = "jump" /\ PartOf(ipt_on[k]) = q
        BY OnScript
      <4>2. q \in jump
        BY <3>2, <4>1 DEF Set
      <4>3. PICK j \in 1..(k - 1) : ipt_on[j].op = "restore" /\ ipt_on[j].fam = ipt_on[k].fam
        BY <4>1, OnScript
      <4>4. j \in 1..Len(ipt_on) /\ q[1] = ipt_on[j].fam
        BY <4>1, <4>3, OnScript DEF PartOf
      <4> QED
        BY <3>2, <4>2, <4>3, <4>4 DEF Set
    <3> QED
      BY <1>0, <3>3 DEF Full
  <2>2. CASE backend = "iptables" /\ job[p] = "off"
    <3>1. Script(job[p]) = ipt_off
      BY <2>2 DEF Script
    <3>2. \A k \in 1..Len(ipt_off) : Taken(ipt_off[k])
      <4>1. \A k \in 1..(at[p] - 1) : Taken(ipt_off[k])
        BY <2>2 DEF Progress
      <4>2. Len(ipt_off) \in Nat /\ Len(ipt_off) <= at[p] - 1
        BY <1>0, <3>1, OffScript
      <4> QED
        BY <1>0, <4>1, <4>2
    <3>3. ASSUME NEW q \in Parts PROVE q \notin jump
      <4>1. PICK k \in 1..Len(ipt_off) : ipt_off[k].op = "unjump" /\ PartOf(ipt_off[k]) = q
        BY OffScript
      <4> QED
        BY <3>2, <4>1 DEF Taken
    <3> QED
      BY <1>0, <3>3 DEF Clear
  <2> QED
    BY <2>1, <2>2
<1>5. Progress'
  <2>1. backend' = "iptables" => table' = FALSE /\ (Full \/ Clear)'
    BY <1>0, <1>4 DEF Progress, Full, Clear
  <2>2. backend' = "nft" => jump' = {}
    BY <1>0 DEF Progress
  <2> QED
    BY <1>2, <2>1, <2>2 DEF Progress
<1> QED
  BY <1>3, <1>5

LEMMA StepTidy ==
    ASSUME KsTypeOK, Locked, Progress, NEW p \in Procs, Step(p)
    PROVE  Locked' /\ Progress'
<1>1. job[p] \in {"on", "off"} /\ UNCHANGED backend
  BY DEF Step, Locked
<1>2. CASE at[p] <= Len(Script(job[p])) /\ Perform(Script(job[p])[at[p]])
           /\ at' = [at EXCEPT ![p] = @ + 1] /\ UNCHANGED <<lock, job, ended, revert>>
  BY <1>1, <1>2, CallTidy
<1>3. CASE at[p] <= Len(Script(job[p])) /\ Refused(Script(job[p])[at[p]])
  BY <1>1, <1>3, NotRefused
<1>4. CASE at[p] > Len(Script(job[p])) /\ End(p, "ok") /\ UNCHANGED ruleVars
  BY <1>1, <1>4, EndTidy
<1> QED
  BY <1>2, <1>3, <1>4 DEF Step

LEMMA NextTidy == ASSUME TypeOK, Tidy, [Next]_vars PROVE Tidy'
<1> SUFFICES ASSUME Undisturbed' PROVE Locked' /\ Progress'
  BY DEF Tidy
<1>0. KsTypeOK /\ kills \in Nat /\ upsets \in Nat /\ cleaned \in BOOLEAN
  BY DEF TypeOK, KsTypeOK
<1>1. CASE Aside \/ UNCHANGED vars
  <2>1. UNCHANGED <<backend, table, chain, jump, lock, job, at, revert, kills>>
    BY <1>1, AsideKs DEF ksVars, vars
  <2>2. UNCHANGED cleaned /\ (UNCHANGED upsets \/ upsets' = upsets + 1)
    BY <1>1 DEF Aside, Isolated, HoldGate, RateGate, CheckPass, Record, CleanupEnds, Lifted, Verify,
       Recheck, OnEnds, OldestExpires, World, Upset, vars
  <2>3. Undisturbed
    BY <1>0, <2>1, <2>2 DEF Undisturbed
  <2> QED
    BY <2>1, <2>3, TidyStays DEF Tidy
<1>2. CASE RunOff \/ RunOn
  <2>1. UNCHANGED <<revert, cleaned, upsets, kills>> /\ \E j \in {"on", "off"} : Begin(Watchdog, j)
    BY <1>2 DEF RunOff, RunOn, Begin
  <2>2. Locked /\ Progress
    BY <2>1 DEF Undisturbed, Tidy
  <2> QED
    BY <1>0, <2>1, <2>2, ProcsOK, BeginTidy
<1>3. CASE OffEnds
  <2>1. UNCHANGED <<backend, ruleVars, lock, revert, kills, upsets, job, at>> /\ ~cleaned
    BY <1>0, <1>3 DEF OffEnds, Undisturbed
  <2>2. Locked /\ Progress
    BY <2>1 DEF Undisturbed, Tidy
  <2> QED
    BY <2>1, <2>2, TidyStays DEF ruleVars
<1>4. ASSUME NEW j \in {"on", "off"}, Command(j) PROVE Locked' /\ Progress'
  <2>1. /\ UNCHANGED <<cleaned, upsets, kills>> /\ Begin(Operator, j)
        /\ revert' = revert \/ (revert' = "asked" /\ lock = Nobody)
    BY <1>4 DEF Command, Begin
  <2>2. Locked /\ Progress
    BY <2>1 DEF Undisturbed, Tidy
  <2> QED
    BY <1>0, <2>1, <2>2, ProcsOK, BeginTidy
<1>5. ASSUME NEW p \in Procs, Runs(p) \/ Killed(p) PROVE Locked' /\ Progress'
  <2>1. CASE Killed(p)
    BY <1>0, <2>1 DEF Killed, Die, Undisturbed
  <2>2. CASE Runs(p)
    <3>1. Step(p) /\ UNCHANGED <<cleaned, upsets, kills>>
      BY <2>2 DEF Runs, Step
    <3>2. Locked /\ Progress
      BY <3>1 DEF Undisturbed, Tidy
    <3> QED
      BY <1>0, <3>1, <3>2, StepTidy
  <2> QED
    BY <1>5, <2>1, <2>2
<1>6. CASE RevertProcess
  <2>1. UNCHANGED <<cleaned, upsets, kills>>
    BY <1>6 DEF RevertProcess, RevertWakes, RevertBegins, Begin
  <2>2. Locked /\ Progress
    BY <2>1 DEF Undisturbed, Tidy
  <2>3. CASE RevertWakes
    <3>1. /\ UNCHANGED <<backend, table, chain, jump, job, at>>
          /\ lock = Revert /\ lock' = Nobody /\ revert' = "due" /\ Idle(Revert)
      BY <2>2, <2>3 DEF RevertWakes, ruleVars, Locked
    <3>2. \A p \in Procs : Idle(p)
      BY <2>2, <3>1 DEF Locked
    <3>3. Locked'
      BY <3>1, <3>2, ProcsOK DEF Locked, Idle
    <3>4. Progress'
      BY <2>2, <3>1 DEF Progress, Idle, Full, Clear, Set, Taken
    <3> QED
      BY <3>3, <3>4
  <2>4. CASE RevertBegins
    <3>1. Begin(Revert, "off") /\ revert' = "none"
      BY <2>4 DEF RevertBegins
    <3> QED
      BY <1>0, <2>2, <3>1, ProcsOK, BeginTidy
  <2> QED
    BY <1>6, <2>3, <2>4 DEF RevertProcess
<1>7. CASE WatchdogRestart \/ Reboot
  BY <1>0, <1>7 DEF WatchdogRestart, Reboot, Upset, Undisturbed
<1> QED
  BY <1>1, <1>2, <1>3, <1>4, <1>5, <1>6, <1>7 DEF Next, Cycle, Aside

\* However the watchdog, the operator and the revert take turns: as long as no command is
\* interrupted and no cleanup goes past the lock, "status" says of every hook of every
\* family what is true of it.
THEOREM StatusTellsTheTruth == Spec => []StatusTruthful
<1>1. Init => Tidy
  <2> SUFFICES ASSUME Init PROVE Locked /\ Progress
    BY DEF Tidy
  <2>1. /\ table = FALSE /\ jump = {} /\ revert = "none" /\ \A p \in Procs : job[p] = "none"
    BY DEF Init, KsInit
  <2> QED
    BY <2>1 DEF Locked, Progress, Idle, Clear
<1>2. TypeOK /\ Tidy => StatusTruthful
  <2> SUFFICES ASSUME TypeOK, Tidy, Quiet, Undisturbed, NEW q \in Parts
               PROVE  Blocked(q) = Active
    BY DEF StatusTruthful, Undisturbed
  <2>1. Locked /\ Progress /\ \A p \in Procs : Idle(p)
    BY DEF Tidy, Quiet
  <2>2. table \in BOOLEAN /\ backend \in {"nft", "iptables"}
    BY DEF TypeOK, KsTypeOK
  <2>3. CASE backend = "nft"
    BY <2>1, <2>2, <2>3 DEF Progress, Blocked, Active
  <2>4. CASE backend = "iptables" /\ Clear
    <3>1. table = FALSE /\ jump = {}
      BY <2>1, <2>4 DEF Progress, Clear
    <3> QED
      BY <2>4, <3>1 DEF Blocked, Active
  <2>5. CASE backend = "iptables" /\ Full
    <3>1. <<Families[1], Hooks[1]>> \in Parts
      BY Lengths DEF Parts
    <3>2. <<Families[1], Hooks[1]>> \in jump /\ q \in jump /\ chain[q] = "drop"
      BY <2>5, <3>1 DEF Full
    <3> QED
      BY <2>2, <2>5, <3>2 DEF Blocked, Active
  <2> QED
    BY <2>1, <2>2, <2>3, <2>4, <2>5 DEF Progress
<1>3. TypeOK /\ Tidy /\ [Next]_vars => TypeOK' /\ Tidy'
  BY NextType, NextTidy
<1> QED
  BY <1>1, <1>2, <1>3, InitType, PTL DEF Spec

=============================================================================
