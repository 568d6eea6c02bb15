------------------------- MODULE ServicesTypesProofs -------------------------
(***************************************************************************)
(* That every variable of every service keeps its type, for any values of  *)
(* the parameters that are of the right kind themselves, and that a query  *)
(* of the vector search is answered with the best matches.                 *)
(*                                                                         *)
(* Types are less than obvious where a count is bounded: a breaker lets in *)
(* no caller above its limit, a pipeline that has begun has a number left, *)
(* a caller an attempt, and the slots of a tool add up to its semaphore.   *)
(***************************************************************************)
EXTENDS ServicesProofs, FiniteSetTheorems

-----------------------------------------------------------------------------
(* The types of the chat service.                                           *)

LEMMA NextChatTypes ==
    ASSUME MaxRetries \in Nat
    PROVE  Chat!TypeOK /\ [Chat!Next]_(Chat!chatVars) => Chat!TypeOK'
<1> SUFFICES ASSUME Chat!TypeOK, [Chat!Next]_(Chat!chatVars) PROVE Chat!TypeOK'
  OBVIOUS
<1> USE DEF Chat!TypeOK
<1>1. CASE Chat!End \/ Chat!TTL \/ UNCHANGED Chat!chatVars
  BY <1>1 DEF Chat!End, Chat!TTL, Chat!delete, Chat!UnderWay, Chat!chatVars
<1>2. ASSUME NEW s \in Senders, Chat!Refuse(s) PROVE Chat!TypeOK'
  BY <1>2 DEF Chat!Refuse, Chat!delete, Chat!UnderWay, Chat!Goto
<1>3. ASSUME NEW s \in Senders, Chat!Send(s) \/ Chat!Reply(s) \/ Chat!Retry(s) PROVE Chat!TypeOK'
  BY <1>3 DEF Chat!Send, Chat!Reply, Chat!Retry, Chat!Goto
<1>4. ASSUME NEW s \in Senders, Chat!Fail(s) PROVE Chat!TypeOK'
  <2>1. retries[s] < MaxRetries => retries[s] + 1 \in 0..MaxRetries
    OBVIOUS
  <2> QED
    BY <1>4, <2>1 DEF Chat!Fail, Chat!Goto
<1> QED
  BY <1>1, <1>2, <1>3, <1>4 DEF Chat!Next

LEMMA InitChatTypes == MaxRetries \in Nat /\ Chat!Init => Chat!TypeOK
<1> SUFFICES ASSUME MaxRetries \in Nat, Chat!Init PROVE Chat!TypeOK
  OBVIOUS
<1>1. stored \in BOOLEAN /\ idle \in BOOLEAN /\ over \in BOOLEAN
  BY Zenon DEF Chat!Init
<1>2. sending = [s \in Senders |-> "new"] /\ retries = [s \in Senders |-> 0] /\ late = {}
  BY DEF Chat!Init
<1> QED
  BY <1>1, <1>2 DEF Chat!TypeOK

-----------------------------------------------------------------------------
(* The types of the deployment orchestrator.                                *)

\* A pipeline that has begun has a number left for the revision it deploys.
DeployTyped ==
    /\ Deploy!TypeOK
    /\ step \in {"analysis", "tests", "build", "deploy"} => latest < MaxDeployments

LEMMA NextDeployTyped ==
    ASSUME MaxDeployments \in Nat
    PROVE  DeployTyped /\ [Deploy!Next]_(Deploy!deployVars) => DeployTyped'
<1> SUFFICES ASSUME DeployTyped, [Deploy!Next]_(Deploy!deployVars) PROVE DeployTyped'
  OBVIOUS
<1> USE DEF DeployTyped, Deploy!TypeOK, Deploy!Goes, Deploy!Ends, Deploy!TrafficVars
<1>1. CASE Deploy!Run
  BY <1>1 DEF Deploy!Run
<1>2. CASE Deploy!Check
  BY <1>2 DEF Deploy!Check
<1>3. CASE Deploy!Deploy
  BY <1>3 DEF Deploy!Deploy
<1>4. CASE Deploy!Split
  BY <1>4 DEF Deploy!Split
<1>5. CASE Deploy!Soak
  BY <1>5 DEF Deploy!Soak
<1>6. CASE Deploy!Promote
  BY <1>6 DEF Deploy!Promote, Deploy!ToLatest
<1>7. CASE Deploy!Rollback
  BY <1>7 DEF Deploy!Rollback, Deploy!ToLatest
<1>8. CASE Deploy!Killed \/ UNCHANGED Deploy!deployVars
  BY <1>8 DEF Deploy!Killed, Deploy!deployVars
<1> QED
  BY <1>1, <1>2, <1>3, <1>4, <1>5, <1>6, <1>7, <1>8 DEF Deploy!Next

LEMMA InitDeployTyped == MaxDeployments \in Nat /\ Deploy!Init => DeployTyped
BY DEF Deploy!Init, DeployTyped, Deploy!TypeOK

-----------------------------------------------------------------------------
(* The types of device bans: BanInv has the tables and the file.            *)

BanTyped ==
    BanInv /\ replaced \in BOOLEAN /\ changes \in 0..MaxChanges /\ deaths \in 0..MaxDeaths

LEMMA NextBanTyped ==
    ASSUME MaxChanges \in Nat, MaxDeaths \in Nat
    PROVE  BanTyped /\ [Bans!Next]_(Bans!banVars) => BanTyped'
<1> SUFFICES ASSUME BanTyped, [Bans!Next]_(Bans!banVars)
             PROVE  replaced' \in BOOLEAN /\ changes' \in 0..MaxChanges /\ deaths' \in 0..MaxDeaths
  BY NextBanInv DEF BanTyped
<1> USE DEF BanTyped
<1>1. ASSUME NEW d \in Devices, NEW done, NEW entries, Bans!save(d, done, entries)
      PROVE  replaced' \in BOOLEAN /\ changes' \in 0..MaxChanges /\ deaths' \in 0..MaxDeaths
  BY <1>1 DEF Bans!save
<1>2. ASSUME NEW d \in Devices, (\E ttl \in {0, 1} : Bans!ban(d, ttl)) \/ Bans!unban(d)
      PROVE  replaced' \in BOOLEAN /\ changes' \in 0..MaxChanges /\ deaths' \in 0..MaxDeaths
  BY <1>1, <1>2 DEF Bans!ban, Bans!unban
<1>3. ASSUME NEW d \in Devices, Bans!check(d) \/ Bans!Expire(d)
      PROVE  UNCHANGED <<replaced, changes, deaths>>
  BY <1>3 DEF Bans!check, Bans!Expire
<1>4. CASE Bans!Replace \/ Bans!Return
  <2>1. replaced' \in BOOLEAN /\ UNCHANGED <<changes, deaths>>
    BY <1>4, Zenon DEF Bans!Replace, Bans!Return
  <2> QED
    BY <2>1
<1>6. CASE Bans!Restart
  <2>1. deaths' \in 0..MaxDeaths
    BY <1>6 DEF Bans!Restart
  <2> QED
    BY <1>6, <2>1 DEF Bans!Restart
<1>5. CASE UNCHANGED Bans!banVars
  BY <1>5 DEF Bans!banVars
<1> QED
  BY <1>2, <1>3, <1>4, <1>5, <1>6 DEF Bans!Next

LEMMA InitBanTyped == MaxChanges \in Nat /\ MaxDeaths \in Nat /\ Bans!Init => BanTyped
<1> SUFFICES ASSUME MaxChanges \in Nat, MaxDeaths \in Nat, Bans!Init PROVE BanTyped
  OBVIOUS
<1>1. BanInv
  BY InitBanInv
<1>2. replaced \in BOOLEAN
  BY Zenon DEF Bans!Init
<1>3. changes = 0 /\ deaths = 0
  BY DEF Bans!Init
<1> QED
  BY <1>1, <1>2, <1>3 DEF BanTyped

LEMMA BanTypes == BanTyped => Bans!TypeOK
BY DEF BanTyped, BanInv, StoreOK, Save, Bans!TypeOK

-----------------------------------------------------------------------------
(* The types of the compliance guard, of the part that is it.               *)

\* What the leaves of a payload hold is one of what the scan tells apart.
PayloadsAreScanned == \A x \in Payloads : \A p \in DOMAIN x : x[p] \in Compliance!Holds

GuardTyped == part = "compliance" => Compliance!TypeOK /\ payload \in Payloads

LEMMA GuardTypes ==
    ASSUME PayloadsAreScanned
    PROVE  /\ ServicesInit => GuardTyped
           /\ GuardTyped /\ [ServicesNext]_allVars => GuardTyped'
<1>1. ServicesInit => GuardTyped
  BY DEF ServicesInit, Compliance!Init, GuardTyped, Compliance!TypeOK, PayloadsAreScanned
<1>2. ASSUME GuardTyped, part = "compliance", Compliance!evaluate PROVE Compliance!TypeOK' /\ payload' \in Payloads
  <2> DEFINE hit == {Compliance!FieldPath(p) : p \in Compliance!Matches(Compliance!PII)}
  <2>1. payload' = payload /\ payload \in Payloads /\ legal_basis' = legal_basis
    BY <1>2 DEF GuardTyped, Compliance!evaluate
  <2>2. \/ allowed' = "raised" /\ copy' = copy
        \/ allowed' \in {"yes", "no"} /\ copy' = Compliance!anonymize(hit)
    BY <1>2 DEF Compliance!evaluate
  <2> HIDE DEF hit
  <2>3. CASE allowed' = "raised" /\ copy' = copy
    BY <1>2, <2>1, <2>3 DEF GuardTyped, Compliance!TypeOK
  <2>4. CASE allowed' \in {"yes", "no"} /\ copy' = Compliance!anonymize(hit)
    <3>1. /\ DOMAIN copy' = DOMAIN payload
          /\ \A p \in DOMAIN payload : copy'[p] \in {"anon", payload[p]}
      BY <2>4 DEF Compliance!anonymize
    <3> QED
      BY <1>2, <2>1, <2>4, <3>1 DEF GuardTyped, Compliance!TypeOK, PayloadsAreScanned, Compliance!Holds
  <2> QED
    BY <2>2, <2>3, <2>4
<1>3. GuardTyped /\ [ServicesNext]_allVars => GuardTyped'
  <2> SUFFICES ASSUME GuardTyped, [ServicesNext]_allVars PROVE GuardTyped'
    OBVIOUS
  <2>1. CASE part = "compliance" /\ Compliance!evaluate /\ part' = part
    BY <1>2, <2>1 DEF GuardTyped
  <2>2. CASE UNCHANGED guardVars /\ part' = part
    BY <2>2 DEF guardVars, GuardTyped, Compliance!TypeOK
  <2> QED
    BY <2>1, <2>2 DEF ServicesNext, allVars
<1> QED
  BY <1>1, <1>3

-----------------------------------------------------------------------------
(* The types of blackhole synchronisation, for any number of operators.     *)

LEMMA NextHoleTypes ==
    ASSUME MaxOps \in Nat, MaxBreaks \in Nat
    PROVE  Blackhole!TypeOK /\ [Blackhole!Next]_(Blackhole!holeVars) => Blackhole!TypeOK'
<1> SUFFICES ASSUME Blackhole!TypeOK, [Blackhole!Next]_(Blackhole!holeVars) PROVE Blackhole!TypeOK'
  OBVIOUS
<1> USE DEF Blackhole!TypeOK, Blackhole!Holds
<1> DEFINE Mail == [what : {"valid", "expired", "none"}, from : Nodes]
<1>0. \A n \in Nodes : inbox[n] \in Seq(Mail)
  OBVIOUS
<1>1. ASSUME NEW n \in Nodes, NEW what \in {"ban", "unban"}, Blackhole!Call(n, what)
      PROVE  Blackhole!TypeOK'
  <2>1. ops' \in 0..MaxOps
    BY <1>1 DEF Blackhole!Call
  <2>2. op' \in [Nodes -> [what : {"none", "ban", "unban"}, step : {"key", "publish", "done"}]]
    BY <1>1 DEF Blackhole!Call
  <2> QED
    BY <1>1, <2>1, <2>2 DEF Blackhole!Call, Blackhole!Record
<1>2. ASSUME NEW n \in Nodes, Blackhole!SetKey(n) PROVE Blackhole!TypeOK'
  BY <1>2 DEF Blackhole!SetKey
<1>3. ASSUME NEW n \in Nodes, Blackhole!Publish(n) PROVE Blackhole!TypeOK'
  <2> DEFINE mail == [what |-> Blackhole!Record(op[n].what), from |-> n]
  <2>1. mail \in Mail
    BY DEF Blackhole!Record
  <2>2. \A m \in Nodes : inbox[m] \in Seq(Mail) /\ Append(inbox[m], mail) \in Seq(Mail)
    <3> HIDE DEF Mail, mail
    <3> QED
      BY <1>0, <2>1, Appended
  <2>3. op' \in [Nodes -> [what : {"none", "ban", "unban"}, step : {"key", "publish", "done"}]]
    BY <1>3 DEF Blackhole!Publish, Blackhole!NoOp
  <2>4. inbox' \in [Nodes -> Seq(Mail)]
    BY <1>3, <2>2 DEF Blackhole!Publish
  <2> QED
    BY <1>3, <2>3, <2>4 DEF Blackhole!Publish
<1>4. ASSUME NEW n \in Nodes, Blackhole!Subscribe(n) \/ Blackhole!Scan(n) \/ Blackhole!Apply(n)
      PROVE  Blackhole!TypeOK'
  BY <1>4 DEF Blackhole!Subscribe, Blackhole!Scan, Blackhole!Apply
<1>5. ASSUME NEW n \in Nodes, Blackhole!Receive(n) PROVE Blackhole!TypeOK'
  <2>1. inbox[n] \in Seq(Mail) /\ inbox[n] # <<>>
    BY <1>0, <1>5 DEF Blackhole!Receive
  <2>2. Head(inbox[n]) \in Mail /\ Tail(inbox[n]) \in Seq(Mail)
    <3> HIDE DEF Mail
    <3> QED
      BY <2>1, HeadTailProperties
  <2> QED
    BY <1>5, <2>2 DEF Blackhole!Receive
<1>6. ASSUME NEW n \in Nodes, NEW state \in {"off", "stopped"}, Blackhole!Leave(n, state)
      PROVE  Blackhole!TypeOK'
  <2>1. <<>> \in Seq(Mail)
    OBVIOUS
  <2> QED
    BY <1>6, <2>1 DEF Blackhole!Leave
<1>7. ASSUME NEW n \in Nodes, Blackhole!Start(n) \/ Blackhole!Evict(n) PROVE Blackhole!TypeOK'
  BY <1>7 DEF Blackhole!Start, Blackhole!Evict
<1>e. ASSUME NEW n \in Nodes, Blackhole!Abandon(n) \/ Blackhole!Die(n) PROVE Blackhole!TypeOK'
  <2>1. breaks' \in 0..MaxBreaks
    BY <1>e DEF Blackhole!Abandon, Blackhole!Die, Blackhole!EndEarly
  <2>2. silent' \in BOOLEAN /\ key' = key /\ ops' = ops
    BY <1>e, Zenon DEF Blackhole!Abandon, Blackhole!Die, Blackhole!EndEarly
  <2>3. op' \in [Nodes -> [what : {"none", "ban", "unban"}, step : {"key", "publish", "done"}]]
    <3>1. op' = [op EXCEPT ![n] = Blackhole!NoOp]
      BY <1>e, Zenon DEF Blackhole!Abandon, Blackhole!Die, Blackhole!EndEarly
    <3> QED
      BY <3>1 DEF Blackhole!NoOp
  <2>4. \/ UNCHANGED <<local, listener, found, inbox>>
        \/ /\ local' = [local EXCEPT ![n] = "none"] /\ listener' = [listener EXCEPT ![n] = "stopped"]
           /\ inbox' = [inbox EXCEPT ![n] = <<>>] /\ found' = [found EXCEPT ![n] = "none"]
    BY <1>e, Zenon DEF Blackhole!Abandon, Blackhole!Die
  <2>5. /\ local' \in [Nodes -> {"none", "valid", "expired"}] /\ found' \in [Nodes -> {"none", "valid", "expired"}]
        /\ listener' \in [Nodes -> {"stopped", "off", "scan", "apply", "on"}]
        /\ inbox' \in [Nodes -> Seq(Mail)]
    <3>1. inbox' = inbox \/ inbox' = [inbox EXCEPT ![n] = <<>>]
      BY <2>4
    <3>2. <<>> \in Seq(Mail)
      OBVIOUS
    <3>3. inbox \in [Nodes -> Seq(Mail)]
      OBVIOUS
    <3>4. inbox' \in [Nodes -> Seq(Mail)]
      <4> HIDE DEF Mail
      <4> QED
        BY <3>1, <3>2, <3>3
    <3> QED
      BY <2>4, <3>4
  <2> QED
    BY <2>1, <2>2, <2>3, <2>5
<1>8. CASE Blackhole!Expire
  <2>1. \A n \in Nodes : /\ Blackhole!Aged(local[n]) \in {"none", "valid", "expired"}
                         /\ Blackhole!Aged(found[n]) \in {"none", "valid", "expired"}
    BY DEF Blackhole!Aged
  <2>2. ASSUME NEW n \in Nodes
        PROVE  [i \in DOMAIN inbox[n] |-> [inbox[n][i] EXCEPT !.what = Blackhole!Aged(@)]] \in Seq(Mail)
    <3>1. /\ DOMAIN inbox[n] = 1..Len(inbox[n]) /\ Len(inbox[n]) \in Nat
          /\ \A i \in 1..Len(inbox[n]) : inbox[n][i] \in Mail
      <4> HIDE DEF Mail
      <4> QED
        BY <1>0, ElementOfSeq, LenProperties
    <3>2. \A mail \in Mail : [mail EXCEPT !.what = Blackhole!Aged(@)] \in Mail
      BY DEF Blackhole!Aged
    <3>3. \A i \in 1..Len(inbox[n]) : [inbox[n][i] EXCEPT !.what = Blackhole!Aged(@)] \in Mail
      BY <3>1, <3>2
    <3> QED
      BY <3>1, <3>3, IsASeq
  <2>3. PICK S \in SUBSET Nodes, gone \in BOOLEAN :
          /\ key' = (key /\ ~gone)
          /\ local' = [n \in Nodes |-> IF n \in S THEN Blackhole!Aged(local[n]) ELSE local[n]]
          /\ found' = [n \in Nodes |-> IF n \in S THEN Blackhole!Aged(found[n]) ELSE found[n]]
          /\ inbox' = [n \in Nodes |->
                          IF n \notin S THEN inbox[n]
                          ELSE [i \in DOMAIN inbox[n] |-> [inbox[n][i] EXCEPT !.what = Blackhole!Aged(@)]]]
    BY <1>8, Zenon DEF Blackhole!Expire
  <2>4. inbox' \in [Nodes -> Seq(Mail)]
    BY <1>0, <2>2, <2>3
  <2>5. key' \in BOOLEAN
    BY <2>3, Zenon
  <2>6. local' \in [Nodes -> {"none", "valid", "expired"}] /\ found' \in [Nodes -> {"none", "valid", "expired"}]
    BY <2>1, <2>3
  <2>7. UNCHANGED <<op, listener, silent, ops, breaks>>
    BY <1>8, Zenon DEF Blackhole!Expire
  <2> QED
    BY <2>4, <2>5, <2>6, <2>7
<1>9. CASE UNCHANGED Blackhole!holeVars
  BY <1>9 DEF Blackhole!holeVars
<1> QED
  BY <1>1, <1>2, <1>3, <1>4, <1>5, <1>6, <1>7, <1>e, <1>8, <1>9
  DEF Blackhole!Next, Blackhole!Break, Blackhole!Stop

LEMMA InitHoleTypes == MaxOps \in Nat /\ MaxBreaks \in Nat /\ Blackhole!Init => Blackhole!TypeOK
<1> SUFFICES ASSUME MaxOps \in Nat, MaxBreaks \in Nat, Blackhole!Init PROVE Blackhole!TypeOK
  OBVIOUS
<1>1. MailOK
  BY InitHoleInv DEF HoleInv
<1>2. key \in BOOLEAN /\ silent \in BOOLEAN
  BY Zenon DEF Blackhole!Init
<1>3. ops = 0 /\ breaks = 0
  BY DEF Blackhole!Init
<1>4. ops \in 0..MaxOps /\ breaks \in 0..MaxBreaks
  BY <1>3
<1> QED
  BY <1>1, <1>2, <1>4, Zenon DEF MailOK, Message, Blackhole!TypeOK

-----------------------------------------------------------------------------
(* The types of the nexus bridge: what is pending stays a bag.              *)

LEMMA NexusSteps == [ServicesNext]_allVars => [Nexus!Next]_(Nexus!vars)
BY DEF ServicesNext, allVars, nexusVars, Nexus!vars

\* Bags of handlings that are joined, or lose one.
LEMMA JoinedBags ==
    ASSUME NEW B, NEW C, Nexus!IsABag(B), Nexus!IsABag(C) PROVE Nexus!IsABag(Nexus!(+)(B, C))
<1> DEFINE D == Nexus!(+)(B, C)
<1>1. D = [e \in DOMAIN B \cup DOMAIN C |->
              (IF e \in DOMAIN B THEN B[e] ELSE 0) + (IF e \in DOMAIN C THEN C[e] ELSE 0)]
  BY DEF Nexus!(+)
<1>2. /\ \A e \in DOMAIN B : B[e] \in Nat /\ B[e] > 0
      /\ \A e \in DOMAIN C : C[e] \in Nat /\ C[e] > 0
  BY DEF Nexus!IsABag
<1>3. \A e \in DOMAIN B \cup DOMAIN C : D[e] \in Nat /\ D[e] > 0
  BY <1>1, <1>2
<1> HIDE DEF D
<1>4. D \in [DOMAIN D -> {n \in Nat : n > 0}]
  BY <1>1, <1>3
<1> QED
  BY <1>4 DEF D, Nexus!IsABag

LEMMA ReducedBag ==
    ASSUME NEW B, NEW d, Nexus!IsABag(B) PROVE Nexus!IsABag(Nexus!(-)(B, Nexus!SetToBag({d})))
<1> DEFINE one == Nexus!SetToBag({d})
           less == [e \in DOMAIN B |-> IF e \in DOMAIN one THEN B[e] - one[e] ELSE B[e]]
           rest == {e \in DOMAIN less : less[e] > 0}
           D == Nexus!(-)(B, one)
<1>1. D = [e \in rest |-> less[e]]
  BY DEF Nexus!(-)
<1>2. \A e \in DOMAIN B : B[e] \in Nat
  BY DEF Nexus!IsABag
<1>3. \A e \in DOMAIN one : one[e] = 1
  BY DEF Nexus!SetToBag
<1>4. \A e \in rest : less[e] \in Nat /\ less[e] > 0
  BY <1>2, <1>3
<1> HIDE DEF D, rest, less
<1>5. D \in [DOMAIN D -> {n \in Nat : n > 0}]
  BY <1>1, <1>4
<1> QED
  BY <1>5 DEF D, Nexus!IsABag

LEMMA HandlingsAreBag ==
    ASSUME handlers \in [Modules -> Nat], Failing \subseteq Modules, NEW root, NEW source
    PROVE  Nexus!IsABag(Nexus!Handlings(root, source))
<1> DEFINE calls == {<<root, m, m = source>> : m \in {x \in Failing : handlers[x] > 0}}
           H == Nexus!Handlings(root, source)
<1>1. H = [d \in calls |-> handlers[d[2]]]
  BY DEF Nexus!Handlings
<1>2. \A d \in calls : handlers[d[2]] \in Nat /\ handlers[d[2]] > 0
  <2> SUFFICES ASSUME NEW d \in calls PROVE handlers[d[2]] \in Nat /\ handlers[d[2]] > 0
    OBVIOUS
  <2>1. PICK m \in Failing : handlers[m] > 0 /\ d = <<root, m, m = source>>
    OBVIOUS
  <2> QED
    BY <2>1
<1> HIDE DEF calls, H
<1>3. H \in [DOMAIN H -> {n \in Nat : n > 0}]
  BY <1>1, <1>2
<1> QED
  BY <1>3 DEF H, Nexus!IsABag

LEMMA PublishedBag ==
    ASSUME Nexus!TypeOK, Failing \subseteq Modules, NEW root, NEW source, Nexus!Publish(root, source)
    PROVE  Nexus!IsABag(pending')
BY JoinedBags, HandlingsAreBag DEF Nexus!TypeOK, Nexus!Publish

LEMMA TriggerTyped ==
    ASSUME Nexus!TypeOK, Failing \subseteq Modules, NEW i \in Nexus!Triggers, NEW source,
           Nexus!Trigger(i, source), was_up' \in {"up", "down", "unknown"}
    PROVE  Nexus!TypeOK'
<1>1. /\ activation' \in [Nexus!Triggers -> {"none", "suppressed", "alert", "start", "done"}]
      /\ active' \in BOOLEAN /\ cooling' \in BOOLEAN
      /\ UNCHANGED <<handlers, wrapper, starting, closing, stopping>>
  BY DEF Nexus!Trigger, Nexus!TypeOK, Nexus!busVars, Nexus!endVars
<1>2. Nexus!IsABag(pending')
  <2>1. Nexus!IsABag(pending) /\ handlers \in [Modules -> Nat]
    BY DEF Nexus!TypeOK
  <2>2. CASE Nexus!Publish(<<0, "event">>, source)
    BY <2>2, PublishedBag
  <2>3. CASE pending' = Nexus!(+)(Nexus!(+)(pending, Nexus!Handlings(<<0, "event">>, source)),
                                  Nexus!Handlings(<<i, "alert">>, "bridge"))
    BY <2>1, <2>3, HandlingsAreBag, JoinedBags
  <2> QED
    BY <2>2, <2>3 DEF Nexus!Trigger
<1> QED
  BY <1>1, <1>2 DEF Nexus!TypeOK

LEMMA NextNexusTypes ==
    ASSUME Failing \subseteq Modules
    PROVE  Nexus!TypeOK /\ [Nexus!Next]_(Nexus!vars) => Nexus!TypeOK'
<1> SUFFICES ASSUME Nexus!TypeOK, [Nexus!Next]_(Nexus!vars) PROVE Nexus!TypeOK'
  OBVIOUS
<1> DEFINE Triggers == Nexus!Triggers
<1>0. Nexus!IsABag(pending) /\ handlers \in [Modules -> Nat]
  BY DEF Nexus!TypeOK
<1>1. ASSUME Nexus!HandleEvent PROVE Nexus!TypeOK'
  <2>1. PICK d : Nexus!OnEvent(d)
    BY <1>1 DEF Nexus!HandleEvent
  <2>2. Nexus!IsABag(Nexus!(-)(pending, Nexus!SetToBag({d})))
    BY <1>0, ReducedBag
  <2>3. Nexus!IsABag(pending')
    BY <1>0, <2>1, <2>2, HandlingsAreBag, JoinedBags DEF Nexus!OnEvent
  <2> QED
    BY <2>1, <2>3 DEF Nexus!OnEvent, Nexus!TypeOK, Nexus!busVars, Nexus!endVars
<1>2. ASSUME NEW i \in Triggers, Nexus!Alerted(i) \/ Nexus!Activated(i) PROVE Nexus!TypeOK'
  BY <1>2 DEF Nexus!Alerted, Nexus!Activated, Nexus!TypeOK, Nexus!busVars, Nexus!endVars
<1>3. ASSUME NEW i \in Triggers, NEW m \in Modules, Nexus!Start(i, m) PROVE Nexus!TypeOK'
  <2>1. /\ handlers' \in [Modules -> Nat]
        /\ wrapper' \in [Modules -> {"idle", "starting", "running", "error", "stopped"}]
    BY <1>0, <1>3 DEF Nexus!Start, Nexus!TypeOK
  <2>2. starting' \in [Triggers -> [Modules -> {"todo", "start", "announce"}]]
    BY <1>3 DEF Nexus!Start, Nexus!TypeOK
  <2> QED
    BY <1>3, <2>1, <2>2 DEF Nexus!Start, Nexus!TypeOK, Nexus!endVars
<1>4. ASSUME NEW i \in Triggers, NEW m \in Modules, Nexus!Started(i, m) PROVE Nexus!TypeOK'
  <2>1. Nexus!IsABag(pending')
    BY <1>4, PublishedBag DEF Nexus!Started
  <2>2. wrapper' \in [Modules -> {"idle", "starting", "running", "error", "stopped"}]
    BY <1>4 DEF Nexus!Started, Nexus!TypeOK
  <2>3. starting' \in [Triggers -> [Modules -> {"todo", "start", "announce"}]]
    BY <1>4 DEF Nexus!Started, Nexus!TypeOK
  <2> QED
    BY <1>4, <2>1, <2>2, <2>3 DEF Nexus!Started, Nexus!TypeOK, Nexus!endVars
<1>5. ASSUME NEW i \in Triggers, Nexus!ProbeDown(i) \/ Nexus!Threat(i) PROVE Nexus!TypeOK'
  BY <1>5, TriggerTyped DEF Nexus!ProbeDown, Nexus!Threat, Nexus!TypeOK
<1>6. ASSUME Nexus!ProbeUp PROVE Nexus!TypeOK'
  <2>1. Nexus!IsABag(pending')
    BY <1>6, PublishedBag DEF Nexus!ProbeUp
  <2> QED
    BY <1>6, <2>1 DEF Nexus!ProbeUp, Nexus!TypeOK, Nexus!busVars, Nexus!endVars
<1>7. ASSUME Nexus!CooldownOver \/ Nexus!Shutdown \/ Nexus!Deactivated PROVE Nexus!TypeOK'
  BY <1>7 DEF Nexus!CooldownOver, Nexus!Shutdown, Nexus!Deactivated, Nexus!TypeOK,
              Nexus!busVars, Nexus!endVars
<1>8. ASSUME NEW m \in Modules, Nexus!Stop(m) PROVE Nexus!TypeOK'
  <2>1. handlers' \in [Modules -> Nat]
    BY <1>0, <1>8 DEF Nexus!Stop
  <2>2. stopping' \in [Modules -> {"todo", "stop", "announce"}]
    BY <1>8 DEF Nexus!Stop, Nexus!TypeOK
  <2> QED
    BY <1>8, <2>1, <2>2 DEF Nexus!Stop, Nexus!TypeOK
<1>9. ASSUME NEW m \in Modules, Nexus!Stopped(m) PROVE Nexus!TypeOK'
  <2>1. Nexus!IsABag(pending')
    BY <1>9, PublishedBag DEF Nexus!Stopped
  <2> QED
    BY <1>9, <2>1 DEF Nexus!Stopped, Nexus!TypeOK
<1>10. CASE UNCHANGED Nexus!vars
  BY <1>10 DEF Nexus!vars, Nexus!TypeOK
<1> QED
  BY <1>1, <1>2, <1>3, <1>4, <1>5, <1>6, <1>7, <1>8, <1>9, <1>10 DEF Nexus!Next

LEMMA InitNexusTypes == Nexus!Init => Nexus!TypeOK
<1> SUFFICES ASSUME Nexus!Init PROVE Nexus!TypeOK
  OBVIOUS
<1>1. Nexus!IsABag(Nexus!EmptyBag)
  BY DEF Nexus!IsABag, Nexus!EmptyBag, Nexus!SetToBag
<1>2. Nexus!IsABag(pending)
  BY <1>1 DEF Nexus!Init
<1> QED
  BY <1>2 DEF Nexus!Init, Nexus!TypeOK

-----------------------------------------------------------------------------
(* The types of the self-healing patcher.                                   *)

ImmuneConstants ==
    Guarded # {} /\ MaxAnomalies \in Nat /\ ProbeSuccesses \in Nat /\ MaxCancels \in Nat

LEMMA DoesTyped ==
    ASSUME Immune!TypeOK, ImmuneConstants, NEW t \in Tasks, NEW m \in Guarded,
           NEW d \in {"idle", "call", "lock", "cascade"}, Immune!Does(t, m, d)
    PROVE  /\ calling' \in [Tasks -> Guarded]
           /\ doing' \in [Tasks -> {"idle", "call", "lock", "cascade"}]
<1>1. Immune!Unused \in Guarded
  BY DEF ImmuneConstants, Immune!Unused
<1> QED
  BY <1>1 DEF Immune!Does, Immune!TypeOK

LEMMA NextImmuneTypes ==
    ASSUME ImmuneConstants
    PROVE  Immune!TypeOK /\ [Immune!Next]_(Immune!immuneVars) => Immune!TypeOK'
<1> SUFFICES ASSUME Immune!TypeOK, [Immune!Next]_(Immune!immuneVars) PROVE Immune!TypeOK'
  OBVIOUS
<1> USE DEF Immune!lockVars, Immune!taskVars
<1>1. ASSUME NEW t \in Tasks, NEW m \in Guarded, Immune!Call(t, m) PROVE Immune!TypeOK'
  BY <1>1, DoesTyped DEF Immune!Call, Immune!admit, Immune!TypeOK, ImmuneConstants
<1>2. ASSUME NEW t \in Tasks, Immune!Success(t) PROVE Immune!TypeOK'
  <2>1. calling[t] \in Guarded
    BY DEF Immune!TypeOK
  <2>2. probe_ok' \in [Guarded -> 0..ProbeSuccesses] /\ anomalies' \in [Guarded -> 0..MaxAnomalies]
    BY <1>2, <2>1 DEF Immune!Success, Immune!TypeOK, ImmuneConstants
  <2> QED
    BY <1>2, <2>1, <2>2, DoesTyped DEF Immune!Success, Immune!TypeOK
<1>3. ASSUME NEW t \in Tasks, Immune!Anomaly(t) PROVE Immune!TypeOK'
  <2>1. calling[t] \in Guarded
    BY DEF Immune!TypeOK
  <2>2. anomalies' \in [Guarded -> 0..MaxAnomalies]
    BY <1>3, <2>1 DEF Immune!Anomaly, Immune!TypeOK, ImmuneConstants
  <2>3. \E d \in {"idle", "lock"} : Immune!Does(t, calling[t], d)
    BY <1>3 DEF Immune!Anomaly
  <2> QED
    BY <1>3, <2>1, <2>2, <2>3, DoesTyped DEF Immune!Anomaly, Immune!TypeOK
<1>4. ASSUME NEW t \in Tasks, NEW m \in Guarded, Immune!Mismatch(t, m) PROVE Immune!TypeOK'
  BY <1>4, DoesTyped DEF Immune!Mismatch, Immune!TypeOK
<1>5. ASSUME NEW t \in Tasks, Immune!Lock(t) \/ Immune!Unlock(t) \/ Immune!Cancel(t) PROVE Immune!TypeOK'
  <2>1. calling[t] \in Guarded
    BY DEF Immune!TypeOK
  <2>2. \E d \in {"idle", "cascade"} : Immune!Does(t, calling[t], d)
    BY <1>5 DEF Immune!Lock, Immune!Unlock, Immune!Cancel
  <2>3. cancels' \in 0..MaxCancels
    BY <1>5 DEF Immune!Lock, Immune!Unlock, Immune!Cancel, Immune!TypeOK, ImmuneConstants
  <2> QED
    BY <1>5, <2>1, <2>2, <2>3, DoesTyped DEF Immune!Lock, Immune!Unlock, Immune!Cancel, Immune!TypeOK
<1>6. ASSUME NEW t \in Tasks, NEW m \in Guarded, Immune!Visit(t, m) PROVE Immune!TypeOK'
  <2>1. Immune!Dependents(m) \subseteq Guarded
    BY DEF Immune!Dependents
  <2>2. cooled' \in [Guarded -> BOOLEAN] /\ health' \in [Guarded -> {"healthy", "quarantined", "probing"}]
    BY <1>6, Zenon DEF Immune!Visit, Immune!TypeOK
  <2>3. probe_ok' \in [Guarded -> 0..ProbeSuccesses]
    BY <1>6 DEF Immune!Visit, Immune!TypeOK, ImmuneConstants
  <2> QED
    BY <1>6, <2>1, <2>2, <2>3 DEF Immune!Visit, Immune!TypeOK
<1>7. ASSUME NEW m \in Guarded, Immune!Release(m) PROVE Immune!TypeOK'
  BY <1>7 DEF Immune!Release, Immune!TypeOK, ImmuneConstants
<1>8. ASSUME NEW m \in Guarded, Immune!CooldownOver(m) PROVE Immune!TypeOK'
  BY <1>8 DEF Immune!CooldownOver, Immune!TypeOK
<1>10. ASSUME NEW m \in Guarded, Immune!WindowOver(m) PROVE Immune!TypeOK'
  BY <1>10 DEF Immune!WindowOver, Immune!TypeOK, ImmuneConstants
<1>9. CASE UNCHANGED Immune!immuneVars
  BY <1>9 DEF Immune!immuneVars, Immune!TypeOK
<1> QED
  BY <1>1, <1>2, <1>3, <1>4, <1>5, <1>6, <1>7, <1>8, <1>9, <1>10 DEF Immune!Next

LEMMA InitImmuneTypes == ImmuneConstants /\ Immune!Init => Immune!TypeOK
BY DEF ImmuneConstants, Immune!Init, Immune!TypeOK, Immune!Unused

-----------------------------------------------------------------------------
(* The types of external agents.                                            *)

AgentConstants ==
    /\ NumVersions \in Nat \ {0} /\ MaxAttempts \in Nat \ {0} /\ HalfOpenMax \in Nat \ {0}
    /\ FailureThreshold \in Nat /\ MaxLost \in Nat

BreakerOK ==
    /\ circuit \in {"closed", "open", "half_open"}
    /\ failure_count \in 0..FailureThreshold
    /\ half_open_calls \in 0..HalfOpenMax
    /\ recovered \in BOOLEAN /\ trials \subseteq Callers

\* A caller on its way to an attempt has one left, and a version to ask for.
CallersTyped ==
    /\ phase \in [Callers -> {"idle", "auth", "check", "call", "sleep"}]
    /\ tries \in [Callers -> 0..MaxAttempts]
    /\ tried \in [Callers -> SUBSET Agents!Versions]
    /\ known \in [Callers -> 0..NumVersions]
    /\ \A c \in Callers : phase[c] \in {"idle", "auth", "check"} => tries[c] < MaxAttempts
    /\ \A c \in Callers : tried[c] # Agents!Versions

OthersTyped ==
    /\ token \in BOOLEAN /\ fetching \subseteq Callers
    /\ negotiated \in 0..NumVersions /\ lost \in 0..MaxLost

AgentTyped == AgentInv /\ BreakerOK /\ CallersTyped /\ OthersTyped

LEMMA AgentTypes == AgentTyped => Agents!TypeOK
BY DEF AgentTyped, BreakerOK, CallersTyped, OthersTyped, Agents!TypeOK

LEMMA InitAgentTyped == AgentConstants /\ Agents!Init => AgentTyped
<1> SUFFICES ASSUME AgentConstants, Agents!Init PROVE BreakerOK /\ CallersTyped /\ OthersTyped
  BY InitAgentInv DEF AgentTyped
<1>1. 1 \in Agents!Versions
  BY DEF AgentConstants, Agents!Versions
<1>0. 0 \in 0..FailureThreshold /\ 0 \in 0..HalfOpenMax /\ 0 \in 0..NumVersions /\ 0 \in 0..MaxLost
  BY DEF AgentConstants
<1>2. BreakerOK
  <2>1. circuit = "closed" /\ failure_count = 0 /\ half_open_calls = 0 /\ recovered = FALSE /\ trials = {}
    BY DEF Agents!Init
  <2> QED
    BY <1>0, <2>1 DEF BreakerOK
<1>3. CallersTyped
  <2>1. \A c \in Callers : tries[c] = 0 /\ tried[c] = {}
    BY DEF Agents!Init
  <2>2. 0 < MaxAttempts /\ 0 \in 0..MaxAttempts /\ 0 \in 0..NumVersions
    BY DEF AgentConstants
  <2> QED
    BY <1>1, <2>1, <2>2 DEF Agents!Init, CallersTyped
<1>4. OthersTyped
  <2>1. token = FALSE /\ fetching = {} /\ negotiated = 0 /\ lost = 0
    BY DEF Agents!Init
  <2> QED
    BY <1>0, <2>1 DEF OthersTyped
<1> QED
  BY <1>2, <1>3, <1>4

LEMMA CurrentIsVersion ==
    ASSUME AgentConstants, CallersTyped, NEW c \in Callers
    PROVE  Agents!Current(c) \in Agents!Versions /\ Agents!Current(c) \in 0..NumVersions
<1>1. known[c] # 0 => known[c] \in Agents!Versions
  BY DEF CallersTyped, Agents!Versions, AgentConstants
<1>2. \E v \in Agents!Versions \ tried[c] : \A w \in Agents!Versions \ tried[c] : v <= w
  <2> DEFINE left == Agents!Versions \ tried[c]
  <2>1. left \subseteq Nat
    BY DEF Agents!Versions
  <2>2. left # {}
    BY DEF CallersTyped
  <2> HIDE DEF left
  <2>3. \E v \in left : \A w \in left : v <= w
    BY <2>1, <2>2, SmallestExists
  <2> QED
    BY <2>3 DEF left
<1>3. Agents!Current(c) \in Agents!Versions
  BY <1>1, <1>2 DEF Agents!Current
<1> QED
  BY <1>3 DEF Agents!Versions

LEMMA FinishTyped ==
    ASSUME AgentConstants, CallersTyped, NEW c \in Callers, Agents!Finish(c)
    PROVE  CallersTyped'
<1>1. Agents!Versions # {}
  BY DEF AgentConstants, Agents!Versions
<1>2. Agents!Versions' = Agents!Versions
  BY DEF Agents!Versions
<1> QED
  BY <1>1, <1>2 DEF AgentConstants, CallersTyped, Agents!Finish, Agents!Goto

\* A caller that goes on, to where it needs no attempt or has one.
LEMMA GotoTyped ==
    ASSUME CallersTyped, NEW c \in Callers,
           NEW p \in {"auth", "check", "call", "sleep"}, Agents!Goto(c, p),
           UNCHANGED <<tries, tried, known>>, p \in {"auth", "check"} => tries[c] < MaxAttempts
    PROVE  CallersTyped'
BY DEF CallersTyped, Agents!Goto, Agents!Versions

LEMMA ReportTyped ==
    ASSUME AgentConstants, BreakerOK, Agents!on_success \/ Agents!on_failure PROVE BreakerOK'
<1>1. Agents!Bumped \in 0..FailureThreshold
  BY DEF Agents!Bumped, BreakerOK, AgentConstants
<1>2. failure_count' \in 0..FailureThreshold
  BY <1>1 DEF Agents!on_success, Agents!on_failure, AgentConstants
<1> QED
  BY <1>2 DEF Agents!on_success, Agents!on_failure, BreakerOK

LEMMA NextAgentTyped ==
    ASSUME AgentConstants
    PROVE  AgentTyped /\ [Agents!Next]_(Agents!agentVars) => AgentTyped'
<1> SUFFICES ASSUME AgentInv, BreakerOK, CallersTyped, OthersTyped, [Agents!Next]_(Agents!agentVars)
             PROVE  BreakerOK' /\ CallersTyped' /\ OthersTyped'
  BY NextAgentInv DEF AgentTyped
<1> USE DEF Agents!breaker, Agents!tokens, Agents!caller
<1>0. /\ \A c \in fetching : phase[c] = "auth"
      /\ \A c \in Callers : phase[c] \in {"idle", "auth", "check"} => tries[c] < MaxAttempts
      /\ \A c \in Callers : Agents!Current(c) \in 0..NumVersions
  BY CurrentIsVersion DEF AgentInv, CallersOK, CallersTyped
<1>1. ASSUME NEW c \in Callers, Agents!Ask(c) PROVE BreakerOK' /\ CallersTyped' /\ OthersTyped'
  <2>1. {} # Agents!Versions
    BY DEF AgentConstants, Agents!Versions
  <2>2. CallersTyped'
    BY <1>1, <2>1 DEF Agents!Ask, Agents!Goto, CallersTyped, OthersTyped, Agents!Versions
  <2> QED
    BY <1>1, <2>2 DEF Agents!Ask, BreakerOK, OthersTyped
<1>2. ASSUME NEW c \in Callers, Agents!UseToken(c) \/ Agents!FetchToken(c)
      PROVE  BreakerOK' /\ CallersTyped' /\ OthersTyped'
  <2>1. CallersTyped'
    <3>1. CASE Agents!UseToken(c)
      BY <1>0, <3>1, GotoTyped DEF Agents!UseToken
    <3>2. CASE Agents!FetchToken(c)
      BY <3>2 DEF Agents!FetchToken, CallersTyped, Agents!Versions
    <3> QED
      BY <1>2, <3>1, <3>2
  <2> QED
    BY <1>2, <2>1 DEF Agents!UseToken, Agents!FetchToken, BreakerOK, OthersTyped
<1>3. ASSUME NEW c \in Callers, Agents!TokenArrives(c) PROVE BreakerOK' /\ CallersTyped' /\ OthersTyped'
  <2>1. tries[c] < MaxAttempts
    BY <1>0, <1>3 DEF Agents!TokenArrives
  <2>2. CallersTyped'
    BY <1>3, <2>1, GotoTyped, FinishTyped DEF Agents!TokenArrives
  <2> QED
    BY <1>3, <2>2 DEF Agents!TokenArrives, BreakerOK, OthersTyped
<1>4. ASSUME NEW c \in Callers, Agents!Attempt(c) PROVE BreakerOK' /\ CallersTyped' /\ OthersTyped'
  <2>1. OthersTyped'
    BY <1>4 DEF Agents!Attempt, OthersTyped
  <2>2. CASE Agents!Finish(c) /\ UNCHANGED Agents!breaker
    BY <2>1, <2>2, FinishTyped DEF BreakerOK
  <2>3. CASE /\ ~Agents!Refused /\ Agents!before_call(c) /\ Agents!Goto(c, "call")
             /\ tries' = [tries EXCEPT ![c] = @ + 1] /\ UNCHANGED <<tried, known>>
    <3>1. tries[c] + 1 \in 0..MaxAttempts
      BY <1>0, <1>4 DEF Agents!Attempt, CallersTyped, AgentConstants
    <3>2. CallersTyped'
      BY <2>3, <3>1 DEF CallersTyped, Agents!Goto, Agents!Versions
    <3>3. circuit' = "half_open" => Agents!Slots + 1 \in 0..HalfOpenMax
      BY <2>3 DEF Agents!before_call, Agents!Refused, Agents!Slots, Agents!Trying, BreakerOK, AgentConstants
    <3>4. BreakerOK'
      BY <2>3, <3>3 DEF Agents!before_call, BreakerOK
    <3> QED
      BY <2>1, <3>2, <3>4
  <2> QED
    BY <1>4, <2>2, <2>3 DEF Agents!Attempt
<1>5. ASSUME NEW c \in Callers, Agents!TransportError(c) \/ Agents!RetryableStatus(c) \/ Agents!Reply(c)
      PROVE  BreakerOK' /\ CallersTyped' /\ OthersTyped'
  <2>1. BreakerOK'
    BY <1>5, ReportTyped DEF Agents!TransportError, Agents!RetryableStatus, Agents!Reply
  <2>2. CallersTyped'
    BY <1>5, GotoTyped, FinishTyped DEF Agents!TransportError, Agents!RetryableStatus, Agents!Reply
  <2>3. OthersTyped'
    BY <1>0, <1>5 DEF Agents!TransportError, Agents!RetryableStatus, Agents!Reply, OthersTyped
  <2> QED
    BY <2>1, <2>2, <2>3
<1>6. ASSUME NEW c \in Callers, Agents!Wake(c) PROVE BreakerOK' /\ CallersTyped' /\ OthersTyped'
  <2>1. CallersTyped'
    BY <1>6, GotoTyped, FinishTyped DEF Agents!Wake
  <2> QED
    BY <1>6, <2>1 DEF Agents!Wake, BreakerOK, OthersTyped
<1>7. ASSUME NEW c \in Callers, Agents!Missing(c) PROVE BreakerOK' /\ CallersTyped' /\ OthersTyped'
  <2> DEFINE asked == tried[c] \cup {Agents!Current(c)}
  <2>1. BreakerOK'
    BY <1>7, ReportTyped DEF Agents!Missing
  <2>2. OthersTyped'
    BY <1>7 DEF Agents!Missing, OthersTyped
  <2>3. asked \subseteq Agents!Versions
    BY CurrentIsVersion DEF CallersTyped
  <2>4. CallersTyped'
    <3>1. CASE Agents!Finish(c)
      BY <3>1, FinishTyped
    <3>2. CASE /\ asked # Agents!Versions
               /\ Agents!Goto(c, "auth")
               /\ tried' = [tried EXCEPT ![c] = asked]
               /\ tries' = [tries EXCEPT ![c] = 0]
               /\ UNCHANGED known
      <4> HIDE DEF asked
      <4> QED
        BY <2>3, <3>2 DEF CallersTyped, Agents!Goto, Agents!Versions, AgentConstants
    <3> QED
      BY <1>7, <3>1, <3>2 DEF Agents!Missing
  <2> QED
    BY <2>1, <2>2, <2>4
<1>8. ASSUME NEW c \in Callers, Agents!Lose(c) PROVE BreakerOK' /\ CallersTyped' /\ OthersTyped'
  <2>1. CallersTyped'
    BY <1>8, FinishTyped DEF Agents!Lose
  <2> QED
    BY <1>8, <2>1 DEF Agents!Lose, BreakerOK, OthersTyped, AgentConstants
<1>9. CASE Agents!Recovery \/ Agents!TokenExpires \/ UNCHANGED Agents!agentVars
  <2>1. CallersTyped'
    BY <1>9 DEF Agents!Recovery, Agents!TokenExpires, Agents!agentVars, CallersTyped, Agents!Versions
  <2> QED
    BY <1>9, <2>1 DEF Agents!Recovery, Agents!TokenExpires, Agents!agentVars, BreakerOK, OthersTyped
<1> QED
  BY <1>1, <1>2, <1>3, <1>4, <1>5, <1>6, <1>7, <1>8, <1>9 DEF Agents!Next, Agents!Step

-----------------------------------------------------------------------------
(* Functions defined by recursion on the numbers up to a bound.             *)

\* What holds first and is kept from one to the next holds of all.
LEMMA KeptUpTo ==
    ASSUME NEW bound \in Nat, NEW f, NEW S, f[0] \in S,
           \A i \in 1..bound : f[i - 1] \in S => f[i] \in S
    PROVE  \A i \in 0..bound : f[i] \in S
<1> DEFINE T == {i \in 0..bound : f[i] \notin S}
<1> SUFFICES ASSUME T # {} PROVE FALSE
  OBVIOUS
<1>1. T \subseteq Nat
  OBVIOUS
<1>2. PICK m \in T : \A i \in T : m <= i
  <2> HIDE DEF T
  <2> QED
    BY <1>1, SmallestExists
<1>3. m \in 1..bound /\ m - 1 \in 0..bound /\ ~(m <= m - 1)
  OBVIOUS
<1>4. m - 1 \notin T
  <2> HIDE DEF T
  <2> QED
    BY <1>2, <1>3
<1> QED
  BY <1>3, <1>4

\* One that follows a step exists, up to any bound.
Follows(f, start, next, bound) ==
    /\ f = [i \in 0..bound |-> f[i]]
    /\ \A i \in 0..bound : f[i] = IF i = 0 THEN start ELSE next[<<i, f[i - 1]>>]

LEMMA FollowerExists ==
    ASSUME NEW bound \in Nat, NEW start, NEW next
    PROVE  \E f : Follows(f, start, next, bound)
<1> DEFINE T == {b \in 0..bound : ~ \E f : Follows(f, start, next, b)}
<1> SUFFICES ASSUME T # {} PROVE FALSE
  OBVIOUS
<1>1. T \subseteq Nat
  OBVIOUS
<1>2. PICK m \in T : \A i \in T : m <= i
  <2> HIDE DEF T
  <2> QED
    BY <1>1, SmallestExists
<1>3. m \in 0..bound /\ m \in Nat /\ ~(m <= m - 1) /\ ~ \E f : Follows(f, start, next, m)
  OBVIOUS
<1>4. CASE m = 0
  <2>1. Follows([i \in 0..0 |-> start], start, next, 0)
    BY DEF Follows
  <2> QED
    BY <1>3, <1>4, <2>1
<1>5. CASE m # 0
  <2>1. m - 1 \in 0..bound /\ m - 1 \notin T
    <3>1. m - 1 \in 0..bound
      BY <1>3, <1>5
    <3> HIDE DEF T
    <3> QED
      BY <1>2, <1>3, <3>1
  <2>2. PICK f : Follows(f, start, next, m - 1)
    BY <2>1
  <2> DEFINE g == [i \in 0..m |-> IF i = m THEN next[<<m, f[m - 1]>>] ELSE f[i]]
  <2>3. \A i \in 0..(m - 1) : f[i] = IF i = 0 THEN start ELSE next[<<i, f[i - 1]>>]
    BY <2>2 DEF Follows
  <2>4. \A i \in 0..m : g[i] = IF i = 0 THEN start ELSE next[<<i, g[i - 1]>>]
    <3> SUFFICES ASSUME NEW i \in 0..m PROVE g[i] = IF i = 0 THEN start ELSE next[<<i, g[i - 1]>>]
      OBVIOUS
    <3>1. i # 0 => i - 1 \in 0..m /\ i - 1 # m /\ g[i - 1] = f[i - 1]
      BY <1>3
    <3>2. g[i] = IF i = m THEN next[<<m, f[m - 1]>>] ELSE f[i]
      OBVIOUS
    <3>3. i = m \/ i \in 0..(m - 1)
      BY <1>3
    <3> HIDE DEF g
    <3>4. CASE i = m
      BY <1>5, <3>1, <3>2, <3>4
    <3>5. CASE i # m
      BY <2>3, <3>1, <3>2, <3>3, <3>5
    <3> QED
      BY <3>4, <3>5
  <2>5. g = [i \in 0..m |-> g[i]]
    OBVIOUS
  <2> HIDE DEF g
  <2> QED
    BY <1>3, <2>4, <2>5 DEF Follows
<1> QED
  BY <1>4, <1>5

-----------------------------------------------------------------------------
(* The types of the sentinel.                                               *)

SentinelConstants ==
    /\ IdleOutlastsWindow
    /\ Quarantine \in Nat /\ MaxQuarantine \in Nat /\ MaxStrikes \in Nat /\ MaxOpen \in Nat

LEMMA DoubledType ==
    ASSUME SentinelConstants PROVE \A i \in 0..MaxStrikes : Guard!Doubled[i] \in Nat
<1> DEFINE Rec(f) == [i \in 0..MaxStrikes |-> IF i = 0 THEN Quarantine ELSE 2 * f[i - 1]]
           next == [p \in (1..MaxStrikes) \X Nat |-> 2 * p[2]]
           h == CHOOSE f : f = Rec(f)
<1>0. MaxStrikes \in Nat /\ Quarantine \in Nat
  BY DEF SentinelConstants
<1>1. Guard!Doubled = h
  BY DEF Guard!Doubled
<1>2. PICK g : Follows(g, Quarantine, next, MaxStrikes)
  <2> HIDE DEF next
  <2> QED
    BY <1>0, FollowerExists
<1>3. \A i \in 0..MaxStrikes : g[i] = IF i = 0 THEN Quarantine ELSE next[<<i, g[i - 1]>>]
  <2> HIDE DEF next
  <2> QED
    BY <1>2, Zenon DEF Follows
<1>4. \A i \in 1..MaxStrikes : g[i - 1] \in Nat => g[i] \in Nat /\ g[i] = 2 * g[i - 1]
  <2> SUFFICES ASSUME NEW i \in 1..MaxStrikes, g[i - 1] \in Nat
               PROVE  g[i] \in Nat /\ g[i] = 2 * g[i - 1]
    OBVIOUS
  <2>1. i \in 0..MaxStrikes /\ i # 0
    OBVIOUS
  <2>2. next[<<i, g[i - 1]>>] = 2 * g[i - 1]
    OBVIOUS
  <2> HIDE DEF next
  <2> QED
    BY <1>3, <2>1, <2>2
<1>5. g[0] = Quarantine /\ g[0] \in Nat
  <2>1. 0 \in 0..MaxStrikes
    BY <1>0
  <2> HIDE DEF next
  <2> QED
    BY <1>0, <1>3, <2>1
<1>6. \A i \in 0..MaxStrikes : g[i] \in Nat
  <2> HIDE DEF next
  <2> QED
    BY <1>0, <1>4, <1>5, KeptUpTo
<1>7. g = Rec(g)
  <2>1. \A i \in 0..MaxStrikes : g[i] = IF i = 0 THEN Quarantine ELSE 2 * g[i - 1]
    <3> SUFFICES ASSUME NEW i \in 0..MaxStrikes
                 PROVE  g[i] = IF i = 0 THEN Quarantine ELSE 2 * g[i - 1]
      OBVIOUS
    <3>1. CASE i = 0
      BY <1>2, <3>1 DEF Follows
    <3>2. CASE i # 0
      <4>1. i \in 1..MaxStrikes /\ i - 1 \in 0..MaxStrikes
        BY <1>0, <3>2
      <4> QED
        BY <1>4, <1>6, <3>2, <4>1
    <3> QED
      BY <3>1, <3>2
  <2>2. g = [i \in 0..MaxStrikes |-> g[i]]
    BY <1>2 DEF Follows
  <2> QED
    BY <2>1, <2>2, Zenon
<1>8. h = Rec(h)
  <2> HIDE DEF Rec
  <2> QED
    BY <1>7
<1> HIDE DEF h
<1>9. \A i \in 0..MaxStrikes : h[i] = IF i = 0 THEN Quarantine ELSE 2 * h[i - 1]
  BY <1>8, Zenon
<1>10. h[0] \in Nat /\ \A i \in 1..MaxStrikes : h[i - 1] \in Nat => h[i] \in Nat
  BY <1>0, <1>9
<1> QED
  BY <1>0, <1>1, <1>10, KeptUpTo

LEMMA SmallerOfTwo ==
    ASSUME NEW i \in Nat, NEW b \in Nat PROVE Guard!Min({i, b}) \in 0..b
BY DEF Guard!Min

\* Trimming leaves ages.
LEMMA TrimmedAges ==
    ASSUME IdleOutlastsWindow, NEW s \in Seq(Guard!Ages)
    PROVE  Guard!_trim_window(s) \in Seq(Guard!Ages) /\ Guard!Noted(s) \in Seq(Guard!Ages)
<1>1. 0 \in Guard!Ages
  BY DEF Guard!Ages, IdleOutlastsWindow
<1>2. Append(s, 0) \in Seq(Guard!Ages)
  BY <1>1
<1> QED
  BY <1>2, TrimKeepsYoung DEF Guard!Noted

SentinelTyped == SentinelInv /\ Guard!TypeOK

LEMMA QuarantineTyped ==
    ASSUME SentinelConstants, Guard!TypeOK,
           Guard!_quarantine \/ UNCHANGED Guard!quarantineVars
    PROVE  quarantined' \in 0..MaxQuarantine /\ quarantine_strikes' \in 0..MaxStrikes
<1>1. quarantine_strikes + 1 \in Nat /\ Guard!Doubled[quarantine_strikes] \in Nat
  BY DoubledType DEF Guard!TypeOK
<1>2. /\ Guard!Min({quarantine_strikes + 1, MaxStrikes}) \in 0..MaxStrikes
      /\ Guard!Min({Guard!Doubled[quarantine_strikes], MaxQuarantine}) \in 0..MaxQuarantine
  BY <1>1, SmallerOfTwo DEF SentinelConstants
<1> QED
  BY <1>2 DEF Guard!_quarantine, Guard!quarantineVars, Guard!TypeOK

LEMMA NextSentinelTyped ==
    ASSUME SentinelConstants
    PROVE  SentinelTyped /\ [Guard!Next]_(Guard!sentinelVars) => SentinelTyped'
<1> SUFFICES ASSUME SentinelInv, Guard!TypeOK, [Guard!Next]_(Guard!sentinelVars)
             PROVE  /\ bad_times' \in [Guard!Kinds -> Seq(Guard!Ages)]
                    /\ quarantined' \in 0..MaxQuarantine
                    /\ quarantine_strikes' \in 0..MaxStrikes
                    /\ open' \in 0..MaxOpen
  BY NextSentinelInv DEF SentinelTyped, SentinelConstants, SentinelInv, Guard!TypeOK, Guard!Ages, Guard!Kinds
<1>0. /\ \A k \in Guard!Kinds : bad_times[k] \in Seq(Guard!Ages)
      /\ bad_times \in [Guard!Kinds -> Seq(Guard!Ages)]
      /\ quarantined \in 0..MaxQuarantine /\ quarantine_strikes \in 0..MaxStrikes /\ open \in 0..MaxOpen
      /\ IdleOutlastsWindow /\ MaxOpen \in Nat /\ MaxStrikes \in Nat /\ MaxQuarantine \in Nat
  BY DEF Guard!TypeOK, SentinelConstants
<1>1. CASE Guard!Tick
  <2>1. bad_times' \in [Guard!Kinds -> Seq(Guard!Ages)]
    BY <1>0, <1>1, AgedKeepsOrder DEF Guard!Tick
  <2> QED
    BY <1>0, <1>1, <2>1 DEF Guard!Tick
<1>2. CASE Guard!Suspicious \/ Guard!Burst
  BY <1>0, <1>2, QuarantineTyped DEF Guard!Suspicious, Guard!Burst
<1>3. CASE Guard!Admit
  BY <1>0, <1>3 DEF Guard!Admit, Guard!quarantineVars
<1>4. CASE Guard!Answer
  BY <1>0, <1>4 DEF Guard!Answer, Guard!quarantineVars
<1>5. ASSUME NEW k \in Guard!Kinds, Guard!BadAnswer(k)
      PROVE  /\ bad_times' \in [Guard!Kinds -> Seq(Guard!Ages)]
             /\ quarantined' \in 0..MaxQuarantine
             /\ quarantine_strikes' \in 0..MaxStrikes
             /\ open' \in 0..MaxOpen
  <2>1. Guard!Noted(bad_times[k]) \in Seq(Guard!Ages)
    BY <1>0, TrimmedAges
  <2>2. bad_times' \in [Guard!Kinds -> Seq(Guard!Ages)]
    BY <1>0, <1>5, <2>1 DEF Guard!BadAnswer
  <2>3. quarantined' \in 0..MaxQuarantine /\ quarantine_strikes' \in 0..MaxStrikes
    BY <1>5, QuarantineTyped DEF Guard!BadAnswer
  <2>4. open' \in 0..MaxOpen
    BY <1>0, <1>5 DEF Guard!BadAnswer
  <2> QED
    BY <2>2, <2>3, <2>4
<1>6. CASE Guard!Decay
  BY <1>0, <1>6 DEF Guard!Decay
<1>7. CASE Guard!Prune
  <2>1. <<>> \in Seq(Guard!Ages)
    OBVIOUS
  <2> QED
    BY <1>0, <1>7, <2>1 DEF Guard!Prune, Guard!Forget
<1>8. CASE UNCHANGED Guard!sentinelVars
  BY <1>0, <1>8 DEF Guard!sentinelVars
<1> QED
  BY <1>1, <1>2, <1>3, <1>4, <1>5, <1>6, <1>7, <1>8 DEF Guard!Next

LEMMA InitSentinelTyped == SentinelConstants /\ Guard!Init => SentinelTyped
<1> SUFFICES ASSUME SentinelConstants, Guard!Init PROVE SentinelTyped
  OBVIOUS
<1>1. SentinelInv
  BY DEF Guard!Init, SentinelInv, Followed, SentinelConstants, IdleOutlastsWindow
<1>2. Guard!TypeOK
  BY DEF Guard!Init, Guard!TypeOK, SentinelConstants
<1> QED
  BY <1>1, <1>2 DEF SentinelTyped

-----------------------------------------------------------------------------
(* The types of the toolkit: slots taken and slots left make up the         *)
(* semaphore, so that none is given back twice.                             *)

LEMMA ToolSteps == [ServicesNext]_allVars => [Tools!Next]_(Tools!toolVars)
BY DEF ServicesNext, allVars, toolVars, Tools!toolVars

Slots == MAX_CONCURRENT_EXECUTIONS_PER_TOOL
InSlot == {c \in Calls : serving[c] \in {"handler", "cancelling"}}
SlotsAddUp == IsFiniteSet(InSlot) /\ value + Cardinality(InSlot) = Slots

ToolInv == Tools!TypeOK /\ SlotsAddUp

LEMMA SlotTaken ==
    ASSUME SlotsAddUp, value \in Nat, value > 0, NEW c \in Calls, c \notin InSlot,
           InSlot' = InSlot \cup {c}, value' = value - 1, Slots \in Nat
    PROVE  SlotsAddUp' /\ value' \in 0..Slots
<1>1. IsFiniteSet(InSlot') /\ Cardinality(InSlot') = Cardinality(InSlot) + 1
  BY FS_AddElement DEF SlotsAddUp
<1>2. Cardinality(InSlot) \in Nat
  BY FS_CardinalityType DEF SlotsAddUp
<1> QED
  BY <1>1, <1>2 DEF SlotsAddUp, Slots

LEMMA SlotGivenBack ==
    ASSUME SlotsAddUp, value \in Nat, NEW c \in Calls, c \in InSlot,
           InSlot' = InSlot \ {c}, value' = value + 1, Slots \in Nat
    PROVE  SlotsAddUp' /\ value' \in 0..Slots
<1>1. IsFiniteSet(InSlot') /\ Cardinality(InSlot') = Cardinality(InSlot) - 1
  BY FS_RemoveElement DEF SlotsAddUp
<1>2. Cardinality(InSlot) \in Nat /\ Cardinality(InSlot') \in Nat
  BY <1>1, FS_CardinalityType DEF SlotsAddUp
<1> QED
  BY <1>1, <1>2 DEF SlotsAddUp, Slots

LEMMA RemovedFirst ==
    ASSUME NEW S, NEW s \in Seq(S), NEW e PROVE Tools!RemoveFirst(s, e) \in Seq(S)
<1>1. CASE ~ \E i \in 1..Len(s) : s[i] = e
  BY <1>1 DEF Tools!RemoveFirst
<1>2. CASE \E i \in 1..Len(s) : s[i] = e
  <2> DEFINE I == {i \in 1..Len(s) : s[i] = e}
  <2>1. I \subseteq Nat /\ I # {}
    BY <1>2
  <2>2. \E i \in I : \A j \in I : i <= j
    <3> HIDE DEF I
    <3> QED
      BY <2>1, SmallestExists
  <2>3. PICK i \in 1..Len(s) : Tools!RemoveFirst(s, e) = Tools!RemoveAt(s, i)
    BY <1>2, <2>2 DEF Tools!RemoveFirst, Tools!SelectInSeq, Tools!Min
  <2>4. SubSeq(s, 1, i - 1) \in Seq(S) /\ SubSeq(s, i + 1, Len(s)) \in Seq(S)
    BY <2>3
  <2> QED
    BY <2>3, <2>4, ConcatProperties DEF Tools!RemoveAt
<1> QED
  BY <1>1, <1>2

\* A call that moves without entering or leaving a slot.
LEMMA OutsideSlots ==
    ASSUME ToolInv, NEW c \in Calls, NEW s \in {"acquire", "cancelling", "over"}, Tools!Moves(c, s),
           c \in InSlot <=> s = "cancelling", value' = value, tool' = tool,
           waiting' \in Seq(Calls),
           result' \in [Calls -> {"none", "success", "rejected", "failed", "timeout", "cancelled"}]
    PROVE  ToolInv'
<1>1. InSlot' = InSlot
  BY DEF InSlot, Tools!Moves, ToolInv, Tools!TypeOK
<1> QED
  BY <1>1 DEF ToolInv, SlotsAddUp, Slots, Tools!TypeOK, Tools!Moves, Tools!Specs

\* A call that returns from its slot, however it ends.
LEMMA ReturnsFromSlot ==
    ASSUME ToolInv, Slots \in Nat, NEW c \in Calls, c \in InSlot, Tools!release,
           NEW r \in {"success", "failed", "timeout", "cancelled"}, Tools!Returns(c, r),
           UNCHANGED <<tool, waiting>>
    PROVE  ToolInv'
<1>1. InSlot' = InSlot \ {c}
  BY DEF InSlot, Tools!Returns, Tools!Moves, ToolInv, Tools!TypeOK
<1>2. SlotsAddUp' /\ value' \in 0..Slots
  BY <1>1, SlotGivenBack DEF ToolInv, Tools!TypeOK, Tools!release, Slots
<1> QED
  BY <1>2 DEF ToolInv, Slots, Tools!TypeOK, Tools!Moves, Tools!Returns, Tools!Specs

LEMMA NextToolInv ==
    ASSUME Slots \in Nat PROVE ToolInv /\ [Tools!Next]_(Tools!toolVars) => ToolInv'
<1> SUFFICES ASSUME ToolInv, [Tools!Next]_(Tools!toolVars) PROVE ToolInv'
  OBVIOUS
<1>0. waiting \in Seq(Calls)
  BY DEF ToolInv, Tools!TypeOK
<1>1. ASSUME (\E spec \in Tools!Specs : Tools!Register(spec)) \/ Tools!Unregister PROVE ToolInv'
  BY <1>1 DEF Tools!Register, Tools!Unregister, ToolInv, Tools!TypeOK, SlotsAddUp, InSlot, Slots, Tools!Specs
<1>2. ASSUME NEW c \in Calls, NEW level \in Tools!Levels, NEW args \in Arguments, Tools!Execute(c, level, args)
      PROVE  ToolInv'
  <2>1. c \notin InSlot /\ value' = value /\ tool' = tool
    BY <1>2 DEF Tools!Execute, InSlot
  <2>2. CASE Tools!Moves(c, "acquire") /\ waiting' = Append(waiting, c) /\ UNCHANGED result
    BY <1>0, <2>1, <2>2, OutsideSlots DEF ToolInv, Tools!TypeOK
  <2>3. CASE Tools!Returns(c, "rejected") /\ UNCHANGED waiting
    <3>1. result' \in [Calls -> {"none", "success", "rejected", "failed", "timeout", "cancelled"}]
      BY <2>3 DEF Tools!Returns, ToolInv, Tools!TypeOK
    <3> QED
      BY <1>0, <2>1, <2>3, <3>1, OutsideSlots DEF Tools!Returns
  <2> QED
    BY <1>2, <2>2, <2>3 DEF Tools!Execute
<1>3. ASSUME NEW c \in Calls, Tools!Acquire(c) PROVE ToolInv'
  <2>1. InSlot' = InSlot \cup {c} /\ c \notin InSlot
    BY <1>3 DEF Tools!Acquire, InSlot, Tools!Moves, ToolInv, Tools!TypeOK
  <2>2. SlotsAddUp' /\ value' \in 0..Slots
    BY <1>3, <2>1, SlotTaken DEF ToolInv, Tools!TypeOK, Tools!Acquire, Slots
  <2>3. Tail(waiting) \in Seq(Calls)
    BY <1>0, <1>3, HeadTailProperties DEF Tools!Acquire
  <2> QED
    BY <1>3, <2>2, <2>3 DEF Tools!Acquire, ToolInv, Slots, Tools!TypeOK, Tools!Moves, Tools!Specs
<1>4. ASSUME NEW c \in Calls, NEW r \in {"success", "failed", "timeout"}, Tools!Handled(c, r) PROVE ToolInv'
  BY <1>4, ReturnsFromSlot DEF Tools!Handled, InSlot
<1>5. ASSUME NEW c \in Calls, Tools!Expire(c) PROVE ToolInv'
  <2>1. c \in InSlot
    BY <1>5 DEF Tools!Expire, InSlot
  <2> QED
    BY <1>0, <1>5, <2>1, OutsideSlots DEF Tools!Expire, ToolInv, Tools!TypeOK
<1>6. ASSUME NEW c \in Calls, Tools!TimedOut(c) PROVE ToolInv'
  BY <1>6, ReturnsFromSlot DEF Tools!TimedOut, InSlot
<1>7. ASSUME NEW c \in Calls, Tools!Cancelled(c) PROVE ToolInv'
  <2>1. CASE serving[c] = "acquire" /\ waiting' = Tools!RemoveFirst(waiting, c) /\ UNCHANGED value
    <3>1. c \notin InSlot /\ waiting' \in Seq(Calls)
      BY <1>0, <2>1, RemovedFirst DEF InSlot
    <3>2. result' \in [Calls -> {"none", "success", "rejected", "failed", "timeout", "cancelled"}]
      BY <1>7 DEF Tools!Cancelled, Tools!Returns, ToolInv, Tools!TypeOK
    <3> QED
      BY <1>7, <2>1, <3>1, <3>2, OutsideSlots DEF Tools!Cancelled, Tools!Returns
  <2>2. CASE serving[c] \in {"handler", "cancelling"} /\ Tools!release /\ UNCHANGED waiting
    BY <1>7, <2>2, ReturnsFromSlot DEF Tools!Cancelled, InSlot
  <2> QED
    BY <1>7, <2>1, <2>2 DEF Tools!Cancelled
<1>8. CASE UNCHANGED Tools!toolVars
  BY <1>8 DEF Tools!toolVars, ToolInv, Tools!TypeOK, SlotsAddUp, InSlot, Slots, Tools!Specs
<1> QED
  BY <1>1, <1>2, <1>3, <1>4, <1>5, <1>6, <1>7, <1>8 DEF Tools!Next, Tools!Progress

LEMMA InitToolInv == Slots \in Nat /\ Tools!Init => ToolInv
<1> SUFFICES ASSUME Slots \in Nat, Tools!Init PROVE ToolInv
  OBVIOUS
<1>1. InSlot = {}
  BY DEF InSlot, Tools!Init
<1>2. SlotsAddUp
  BY <1>1, FS_EmptySet DEF SlotsAddUp, Tools!Init, Slots
<1> QED
  BY <1>2 DEF ToolInv, Tools!Init, Tools!TypeOK, Slots

-----------------------------------------------------------------------------
(* Vector search: sorting by similarity.  The score of a vector is a       *)
(* fraction with a positive denominator, and so fractions are what order    *)
(* the records; the place of each in the order is how many come before it.  *)

\* That pairs order the members of a set, strictly and any two of them.
Orders(before, S) ==
    /\ \A i \in S : <<i, i>> \notin before
    /\ \A i, j, k \in S : <<i, j>> \in before /\ <<j, k>> \in before => <<i, k>> \in before
    /\ \A i, j \in S : i # j => <<i, j>> \in before \/ <<j, i>> \in before

LEMMA SameCardinality == \A S : Search!Cardinality(S) = Cardinality(S)
BY DEF Search!Cardinality, Cardinality

\* The first n places of a sequence taken in some order.
Along(s, order, n) == [k \in 1..n |-> s[order[k]]]

\* The places of a sequence, in the order in which Arranged lists them.
LEMMA ArrangedInOrder ==
    ASSUME NEW s, NEW S, IsFiniteSet(S), NEW before, Orders(before, S), NEW n, n = Cardinality(S)
    PROVE  \E order \in Bijection(1..n, S) :
             /\ Search!Arranged(s, S, before) = Along(s, order, n)
             /\ \A k, l \in 1..n : k < l => <<order[k], order[l]>> \in before
<1> DEFINE preds(i) == {j \in S : <<j, i>> \in before}
           rank == [i \in S |-> Cardinality(preds(i)) + 1]
           order == [k \in 1..n |-> CHOOSE i \in S : Search!Cardinality(preds(i)) = k - 1]
<1>10. Search!Arranged(s, S, before) = Along(s, order, n)
  <2>1. Search!Cardinality(S) = n
    BY SameCardinality
  <2>2. Search!Arranged(s, S, before) =
          [k \in 1..Search!Cardinality(S) |-> s[CHOOSE i \in S : Search!Cardinality(preds(i)) = k - 1]]
    BY DEF Search!Arranged
  <2>3. \A k \in 1..n : order[k] = CHOOSE i \in S : Search!Cardinality(preds(i)) = k - 1
    BY Zenon
  <2> HIDE DEF order, preds
  <2> QED
    BY <2>1, <2>2, <2>3, Zenon DEF Along
<1>1. n \in Nat /\ IsFiniteSet(1..n) /\ Cardinality(1..n) = n
  BY FS_CardinalityType, FS_Interval
<1>2. \A i \in S : IsFiniteSet(preds(i)) /\ Cardinality(preds(i)) \in Nat /\ Cardinality(preds(i)) < n
  <2> SUFFICES ASSUME NEW i \in S
               PROVE  IsFiniteSet(preds(i)) /\ Cardinality(preds(i)) \in Nat /\ Cardinality(preds(i)) < n
    OBVIOUS
  <2>1. preds(i) \in SUBSET S /\ i \notin preds(i)
    BY DEF Orders
  <2> HIDE DEF preds
  <2>2. IsFiniteSet(preds(i)) /\ Cardinality(preds(i)) <= n /\ Cardinality(preds(i)) # n
    BY <2>1, FS_Subset
  <2>3. Cardinality(preds(i)) \in Nat
    BY <2>2, FS_CardinalityType
  <2> QED
    BY <1>1, <2>2, <2>3
<1>3. \A i, j \in S : <<i, j>> \in before => Cardinality(preds(i)) < Cardinality(preds(j))
  <2> SUFFICES ASSUME NEW i \in S, NEW j \in S, <<i, j>> \in before
               PROVE  Cardinality(preds(i)) < Cardinality(preds(j))
    OBVIOUS
  <2>1. preds(i) \in SUBSET preds(j) /\ i \in preds(j) /\ i \notin preds(i)
    BY DEF Orders
  <2> HIDE DEF preds
  <2>2. Cardinality(preds(i)) <= Cardinality(preds(j)) /\ Cardinality(preds(i)) # Cardinality(preds(j))
    BY <1>2, <2>1, FS_Subset
  <2> QED
    BY <1>2, <2>2
<1>4. \A i, j \in S : i # j => Cardinality(preds(i)) # Cardinality(preds(j))
  <2> SUFFICES ASSUME NEW i \in S, NEW j \in S, i # j
               PROVE  Cardinality(preds(i)) # Cardinality(preds(j))
    OBVIOUS
  <2>1. <<i, j>> \in before \/ <<j, i>> \in before
    BY DEF Orders
  <2> HIDE DEF preds
  <2> QED
    BY <1>2, <1>3, <2>1
<1> HIDE DEF preds
<1>5. rank \in [S -> 1..n]
  BY <1>1, <1>2
<1>6. rank \in Injection(S, 1..n)
  <2>1. \A i, j \in S : rank[i] = rank[j] => i = j
    BY <1>2, <1>4
  <2> HIDE DEF rank
  <2> QED
    BY <1>5, <2>1 DEF Injection, IsInjective
<1>7. rank \in Surjection(S, 1..n)
  BY <1>1, <1>6, FS_Injection
<1>8. \A k \in 1..n : order[k] \in S /\ Cardinality(preds(order[k])) = k - 1
  <2> SUFFICES ASSUME NEW k \in 1..n PROVE order[k] \in S /\ Cardinality(preds(order[k])) = k - 1
    OBVIOUS
  <2>1. PICK i \in S : rank[i] = k
    BY <1>7 DEF Surjection
  <2>2. Cardinality(preds(i)) = k - 1
    BY <1>1, <1>2, <2>1
  <2> QED
    BY <2>2, SameCardinality
<1>9. \A i \in S : rank[i] \in 1..n /\ order[rank[i]] = i
  <2> SUFFICES ASSUME NEW i \in S PROVE rank[i] \in 1..n /\ order[rank[i]] = i
    OBVIOUS
  <2>1. rank[i] \in 1..n
    BY <1>5
  <2>2. Cardinality(preds(order[rank[i]])) = Cardinality(preds(i))
    BY <1>2, <1>8, <2>1
  <2> HIDE DEF order
  <2> QED
    BY <1>4, <1>8, <2>1, <2>2
<1>11. order \in [1..n -> S]
  BY <1>8
<1>12. \A k, l \in 1..n : order[k] = order[l] => k = l
  <2> HIDE DEF order
  <2> QED
    BY <1>1, <1>8
<1>13. order \in Bijection(1..n, S)
  <2> HIDE DEF order
  <2>1. \A i \in S : \E k \in 1..n : order[k] = i
    BY <1>9
  <2> QED
    BY <1>11, <1>12, <2>1 DEF Bijection, Injection, Surjection, IsInjective
<1>14. \A k, l \in 1..n : k < l => <<order[k], order[l]>> \in before
  <2> SUFFICES ASSUME NEW k \in 1..n, NEW l \in 1..n, k < l PROVE <<order[k], order[l]>> \in before
    OBVIOUS
  <2> HIDE DEF order
  <2>1. order[k] \in S /\ order[l] \in S /\ order[k] # order[l]
    BY <1>1, <1>8, <1>12
  <2>2. ~(<<order[l], order[k]>> \in before)
    BY <1>1, <1>3, <1>8
  <2> QED
    BY <2>1, <2>2 DEF Orders
<1> HIDE DEF order
<1> QED
  BY <1>10, <1>13, <1>14

\* The terms of a sum are numbers, and so is the sum; one of squares is not negative.
LEMMA DotType ==
    ASSUME NEW u \in Seq(Int), NEW v \in Seq(Int), Len(u) = Len(v)
    PROVE  Search!Dot(u, v) \in Int /\ (u = v => Search!Dot(u, v) >= 0)
<1> DEFINE L == Len(u)
           Rec(f) == [i \in 0..L |-> IF i = 0 THEN 0 ELSE f[i - 1] + u[i] * v[i]]
           h == CHOOSE f : f = Rec(f)
           Sums == {x \in Int : u = v => x >= 0}
           next == [p \in (1..L) \X Sums |-> p[2] + u[p[1]] * v[p[1]]]
<1>1. Search!Dot(u, v) = h[L]
  BY DEF Search!Dot
<1>2. L \in Nat /\ L \in 0..L /\ 0 \in Sums /\ \A i \in 1..L : \A x \in Sums : x + u[i] * v[i] \in Sums
  <2>1. \A i \in 1..L : u[i] \in Int /\ v[i] \in Int
    OBVIOUS
  <2>2. \A x \in Int : x * x >= 0
    OBVIOUS
  <2>3. \A i \in 1..L : u[i] * v[i] \in Int /\ (u = v => u[i] * v[i] >= 0)
    BY <2>1, <2>2
  <2>4. \A i \in 1..L : \A x \in Sums : x + u[i] * v[i] \in Sums
    <3> SUFFICES ASSUME NEW i \in 1..L, NEW x \in Sums PROVE x + u[i] * v[i] \in Sums
      OBVIOUS
    <3> DEFINE y == u[i] * v[i]
    <3>1. y \in Int /\ (u = v => y >= 0)
      BY <2>3
    <3> HIDE DEF y
    <3>2. x + y \in Sums
      BY <3>1
    <3> QED
      BY <3>2 DEF y
  <2> QED
    BY <2>4
<1>3. PICK g : Follows(g, 0, next, L)
  <2> HIDE DEF next, L
  <2> QED
    BY <1>2, FollowerExists
<1>4. \A i \in 0..L : g[i] = IF i = 0 THEN 0 ELSE next[<<i, g[i - 1]>>]
  <2> HIDE DEF next, L
  <2> QED
    BY <1>3, Zenon DEF Follows
<1>5. \A i \in 1..L : g[i - 1] \in Sums => g[i] \in Sums /\ g[i] = g[i - 1] + u[i] * v[i]
  <2> SUFFICES ASSUME NEW i \in 1..L, g[i - 1] \in Sums
               PROVE  g[i] \in Sums /\ g[i] = g[i - 1] + u[i] * v[i]
    OBVIOUS
  <2>1. i \in 0..L /\ i # 0
    BY <1>2
  <2> HIDE DEF Sums
  <2>2. next[<<i, g[i - 1]>>] = g[i - 1] + u[i] * v[i]
    OBVIOUS
  <2> HIDE DEF next
  <2> QED
    BY <1>2, <1>4, <2>1, <2>2
<1> HIDE DEF next
<1>6. g[0] = 0 /\ \A i \in 0..L : g[i] \in Sums
  <2>1. g[0] = 0
    <3>1. 0 \in 0..L
      BY <1>2
    <3> HIDE DEF L, Sums
    <3> QED
      BY <1>4, <3>1
  <2> HIDE DEF Sums, L
  <2> QED
    BY <1>2, <1>5, <2>1, KeptUpTo
<1>7. g = Rec(g)
  <2>1. \A i \in 0..L : g[i] = IF i = 0 THEN 0 ELSE g[i - 1] + u[i] * v[i]
    <3> SUFFICES ASSUME NEW i \in 0..L PROVE g[i] = IF i = 0 THEN 0 ELSE g[i - 1] + u[i] * v[i]
      OBVIOUS
    <3>1. i # 0 => i \in 1..L /\ i - 1 \in 0..L
      BY <1>2
    <3> HIDE DEF Sums, L
    <3> QED
      BY <1>5, <1>6, <3>1
  <2>2. g = [i \in 0..L |-> g[i]]
    BY <1>3 DEF Follows
  <2> HIDE DEF L
  <2> QED
    BY <2>1, <2>2, Zenon
<1>8. h = Rec(h)
  <2> HIDE DEF Rec
  <2> QED
    BY <1>7
<1>9. \A i \in 0..L : h[i] = IF i = 0 THEN 0 ELSE h[i - 1] + u[i] * v[i]
  <2> HIDE DEF h, L
  <2> QED
    BY <1>8, Zenon
<1> HIDE DEF h
<1>10. h[0] \in Sums /\ \A i \in 1..L : h[i - 1] \in Sums => h[i] \in Sums
  <2>0. 0 \in 0..L /\ \A i \in 1..L : i \in 0..L /\ i # 0
    BY <1>2
  <2> HIDE DEF Sums, L
  <2>1. \A i \in 1..L : h[i] = h[i - 1] + u[i] * v[i]
    BY <1>9, <2>0
  <2>2. h[0] = 0
    BY <1>9, <2>0
  <2> QED
    BY <1>2, <2>1, <2>2
<1>11. h[L] \in Sums
  <2> HIDE DEF Sums, L
  <2> QED
    BY <1>2, <1>10, KeptUpTo
<1> QED
  BY <1>1, <1>11

LEMMA TimesKeepsOrder ==
    ASSUME NEW x \in Int, NEW y \in Int, NEW k \in Nat, k > 0
    PROVE  (x > y <=> x * k > y * k) /\ (x = y <=> x * k = y * k)
<1>1. x > y => x * k > y * k
  <2> SUFFICES ASSUME x > y PROVE x * k > y * k
    OBVIOUS
  <2>1. (x - y) * k > 0
    <3>1. x - y \in Int /\ x - y > 0
      OBVIOUS
    <3> QED
      BY <3>1
  <2> QED
    BY <2>1
<1>2. y > x => y * k > x * k
  <2> SUFFICES ASSUME y > x PROVE y * k > x * k
    OBVIOUS
  <2>1. (y - x) * k > 0
    <3>1. y - x \in Int /\ y - x > 0
      OBVIOUS
    <3> QED
      BY <3>1
  <2> QED
    BY <2>1
<1>3. x * k \in Int /\ y * k \in Int
  OBVIOUS
<1> QED
  BY <1>1, <1>2, <1>3

\* Fractions with positive denominators: a/p, b/q, c/r.
LEMMA FractionsInOrder ==
    ASSUME NEW a \in Int, NEW b \in Int, NEW c \in Int, NEW p \in Nat, NEW q \in Nat, NEW r \in Nat,
           p > 0, q > 0, r > 0, a * q >= b * p, b * r >= c * q
    PROVE  /\ a * r >= c * p
           /\ a * q > b * p \/ b * r > c * q => a * r > c * p
<1>1. a * q \in Int /\ b * p \in Int /\ b * r \in Int /\ c * q \in Int /\ a * r \in Int /\ c * p \in Int
  OBVIOUS
<1>2. (a * q) * r >= (b * p) * r /\ (a * q > b * p => (a * q) * r > (b * p) * r)
  BY <1>1, TimesKeepsOrder
<1>3. (b * r) * p >= (c * q) * p /\ (b * r > c * q => (b * r) * p > (c * q) * p)
  BY <1>1, TimesKeepsOrder
<1>4. (b * r) * p = (b * p) * r /\ (a * q) * r = (a * r) * q /\ (c * q) * p = (c * p) * q
  OBVIOUS
<1>5. (b * p) * r \in Int /\ (a * r) * q \in Int /\ (c * p) * q \in Int
  OBVIOUS
<1>6. (a * r) * q >= (c * p) * q /\ (a * q > b * p \/ b * r > c * q => (a * r) * q > (c * p) * q)
  <2> DEFINE x == (b * p) * r  y == (a * r) * q  z == (c * p) * q
  <2> HIDE DEF x, y, z
  <2>1. y >= x /\ (a * q > b * p => y > x) /\ x >= z /\ (b * r > c * q => x > z)
    BY <1>2, <1>3, <1>4 DEF x, y, z
  <2>2. x \in Int /\ y \in Int /\ z \in Int
    BY <1>5 DEF x, y, z
  <2>3. y >= z /\ (a * q > b * p \/ b * r > c * q => y > z)
    BY <2>1, <2>2
  <2> QED
    BY <2>3 DEF y, z
<1> QED
  BY <1>1, <1>6, TimesKeepsOrder

\* Embeddings are vectors of numbers, and some number of matches is the default.
SearchConstants == Vectors \subseteq Seq(Int) /\ default_top_k \in Nat

\* The score of a vector, as the code compares it: the numerator with its sign, squared,
\* and the denominator squared.
LEMMA ScoreTypes ==
    ASSUME SearchConstants, NEW q \in Vectors, NEW v \in Vectors, Len(v) = Len(q)
    PROVE  /\ Search!Dot(q, v) \in Int
           /\ Search!Signed(Search!Dot(q, v)) \in Int
           /\ Search!Signed(Search!Dot(q, v)) < 0 <=> Search!Dot(q, v) < 0
           /\ Search!Square(v) \in Nat /\ Search!Square(v) > 0
<1>1. q \in Seq(Int) /\ v \in Seq(Int)
  BY DEF SearchConstants
<1>2. Search!Dot(q, v) \in Int /\ Search!Dot(v, v) \in Int /\ Search!Dot(v, v) >= 0
  BY <1>1, DotType
<1>3. ASSUME NEW d \in Int PROVE Search!Signed(d) \in Int /\ (Search!Signed(d) < 0 <=> d < 0)
  <2>1. d * d \in Int /\ (d # 0 => d * d > 0)
    OBVIOUS
  <2>2. -(d * d) \in Int /\ (d # 0 => -(d * d) < 0)
    <3> DEFINE e == d * d
    <3> HIDE DEF e
    <3>1. e \in Int /\ (d # 0 => e > 0)
      BY <2>1 DEF e
    <3>2. -e \in Int /\ (d # 0 => -e < 0)
      BY <3>1
    <3> QED
      BY <3>2 DEF e
  <2> QED
    BY <2>1, <2>2 DEF Search!Signed
<1>4. Search!Square(v) \in Nat /\ Search!Square(v) > 0
  BY <1>2 DEF Search!Square
<1> QED
  BY <1>2, <1>3, <1>4

LEMMA BeforeOrders ==
    ASSUME SearchConstants, NEW q \in Vectors, NEW records \in Seq(Search!Record),
           Search!Comparable(q, records)
    PROVE  /\ Orders(Search!Before(q, records), DOMAIN records)
           /\ \A p \in Search!Before(q, records) :
                ~Search!Closer(q, records[p[2]].vector, records[p[1]].vector)
<1> DEFINE s == [i \in DOMAIN records |-> Search!Signed(Search!Dot(q, records[i].vector))]
           w == [i \in DOMAIN records |-> Search!Square(records[i].vector)]
           D == DOMAIN records
<1>1. \A i \in D : records[i].vector \in Vectors /\ Len(records[i].vector) = Len(q)
  <2>1. \A i \in D : records[i] \in Search!Record
    BY ElementOfSeq
  <2>2. \A r \in Search!Record : r.vector \in Vectors
    BY DEF Search!Record
  <2> QED
    BY <2>1, <2>2 DEF Search!Comparable
<1>2. \A i \in D : i \in Int /\ s[i] \in Int /\ w[i] \in Nat /\ w[i] > 0
  BY <1>1, ScoreTypes
<1>3. \A i, j \in D : Search!Closer(q, records[i].vector, records[j].vector) <=> s[i] * w[j] > s[j] * w[i]
  BY DEF Search!Closer
<1> HIDE DEF s, w
<1>4. \A i, j \in D : s[i] * w[j] \in Int
  BY <1>2
<1>5. \A p : p \in Search!Before(q, records) <=>
        /\ p \in D \X D
        /\ \/ s[p[1]] * w[p[2]] > s[p[2]] * w[p[1]]
           \/ ~(s[p[2]] * w[p[1]] > s[p[1]] * w[p[2]]) /\ p[1] < p[2]
  BY <1>3 DEF Search!Before
<1>6. \A i, j \in D : <<i, j>> \in Search!Before(q, records) <=>
        /\ s[i] * w[j] >= s[j] * w[i]
        /\ s[i] * w[j] > s[j] * w[i] \/ i < j
  <2> SUFFICES ASSUME NEW i \in D, NEW j \in D
               PROVE  <<i, j>> \in Search!Before(q, records) <=>
                        /\ s[i] * w[j] >= s[j] * w[i]
                        /\ s[i] * w[j] > s[j] * w[i] \/ i < j
    OBVIOUS
  <2>1. <<i, j>> \in Search!Before(q, records) <=>
          (s[i] * w[j] > s[j] * w[i] \/ (~(s[j] * w[i] > s[i] * w[j]) /\ i < j))
    BY <1>5
  <2> DEFINE x == s[i] * w[j]  y == s[j] * w[i]
  <2>2. x \in Int /\ y \in Int
    BY <1>4
  <2> HIDE DEF x, y
  <2>3. (x > y \/ (~(y > x) /\ i < j)) <=> (x >= y /\ (x > y \/ i < j))
    BY <2>2
  <2> QED
    BY <2>1, <2>3 DEF x, y
<1> DEFINE B == Search!Before(q, records)
<1> HIDE DEF B
<1>7. \A i, j \in D : <<i, j>> \in B <=> /\ s[i] * w[j] >= s[j] * w[i]
                                         /\ s[i] * w[j] > s[j] * w[i] \/ i < j
  BY <1>6 DEF B
<1>8. \A i \in D : <<i, i>> \notin B
  <2> SUFFICES ASSUME NEW i \in D, <<i, i>> \in B PROVE FALSE
    OBVIOUS
  <2> DEFINE x == s[i] * w[i]
  <2>1. x \in Int /\ (x > x \/ i < i)
    BY <1>4, <1>7
  <2> HIDE DEF x
  <2> QED
    BY <1>2, <2>1
<1>9. \A i, j, k \in D : <<i, j>> \in B /\ <<j, k>> \in B => <<i, k>> \in B
  <2> SUFFICES ASSUME NEW i \in D, NEW j \in D, NEW k \in D, <<i, j>> \in B, <<j, k>> \in B
               PROVE  <<i, k>> \in B
    OBVIOUS
  <2>1. s[i] * w[j] >= s[j] * w[i] /\ s[j] * w[k] >= s[k] * w[j]
    BY <1>7
  <2>2. (s[i] * w[j] > s[j] * w[i] \/ i < j) /\ (s[j] * w[k] > s[k] * w[j] \/ j < k)
    BY <1>7
  <2>3. /\ s[i] * w[k] >= s[k] * w[i]
        /\ s[i] * w[j] > s[j] * w[i] \/ s[j] * w[k] > s[k] * w[j] => s[i] * w[k] > s[k] * w[i]
    BY <1>2, <2>1, FractionsInOrder
  <2>4. i < j /\ j < k => i < k
    BY <1>2
  <2>5. s[i] * w[k] > s[k] * w[i] \/ i < k
    BY <2>2, <2>3, <2>4, Zenon
  <2> QED
    BY <1>7, <2>3, <2>5, Zenon
<1>10. \A i, j \in D : i # j => <<i, j>> \in B \/ <<j, i>> \in B
  <2> SUFFICES ASSUME NEW i \in D, NEW j \in D, i # j PROVE <<i, j>> \in B \/ <<j, i>> \in B
    OBVIOUS
  <2> DEFINE x == s[i] * w[j]  y == s[j] * w[i]
  <2>1. x \in Int /\ y \in Int /\ (i < j \/ j < i)
    BY <1>2, <1>4
  <2>2. (<<i, j>> \in B <=> x >= y /\ (x > y \/ i < j)) /\ (<<j, i>> \in B <=> y >= x /\ (y > x \/ j < i))
    BY <1>7
  <2> HIDE DEF x, y
  <2> QED
    BY <2>1, <2>2
<1>11. \A p \in B : ~Search!Closer(q, records[p[2]].vector, records[p[1]].vector)
  <2> SUFFICES ASSUME NEW p \in B PROVE ~Search!Closer(q, records[p[2]].vector, records[p[1]].vector)
    OBVIOUS
  <2>1. PICK i \in D, j \in D : p = <<i, j>>
    BY <1>5 DEF B
  <2> DEFINE x == s[i] * w[j]  y == s[j] * w[i]
  <2>2. x \in Int /\ y \in Int /\ x >= y
    BY <1>4, <1>7, <2>1
  <2>3. Search!Closer(q, records[j].vector, records[i].vector) <=> y > x
    BY <1>3
  <2> HIDE DEF x, y
  <2>4. ~(y > x)
    BY <2>2
  <2> QED
    BY <2>1, <2>3, <2>4
<1> QED
  BY <1>8, <1>9, <1>10, <1>11 DEF B, Orders

\* The places kept of a sequence, in their order.
LEMMA KeptInOrder ==
    ASSUME NEW s, NEW n \in Nat, NEW P \in SUBSET (1..n), NEW N, N = Cardinality(P)
    PROVE  /\ N \in Nat /\ N <= n /\ (N < n \/ P = 1..n)
           /\ \E e \in Bijection(1..N, P) :
                /\ Search!Kept(s, P) = Along(s, e, N)
                /\ \A k, l \in 1..N : k < l => e[k] < e[l]
<1> DEFINE before == {p \in P \X P : p[1] < p[2]}
<1>1. IsFiniteSet(1..n) /\ Cardinality(1..n) = n
  BY FS_Interval
<1>2. IsFiniteSet(P) /\ N \in Nat /\ N <= n /\ (N = n => P = 1..n)
  BY <1>1, FS_Subset, FS_CardinalityType
<1>3. \A i, j \in P : <<i, j>> \in before <=> i < j
  OBVIOUS
<1>4. \A i \in P : i \in Int
  OBVIOUS
<1>5. Orders(before, P)
  <2> HIDE DEF before
  <2> QED
    BY <1>3, <1>4 DEF Orders
<1>6. Search!Kept(s, P) = Search!Arranged(s, P, before)
  BY DEF Search!Kept
<1> HIDE DEF before
<1>7. PICK e \in Bijection(1..N, P) :
            /\ Search!Arranged(s, P, before) = Along(s, e, N)
            /\ \A k, l \in 1..N : k < l => <<e[k], e[l]>> \in before
  BY <1>2, <1>5, ArrangedInOrder
<1>8. \A k \in 1..N : e[k] \in P
  BY <1>7 DEF Bijection, Injection
<1>9. \A k, l \in 1..N : k < l => e[k] < e[l]
  BY <1>3, <1>7, <1>8
<1> QED
  BY <1>2, <1>6, <1>7, <1>9

\* How many of n records are ranked.
Bounded(k, n) == IF k < n THEN k ELSE n

\* Of the places in an order o, those among the first TopK whose records pass.
Passing(query, q, records, o) ==
    {k \in 1..Bounded(Search!TopK(query), Len(records)) : Search!Passes(query, q, records[o[k]])}

\* What a query returns: of its records in their order, those of the first that pass.
LEMMA MatchesInOrder ==
    ASSUME SearchConstants, NEW q \in Vectors, NEW query \in Search!Queries,
           NEW records \in Seq(Search!Record), records = data[query.namespace],
           Search!Comparable(q, records)
    PROVE  \E o, e, N :
             /\ o \in Bijection(1..Len(records), 1..Len(records))
             /\ N = Cardinality(Passing(query, q, records, o))
             /\ e \in Bijection(1..N, Passing(query, q, records, o))
             /\ \A k, l \in 1..Len(records) :
                  k < l => ~Search!Closer(q, records[o[l]].vector, records[o[k]].vector)
             /\ \A k, l \in 1..N : k < l => e[k] < e[l]
             /\ Search!Matches(query, q) = Along(records, Along(o, e, N), N)
<1> DEFINE n == Len(records)
           B == Search!Before(q, records)
           K == Bounded(Search!TopK(query), n)
<1>1. n \in Nat /\ DOMAIN records = 1..n /\ IsFiniteSet(1..n) /\ Cardinality(1..n) = n
  BY FS_Interval
<1>2. Orders(B, 1..n) /\ \A p \in B : ~Search!Closer(q, records[p[2]].vector, records[p[1]].vector)
  BY <1>1, BeforeOrders
<1>3. PICK o \in Bijection(1..n, 1..n) :
            /\ Search!Arranged(records, 1..n, B) = Along(records, o, n)
            /\ \A k, l \in 1..n : k < l => <<o[k], o[l]>> \in B
  <2> HIDE DEF B
  <2> QED
    BY <1>1, <1>2, ArrangedInOrder
<1>4. \A k, l \in 1..n : k < l => ~Search!Closer(q, records[o[l]].vector, records[o[k]].vector)
  <2> SUFFICES ASSUME NEW k \in 1..n, NEW l \in 1..n, k < l
               PROVE  ~Search!Closer(q, records[o[l]].vector, records[o[k]].vector)
    OBVIOUS
  <2>1. <<o[k], o[l]>> \in B
    BY <1>3
  <2> HIDE DEF B
  <2> QED
    BY <1>2, <2>1
<1> DEFINE sorted == [k \in 1..n |-> records[o[k]]]
<1>5. Search!Sorted(q, records) = sorted
  BY <1>1, <1>3 DEF Search!Sorted, Along
<1>6. Search!TopK(query) \in Nat
  BY DEF Search!TopK, SearchConstants, Search!Queries
<1>7. K \in 0..n
  BY <1>1, <1>6 DEF Bounded
<1> DEFINE ranked == Search!Ranked(q, records, Search!TopK(query))
<1>8. ranked = [k \in 1..K |-> sorted[k]] /\ DOMAIN ranked = 1..K
  <2>1. \A k \in 1..n : o[k] \in 1..n
    BY <1>3 DEF Bijection, Injection
  <2>2. sorted \in Seq(Search!Record) /\ Len(sorted) = n
    BY <1>1, <2>1
  <2>3. ranked = SubSeq(sorted, 1, K)
    <3> HIDE DEF sorted
    <3> QED
      BY <1>5, <2>2 DEF Search!Ranked, Search!First, Bounded
  <2> HIDE DEF sorted, ranked, K
  <2>4. Len(ranked) = K /\ ranked \in Seq(Search!Record) /\ \A k \in 1..K : ranked[k] = sorted[k]
    BY <1>1, <1>7, <2>2, <2>3, SubSeqProperties
  <2> QED
    BY <2>4
<1> DEFINE P == {k \in 1..K : Search!Passes(query, q, records[o[k]])}
           N == Cardinality(P)
<1>9. Search!Matches(query, q) = Search!Kept(ranked, P)
  <2>1. \A k \in 1..K : ranked[k] = records[o[k]]
    BY <1>7, <1>8
  <2> HIDE DEF K
  <2>2. {k \in DOMAIN ranked : Search!Passes(query, q, ranked[k])} = P
    BY <1>8, <2>1
  <2>3. Search!Matches(query, q) = Search!Kept(ranked, {k \in DOMAIN ranked : Search!Passes(query, q, ranked[k])})
    BY DEF Search!Matches
  <2> QED
    BY <2>2, <2>3
<1>10. PICK e \in Bijection(1..N, P) :
            /\ Search!Kept(ranked, P) = Along(ranked, e, N)
            /\ \A k, l \in 1..N : k < l => e[k] < e[l]
  <2>1. P \in SUBSET (1..K) /\ K \in Nat
    BY <1>7
  <2>2. N = Cardinality(P)
    OBVIOUS
  <2> HIDE DEF P, K, ranked, N
  <2> QED
    BY <2>1, <2>2, KeptInOrder
<1>11. \A m \in 1..N : ranked[e[m]] = records[o[e[m]]]
  <2>1. \A m \in 1..N : e[m] \in P
    BY <1>10 DEF Bijection, Injection
  <2>2. \A m \in 1..N : e[m] \in 1..K /\ e[m] \in 1..n
    <3> HIDE DEF K, N
    <3> QED
      BY <1>7, <2>1
  <2> HIDE DEF K, N, P, ranked
  <2> QED
    BY <1>8, <2>2
<1>12. Search!Matches(query, q) = Along(records, Along(o, e, N), N)
  <2> HIDE DEF N, P, ranked
  <2> QED
    BY <1>9, <1>10, <1>11 DEF Along
<1>13. P = Passing(query, q, records, o) /\ N = Cardinality(P)
  BY DEF Passing
<1> HIDE DEF N, P
<1> QED
  BY <1>3, <1>4, <1>10, <1>12, <1>13

-----------------------------------------------------------------------------
(* Vector search: what a query returns.                                     *)

\* An id names one record of its namespace.
OneRecordPerId(records) == \A i, j \in DOMAIN records : records[i].id = records[j].id => i = j

\* A vector that is as close as one that does not pass the threshold does not pass either.
LEMMA FailingIsClosed ==
    ASSUME SearchConstants, NEW q \in Vectors, NEW u \in Vectors, NEW v \in Vectors,
           Len(u) = Len(q), Len(v) = Len(q), ~Search!Closer(q, u, v), Search!Dot(q, v) < 0
    PROVE  ~(Search!Dot(q, u) >= 0)
<1> DEFINE a == Search!Signed(Search!Dot(q, u))  b == Search!Signed(Search!Dot(q, v))
           p == Search!Square(u)  r == Search!Square(v)
<1>1. a \in Int /\ b \in Int /\ p \in Nat /\ r \in Nat /\ p > 0 /\ r > 0 /\ b < 0
  BY ScoreTypes
<1>2. ~(a * r > b * p)
  BY DEF Search!Closer
<1>3. Search!Dot(q, u) \in Int /\ (a < 0 => Search!Dot(q, u) < 0)
  BY ScoreTypes
<1> HIDE DEF a, b, p, r
<1>4. b * p < 0 * p /\ 0 * p = 0 /\ b * p \in Int
  BY <1>1, TimesKeepsOrder
<1>5. a * r \in Int /\ a * r < 0 * r /\ 0 * r = 0
  BY <1>1, <1>2, <1>4
<1>6. a < 0
  BY <1>1, <1>5, TimesKeepsOrder
<1> QED
  BY <1>3, <1>6

LEMMA MatchesAreBest ==
    ASSUME SearchConstants, NEW q \in Vectors, NEW query \in Search!Queries,
           NEW records \in Seq(Search!Record), records = data[query.namespace],
           Search!Comparable(q, records), OneRecordPerId(records),
           NEW given, given = Search!Matches(query, q)
    PROVE  /\ given \in Seq(Search!Record)
           /\ Search!ToSet(given) \subseteq Search!ToSet(records) /\ Search!IsInjective(given)
           /\ Len(given) <= Search!TopK(query)
           /\ \A i \in DOMAIN given :
                /\ Search!Passes(query, q, given[i])
                /\ \A j \in 1..(i - 1) : ~Search!Closer(q, given[i].vector, given[j].vector)
           /\ \A r \in Search!ToSet(records) \ Search!ToSet(given) :
                \/ ~Search!Passes(query, q, r)
                \/ /\ Len(given) = Search!TopK(query)
                   /\ \A i \in DOMAIN given : ~Search!Closer(q, r.vector, given[i].vector)
<1> DEFINE n == Len(records)
           K == Bounded(Search!TopK(query), n)
<1>1. n \in Nat /\ DOMAIN records = 1..n /\ \A i \in 1..n : records[i] \in Search!Record
  BY ElementOfSeq
<1>2. /\ Search!TopK(query) \in Nat /\ K \in Nat /\ K <= n /\ K <= Search!TopK(query)
      /\ K = n \/ K = Search!TopK(query)
  BY <1>1 DEF Search!TopK, SearchConstants, Search!Queries, Bounded
<1>3. PICK o, e, N :
        /\ o \in Bijection(1..n, 1..n)
        /\ N = Cardinality(Passing(query, q, records, o))
        /\ e \in Bijection(1..N, Passing(query, q, records, o))
        /\ \A k, l \in 1..n : k < l => ~Search!Closer(q, records[o[l]].vector, records[o[k]].vector)
        /\ \A k, l \in 1..N : k < l => e[k] < e[l]
        /\ given = Along(records, Along(o, e, N), N)
  BY MatchesInOrder
<1> DEFINE P == {k \in 1..K : Search!Passes(query, q, records[o[k]])}
<1>4. /\ N = Cardinality(P) /\ e \in Bijection(1..N, P)
      /\ \A k, l \in 1..N : k < l => e[k] < e[l]
      /\ given = [m \in 1..N |-> records[o[e[m]]]]
  BY <1>3 DEF Passing, Along
<1>5. \A k, l \in 1..n : k < l => ~Search!Closer(q, records[o[l]].vector, records[o[k]].vector)
  BY <1>3
<1>6. /\ \A k \in 1..n : o[k] \in 1..n
      /\ \A k, l \in 1..n : o[k] = o[l] => k = l
      /\ \A i \in 1..n : \E k \in 1..n : o[k] = i
  BY <1>3 DEF Bijection, Injection, Surjection, IsInjective
<1>7. /\ \A m \in 1..N : e[m] \in P
      /\ \A m, l \in 1..N : e[m] = e[l] => m = l
      /\ \A k \in P : \E m \in 1..N : e[m] = k
  <2> HIDE DEF P
  <2> QED
    BY <1>4 DEF Bijection, Injection, Surjection, IsInjective
<1>8. N \in Nat /\ N <= K /\ (N < K \/ P = 1..K)
  <2>1. P \in SUBSET (1..K)
    OBVIOUS
  <2> HIDE DEF P, K
  <2> QED
    BY <1>2, <1>4, <2>1, KeptInOrder
<1>9. /\ \A k \in P : k \in 1..n /\ k \in 1..K /\ Search!Passes(query, q, records[o[k]])
      /\ \A k \in 1..K \ P : k \in 1..n /\ ~Search!Passes(query, q, records[o[k]])
  <2>1. \A k \in 1..K : k \in 1..n
    <3> HIDE DEF K
    <3> QED
      BY <1>1, <1>2
  <2> HIDE DEF K, n
  <2> QED
    BY <2>1
<1>10. \A i, j \in 1..n : records[i] = records[j] => i = j
  BY <1>1 DEF OneRecordPerId
<1> HIDE DEF n, K, P
<1>11. \A m \in 1..N : /\ e[m] \in P /\ e[m] \in 1..n /\ o[e[m]] \in 1..n
                       /\ given[m] = records[o[e[m]]]
  BY <1>4, <1>6, <1>7, <1>9
<1>12. DOMAIN given = 1..N
  BY <1>4
<1>13. given \in Seq(Search!Record) /\ Len(given) = N
  <2>1. \A m \in 1..N : records[o[e[m]]] \in Search!Record
    BY <1>1, <1>11
  <2> QED
    BY <1>4, <1>8, <2>1
<1>14. Search!ToSet(given) \subseteq Search!ToSet(records)
  BY <1>1, <1>11, <1>12 DEF Search!ToSet
<1>15. Search!IsInjective(given)
  <2> SUFFICES ASSUME NEW a \in 1..N, NEW b \in 1..N, given[a] = given[b] PROVE a = b
    BY <1>12 DEF Search!IsInjective
  <2>1. o[e[a]] = o[e[b]]
    BY <1>10, <1>11
  <2>2. e[a] = e[b]
    BY <1>6, <1>11, <2>1
  <2> QED
    BY <1>7, <2>2
<1>16. Len(given) <= Search!TopK(query)
  BY <1>2, <1>8, <1>13
<1>17. ASSUME NEW i \in DOMAIN given
       PROVE  /\ Search!Passes(query, q, given[i])
              /\ \A j \in 1..(i - 1) : ~Search!Closer(q, given[i].vector, given[j].vector)
  <2>1. i \in 1..N
    BY <1>12
  <2>2. Search!Passes(query, q, given[i])
    BY <1>9, <1>11, <2>1
  <2>3. ASSUME NEW j \in 1..(i - 1) PROVE ~Search!Closer(q, given[i].vector, given[j].vector)
    <3>1. j \in 1..N /\ j < i
      BY <1>8, <2>1
    <3>2. e[j] < e[i]
      BY <1>4, <2>1, <3>1
    <3> QED
      BY <1>5, <1>11, <2>1, <3>1, <3>2
  <2> QED
    BY <2>2, <2>3
<1>18. ASSUME NEW r \in Search!ToSet(records) \ Search!ToSet(given), Search!Passes(query, q, r)
       PROVE  /\ Len(given) = Search!TopK(query)
              /\ \A i \in DOMAIN given : ~Search!Closer(q, r.vector, given[i].vector)
  <2>1. PICK x \in 1..n : r = records[x]
    BY <1>1 DEF Search!ToSet
  <2>2. PICK k \in 1..n : o[k] = x
    BY <1>6
  <2>3. k \notin 1..K
    <3> SUFFICES ASSUME k \in 1..K PROVE FALSE
      OBVIOUS
    <3>1. k \in P
      BY <1>9, <1>18, <2>1, <2>2
    <3>2. PICK m \in 1..N : e[m] = k
      BY <1>7, <3>1
    <3>3. given[m] = r /\ m \in DOMAIN given
      BY <1>11, <1>12, <2>1, <2>2, <3>2
    <3> QED
      BY <3>3 DEF Search!ToSet
  <2>4. k > K /\ K = Search!TopK(query)
    BY <1>1, <1>2, <2>3 DEF n
  <2>5. \A l \in 1..K : l \in 1..n /\ l < k
    BY <1>1, <1>2, <2>4
  <2>6. \A l \in 1..K : ~Search!Closer(q, r.vector, records[o[l]].vector)
    BY <1>5, <2>1, <2>2, <2>5
  <2>7. P = 1..K
    <3> SUFFICES ASSUME NEW l \in 1..K, l \notin P PROVE FALSE
      BY <1>9
    <3>1. l \in 1..n /\ ~Search!Passes(query, q, records[o[l]]) /\ o[l] \in 1..n
      BY <1>6, <1>9, <2>5
    <3>2. ~query.low /\ ~(Search!Dot(q, records[o[l]].vector) >= 0) /\ Search!Dot(q, r.vector) >= 0
      BY <1>18, <3>1 DEF Search!Passes
    <3>3. \A i \in 1..n : records[i].vector \in Vectors /\ Len(records[i].vector) = Len(q)
      BY <1>1 DEF Search!Record, Search!Comparable
    <3>4. Search!Dot(q, records[o[l]].vector) \in Int
      BY <3>1, <3>3, ScoreTypes
    <3>5. Search!Dot(q, records[o[l]].vector) < 0
      BY <3>2, <3>4
    <3> QED
      BY <2>1, <2>6, <3>1, <3>2, <3>3, <3>5, FailingIsClosed
  <2>8. N = K
    BY <1>2, <1>4, <2>7, FS_Interval
  <2>9. \A i \in DOMAIN given : ~Search!Closer(q, r.vector, given[i].vector)
    BY <1>9, <1>11, <1>12, <2>6
  <2> QED
    BY <1>13, <2>4, <2>8, <2>9
<1> QED
  BY <1>13, <1>14, <1>15, <1>16, <1>17, <1>18

-----------------------------------------------------------------------------
(* Vector search: what is stored, and the invariant.                        *)

\* A namespace as it is stored.
Bucket(records) == records \in Seq(Search!Record) /\ OneRecordPerId(records)

LEMMA UpsertKeepsBucket ==
    ASSUME NEW records, Bucket(records), NEW record \in Search!Record
    PROVE  Bucket(Search!upsert(records, record))
<1> DEFINE n == Len(records)
           new == Search!upsert(records, record)
<1>1. n \in Nat /\ DOMAIN records = 1..n /\ \A i \in 1..n : records[i] \in Search!Record
  BY ElementOfSeq DEF Bucket
<1>2. CASE \E i \in DOMAIN records : records[i].id = record.id
  <2>1. new = [i \in 1..n |-> IF records[i].id = record.id THEN record ELSE records[i]]
    BY <1>1, <1>2 DEF Search!upsert
  <2>2. new \in Seq(Search!Record) /\ DOMAIN new = 1..n
    BY <1>1, <2>1
  <2>3. \A i \in 1..n : new[i].id = records[i].id
    BY <1>1, <2>1
  <2> HIDE DEF new
  <2>4. OneRecordPerId(new)
    BY <1>1, <2>2, <2>3 DEF OneRecordPerId, Bucket
  <2> QED
    BY <2>2, <2>4 DEF Bucket, new
<1>3. CASE ~ \E i \in DOMAIN records : records[i].id = record.id
  <2>1. new = Append(records, record)
    BY <1>3 DEF Search!upsert
  <2>2. new \in Seq(Search!Record) /\ Len(new) = n + 1 /\ DOMAIN new = 1..(n + 1)
    BY <1>1, <2>1 DEF Bucket
  <2>3. new[n + 1] = record /\ \A i \in 1..n : new[i] = records[i]
    BY <1>1, <2>1 DEF Bucket
  <2>4. \A i \in 1..(n + 1) : i \in 1..n \/ i = n + 1
    BY <1>1
  <2> HIDE DEF new, n
  <2>5. OneRecordPerId(new)
    BY <1>1, <1>3, <2>2, <2>3, <2>4 DEF OneRecordPerId, Bucket
  <2> QED
    BY <2>2, <2>5 DEF Bucket, new
<1> QED
  BY <1>2, <1>3

LEMMA BatchKeepsBucket ==
    ASSUME NEW records, Bucket(records), NEW ids \in Seq(Ids), NEW vectors \in Seq(Vectors),
           Len(vectors) = Len(ids)
    PROVE  Bucket(Search!upsert_batch(records, ids, vectors))
<1> DEFINE L == Len(ids)
           rec(i) == [id |-> ids[i], vector |-> vectors[i]]
           Rec(f) == [i \in 0..L |-> IF i = 0 THEN records
                                     ELSE Search!upsert(f[i - 1], [id |-> ids[i], vector |-> vectors[i]])]
           h == CHOOSE f : f = Rec(f)
           Buckets == {r \in Seq(Search!Record) : Bucket(r)}
           next == [p \in (1..L) \X Buckets |-> Search!upsert(p[2], rec(p[1]))]
<1>1. Search!upsert_batch(records, ids, vectors) = h[L]
  BY DEF Search!upsert_batch
<1>2. L \in Nat /\ L \in 0..L /\ records \in Buckets
  BY DEF Bucket
<1>3. \A i \in 1..L : \A r \in Buckets : Search!upsert(r, rec(i)) \in Buckets
  <2>1. \A i \in 1..L : rec(i) \in Search!Record
    BY ElementOfSeq DEF Search!Record
  <2> HIDE DEF rec, L
  <2>2. \A i \in 1..L : \A r : Bucket(r) => Bucket(Search!upsert(r, rec(i)))
    BY <2>1, UpsertKeepsBucket
  <2> QED
    BY <2>2 DEF Bucket
<1>4. PICK g : Follows(g, records, next, L)
  <2> HIDE DEF next, L
  <2> QED
    BY <1>2, FollowerExists
<1>5. \A i \in 0..L : g[i] = IF i = 0 THEN records ELSE next[<<i, g[i - 1]>>]
  <2> HIDE DEF next, L
  <2> QED
    BY <1>4, Zenon DEF Follows
<1>6. \A i \in 1..L : g[i - 1] \in Buckets => g[i] \in Buckets /\ g[i] = Search!upsert(g[i - 1], rec(i))
  <2> SUFFICES ASSUME NEW i \in 1..L, g[i - 1] \in Buckets
               PROVE  g[i] \in Buckets /\ g[i] = Search!upsert(g[i - 1], rec(i))
    OBVIOUS
  <2>1. i \in 0..L /\ i # 0
    BY <1>2
  <2> HIDE DEF Buckets, rec, L
  <2>2. next[<<i, g[i - 1]>>] = Search!upsert(g[i - 1], rec(i))
    OBVIOUS
  <2> HIDE DEF next
  <2> QED
    BY <1>3, <1>5, <2>1, <2>2
<1> HIDE DEF next
<1>7. \A i \in 0..L : g[i] \in Buckets
  <2>1. g[0] = records
    <3>1. 0 \in 0..L
      BY <1>2
    <3> HIDE DEF Buckets, L
    <3> QED
      BY <1>5, <3>1
  <2> HIDE DEF Buckets, L
  <2> QED
    BY <1>2, <1>6, <2>1, KeptUpTo
<1>8. g = Rec(g)
  <2>1. \A i \in 0..L : g[i] = IF i = 0 THEN records ELSE Search!upsert(g[i - 1], rec(i))
    <3> SUFFICES ASSUME NEW i \in 0..L
                 PROVE  g[i] = IF i = 0 THEN records ELSE Search!upsert(g[i - 1], rec(i))
      OBVIOUS
    <3>1. i # 0 => i \in 1..L /\ i - 1 \in 0..L
      BY <1>2
    <3> HIDE DEF Buckets, L, rec
    <3> QED
      BY <1>5, <1>6, <1>7, <3>1
  <2>2. g = [i \in 0..L |-> g[i]]
    BY <1>4 DEF Follows
  <2> HIDE DEF L
  <2> QED
    BY <2>1, <2>2, Zenon
<1>9. h = Rec(h)
  <2> HIDE DEF Rec
  <2> QED
    BY <1>8
<1>10. \A i \in 0..L : h[i] = IF i = 0 THEN records ELSE Search!upsert(h[i - 1], rec(i))
  <2> HIDE DEF h, L
  <2> QED
    BY <1>9, Zenon
<1> HIDE DEF h, rec
<1>11. h[0] \in Buckets /\ \A i \in 1..L : h[i - 1] \in Buckets => h[i] \in Buckets
  <2> HIDE DEF Buckets
  <2>1. \A i \in 1..L : i \in 0..L /\ i # 0
    BY <1>2
  <2>2. 0 \in 0..L
    BY <1>2
  <2> HIDE DEF L
  <2> QED
    BY <1>2, <1>3, <1>10, <2>1, <2>2
<1>12. h[L] \in Buckets
  <2> HIDE DEF Buckets, L
  <2> QED
    BY <1>2, <1>11, KeptUpTo
<1> QED
  BY <1>1, <1>12

LEMMA KeptIsBucket ==
    ASSUME NEW records, Bucket(records), NEW P \in SUBSET (DOMAIN records)
    PROVE  Bucket(Search!Kept(records, P))
<1> DEFINE n == Len(records)
           N == Cardinality(P)
           new == Search!Kept(records, P)
<1>1. n \in Nat /\ DOMAIN records = 1..n /\ \A i \in 1..n : records[i] \in Search!Record
  BY ElementOfSeq DEF Bucket
<1>2. N \in Nat /\ \E e \in Bijection(1..N, P) : new = Along(records, e, N)
  <2>1. P \in SUBSET (1..n)
    BY <1>1
  <2> HIDE DEF n
  <2> QED
    BY <1>1, <2>1, KeptInOrder
<1>3. PICK e \in Bijection(1..N, P) : new = [m \in 1..N |-> records[e[m]]]
  BY <1>2 DEF Along
<1> HIDE DEF n, N, new
<1>4. (\A m \in 1..N : e[m] \in 1..n) /\ (\A m, l \in 1..N : e[m] = e[l] => m = l)
  BY <1>1 DEF Bijection, Injection, IsInjective
<1>5. new \in Seq(Search!Record) /\ DOMAIN new = 1..N
  BY <1>1, <1>2, <1>3, <1>4
<1>6. OneRecordPerId(new)
  BY <1>1, <1>3, <1>4, <1>5 DEF OneRecordPerId, Bucket
<1> QED
  BY <1>5, <1>6 DEF Bucket, new

LEMMA SearchSteps == [ServicesNext]_allVars => [Search!Next]_(Search!searchVars)
BY DEF ServicesNext, allVars, searchVars, Search!searchVars

SearchInv ==
    /\ Search!TypeOK
    /\ \A n \in Namespaces : OneRecordPerId(data[n])
    /\ Search!AnswersBest

LEMMA InitSearchInv == Search!Init => SearchInv
<1> SUFFICES ASSUME Search!Init PROVE SearchInv
  OBVIOUS
<1>1. Search!TypeOK
  BY DEF Search!Init, Search!TypeOK
<1>2. \A n \in Namespaces : OneRecordPerId(data[n])
  BY DEF Search!Init, OneRecordPerId
<1> QED
  BY <1>1, <1>2 DEF Search!Init, Search!AnswersBest, SearchInv

LEMMA ShortSequences ==
    ASSUME NEW S, NEW s \in Search!SeqOf(S, 2) PROVE s \in Seq(S)
<1>1. PICK m \in 0..2 : s \in [1..m -> S]
  BY DEF Search!SeqOf
<1> QED
  BY <1>1

\* A step after which there is no answer.
LEMMA QuietSearch ==
    ASSUME SearchInv, job' \in [Callers -> Search!Stores \cup Search!Queries \cup {Search!NoJob}],
           answer' = Search!NoAnswer, data' \in [Namespaces -> Seq(Search!Record)],
           \A n \in Namespaces : Bucket(data'[n])
    PROVE  SearchInv'
BY DEF SearchInv, Search!TypeOK, Search!AnswersBest, Bucket

LEMMA AnsweredStep ==
    ASSUME SearchConstants, SearchInv, NEW c \in Callers, NEW q \in Vectors, Search!Answered(c, q)
    PROVE  SearchInv'
<1> DEFINE query == job[c]
           records == data[query.namespace]
           given == Search!Matches(query, q)
<1>1. query \in Search!Queries
  <2>1. query \in Search!Stores \cup Search!Queries \cup {Search!NoJob} /\ query.do = "query"
    BY DEF SearchInv, Search!TypeOK, Search!Answered
  <2> HIDE DEF query
  <2> QED
    BY <2>1 DEF Search!Stores, Search!NoJob
<1>2. /\ job' \in [Callers -> Search!Stores \cup Search!Queries \cup {Search!NoJob}]
      /\ data' = data /\ data' \in [Namespaces -> Seq(Search!Record)]
  BY DEF SearchInv, Search!TypeOK, Search!Answered
<1>3. query.namespace \in Namespaces
  BY <1>1 DEF Search!Queries
<1>4. CASE ~Search!Comparable(q, records)
  <2>1. answer' = Search!NoAnswer
    BY <1>4 DEF Search!Answered
  <2>2. \A n \in Namespaces : Bucket(data'[n])
    BY <1>2 DEF SearchInv, Bucket, Search!TypeOK
  <2> QED
    BY <1>2, <2>1, <2>2, QuietSearch
<1>5. CASE Search!Comparable(q, records)
  <2>1. answer' = [to |-> query, vector |-> q, matches |-> given]
    BY <1>5 DEF Search!Answered
  <2>2. records \in Seq(Search!Record) /\ OneRecordPerId(records)
    BY <1>3 DEF SearchInv, Search!TypeOK
  <2>3. answer'.to = query /\ answer'.vector = q /\ answer'.matches = given
    BY <2>1
  <2>4. data'[query.namespace] = records
    BY <1>2
  <2> HIDE DEF query, records, given
  <2>5. /\ given \in Seq(Search!Record)
        /\ Search!ToSet(given) \subseteq Search!ToSet(records) /\ Search!IsInjective(given)
        /\ Len(given) <= Search!TopK(query)
        /\ \A i \in DOMAIN given :
             /\ Search!Passes(query, q, given[i])
             /\ \A j \in 1..(i - 1) : ~Search!Closer(q, given[i].vector, given[j].vector)
        /\ \A r \in Search!ToSet(records) \ Search!ToSet(given) :
             \/ ~Search!Passes(query, q, r)
             \/ /\ Len(given) = Search!TopK(query)
                /\ \A i \in DOMAIN given : ~Search!Closer(q, r.vector, given[i].vector)
    BY <1>1, <1>5, <2>2, MatchesAreBest DEF records, given
  <2>6. Search!AnswersBest'
    BY <2>3, <2>4, <2>5 DEF Search!AnswersBest
  <2>7. Search!TypeOK'
    BY <1>1, <1>2, <2>3, <2>5 DEF Search!TypeOK
  <2>8. \A n \in Namespaces : OneRecordPerId(data'[n])
    BY <1>2 DEF SearchInv
  <2> QED
    BY <2>6, <2>7, <2>8 DEF SearchInv
<1> QED
  BY <1>4, <1>5

LEMMA NextSearchInv ==
    ASSUME SearchConstants PROVE SearchInv /\ [Search!Next]_(Search!searchVars) => SearchInv'
<1> SUFFICES ASSUME SearchInv, [Search!Next]_(Search!searchVars) PROVE SearchInv'
  OBVIOUS
<1> DEFINE Jobs == Search!Stores \cup Search!Queries \cup {Search!NoJob}
<1>1. data \in [Namespaces -> Seq(Search!Record)] /\ job \in [Callers -> Jobs]
  BY DEF SearchInv, Search!TypeOK
<1>2. \A n \in Namespaces : Bucket(data[n])
  BY <1>1 DEF SearchInv, Bucket
<1>3. Search!NoJob \in Jobs
  OBVIOUS
<1>4. ASSUME NEW c \in Callers, NEW j \in Search!Stores \cup Search!Queries, Search!Call(c, j)
      PROVE  SearchInv'
  <2>1. job' \in [Callers -> Jobs] /\ data' = data /\ answer' = Search!NoAnswer
    BY <1>1, <1>4 DEF Search!Call
  <2> QED
    BY <1>1, <1>2, <2>1, QuietSearch
<1>5. ASSUME NEW c \in Callers, NEW vectors \in Search!SeqOf(Vectors, 2), Search!Stored(c, vectors)
      PROVE  SearchInv'
  <2> DEFINE j == job[c]
             new == Search!upsert_batch(data[j.namespace], j.ids, vectors)
  <2>1. j \in Search!Stores
    <3>1. j \in Jobs /\ j.do = "store"
      BY <1>1, <1>5 DEF Search!Stored
    <3> HIDE DEF j
    <3> QED
      BY <3>1 DEF Search!Queries, Search!NoJob
  <2>2. /\ data' = [data EXCEPT ![j.namespace] = new] /\ answer' = Search!NoAnswer
        /\ job' = [job EXCEPT ![c] = Search!NoJob] /\ Len(vectors) = Len(j.ids)
    BY <1>5 DEF Search!Stored
  <2>3. j.namespace \in Namespaces /\ j.ids \in Search!SeqOf(Ids, 2)
    BY <2>1 DEF Search!Stores
  <2>4. job' \in [Callers -> Jobs]
    BY <1>1, <1>3, <2>2
  <2> HIDE DEF j
  <2>5. j.ids \in Seq(Ids) /\ vectors \in Seq(Vectors)
    BY <2>3, ShortSequences
  <2>6. Bucket(new)
    BY <1>2, <2>2, <2>3, <2>5, BatchKeepsBucket
  <2> HIDE DEF new
  <2>7. data' \in [Namespaces -> Seq(Search!Record)] /\ \A n \in Namespaces : Bucket(data'[n])
    BY <1>1, <1>2, <2>2, <2>3, <2>6 DEF Bucket
  <2> QED
    BY <2>2, <2>4, <2>7, QuietSearch
<1>6. ASSUME NEW c \in Callers, NEW q \in Vectors, Search!Answered(c, q) PROVE SearchInv'
  BY <1>6, AnsweredStep
<1>7. ASSUME NEW c \in Callers, Search!EmbedFails(c) PROVE SearchInv'
  <2>1. job' \in [Callers -> Jobs] /\ data' = data /\ answer' = Search!NoAnswer
    BY <1>1, <1>3, <1>7 DEF Search!EmbedFails
  <2> QED
    BY <1>1, <1>2, <2>1, QuietSearch
<1>8. ASSUME NEW n \in Namespaces, Search!DeleteNamespace(n) PROVE SearchInv'
  <2>1. data' = [data EXCEPT ![n] = <<>>] /\ job' = job /\ answer' = Search!NoAnswer
    BY <1>8 DEF Search!DeleteNamespace
  <2>2. Bucket(<<>>)
    BY DEF Bucket, OneRecordPerId
  <2>3. data' \in [Namespaces -> Seq(Search!Record)] /\ \A m \in Namespaces : Bucket(data'[m])
    BY <1>1, <1>2, <2>1, <2>2 DEF Bucket
  <2> QED
    BY <1>1, <2>1, <2>3, QuietSearch
<1>9. ASSUME NEW n \in Namespaces, NEW i \in Ids, Search!Delete(n, {i}) PROVE SearchInv'
  <2> DEFINE P == {k \in DOMAIN data[n] : data[n][k].id \notin {i}}
             new == Search!Kept(data[n], P)
  <2>1. data' = [data EXCEPT ![n] = new] /\ job' = job /\ answer' = Search!NoAnswer
    BY <1>9 DEF Search!Delete
  <2>2. Bucket(new)
    <3>1. P \in SUBSET (DOMAIN data[n]) /\ Bucket(data[n])
      BY <1>2
    <3> HIDE DEF P
    <3> QED
      BY <3>1, KeptIsBucket
  <2> HIDE DEF new
  <2>3. data' \in [Namespaces -> Seq(Search!Record)] /\ \A m \in Namespaces : Bucket(data'[m])
    BY <1>1, <1>2, <2>1, <2>2 DEF Bucket
  <2> QED
    BY <1>1, <2>1, <2>3, QuietSearch
<1>10. CASE UNCHANGED Search!searchVars
  <2>1. data' = data /\ job' = job /\ answer' = answer
    BY <1>10 DEF Search!searchVars
  <2>2. Search!TypeOK'
    BY <2>1 DEF SearchInv, Search!TypeOK
  <2>3. Search!AnswersBest'
    BY <2>1 DEF SearchInv, Search!AnswersBest
  <2> QED
    BY <2>1, <2>2, <2>3 DEF SearchInv
<1> QED
  BY <1>4, <1>5, <1>6, <1>7, <1>8, <1>9, <1>10 DEF Search!Next

-----------------------------------------------------------------------------
(* Everything together.                                                     *)

\* The limits, sizes and thresholds of the configuration are numbers; the administrators
\* that exist at the start have addresses, and payloads hold what the scan tells apart.
ServicesConstants ==
    /\ Failing \subseteq Modules                                    \* NexusBridge
    /\ AgentConstants /\ ImmuneConstants /\ SentinelConstants /\ SearchConstants
    /\ MaxRetries \in Nat /\ MaxDeployments \in Nat                 \* ChatService, Deployment
    /\ MaxChanges \in Nat /\ MaxDeaths \in Nat                      \* DeviceBans
    /\ MaxOps \in Nat /\ MaxBreaks \in Nat                          \* BlackholeSync
    /\ Slots \in Nat                                                \* Toolkit
    /\ AdminsHaveEmails /\ ScoresAreTenths /\ PayloadsAreScanned

TypesInv ==
    /\ part \in Parts
    /\ IInv /\ Nexus!TypeOK /\ AgentTyped /\ Chat!TypeOK /\ RowsInv /\ AccountsInv
    /\ Blackhole!TypeOK /\ Immune!TypeOK /\ SentinelTyped /\ ToolInv /\ GuardTyped
    /\ DeployTyped /\ SearchInv /\ BanTyped /\ ModInv

LEMMA GatewaySteps == [ServicesNext]_allVars => [Next]_vars
BY DEF ServicesNext, allVars

LEMMA PartStays == [ServicesNext]_allVars => part' = part
BY DEF ServicesNext, allVars

LEMMA InitTypesInv == ASSUME ServicesConstants PROVE ServicesInit => TypesInv
<1> SUFFICES ASSUME ServicesInit PROVE TypesInv
  OBVIOUS
<1>1. part \in Parts /\ IInv /\ Nexus!TypeOK /\ AgentTyped /\ Chat!TypeOK
  BY InitIInv, InitNexusTypes, InitAgentTyped, InitChatTypes DEF ServicesInit, ServicesConstants
<1>2. RowsInv /\ AccountsInv /\ Blackhole!TypeOK /\ Immune!TypeOK /\ SentinelTyped
  BY InitRowsInv, InitAccountsInv, InitHoleTypes, InitImmuneTypes, InitSentinelTyped
  DEF ServicesInit, ServicesConstants
<1>3. ToolInv /\ GuardTyped /\ DeployTyped /\ SearchInv /\ BanTyped /\ ModInv
  BY InitToolInv, GuardTypes, InitDeployTyped, InitSearchInv, InitBanTyped, InitModInv
  DEF ServicesInit, ServicesConstants
<1> QED
  BY <1>1, <1>2, <1>3 DEF TypesInv

LEMMA NextTypesInv == ASSUME ServicesConstants PROVE TypesInv /\ [ServicesNext]_allVars => TypesInv'
<1> SUFFICES ASSUME TypesInv, [ServicesNext]_allVars PROVE TypesInv'
  OBVIOUS
<1> USE DEF TypesInv
<1>1. (part \in Parts)' /\ IInv'
  BY PartStays, GatewaySteps, NextIInv DEF Parts
<1>2. Nexus!TypeOK' /\ AgentTyped' /\ Chat!TypeOK'
  BY NexusSteps, NextNexusTypes, AgentSteps, NextAgentTyped, ChatSteps, NextChatTypes DEF ServicesConstants
<1>3. RowsInv' /\ AccountsInv'
  BY ApiSteps, NextRowsInv, AccountSteps, NextAccountsInv
<1>4. Blackhole!TypeOK' /\ Immune!TypeOK' /\ SentinelTyped'
  BY HoleSteps, NextHoleTypes, ImmuneSteps, NextImmuneTypes, SentinelSteps, NextSentinelTyped
  DEF ServicesConstants
<1>5. ToolInv' /\ GuardTyped' /\ DeployTyped'
  BY ToolSteps, NextToolInv, GuardTypes, DeploySteps, NextDeployTyped DEF ServicesConstants
<1>6. SearchInv' /\ BanTyped' /\ ModInv'
  BY SearchSteps, NextSearchInv, BanSteps, NextBanTyped, ModerationSteps, NextModInv DEF ServicesConstants
<1> QED
  BY <1>1, <1>2, <1>3, <1>4, <1>5, <1>6

LEMMA TypesFollow == TypesInv => ServicesTypeOK
<1> SUFFICES ASSUME TypesInv PROVE ServicesTypeOK
  OBVIOUS
<1>1. TypeOK /\ Nexus!TypeOK /\ Agents!TypeOK /\ Chat!TypeOK /\ Api!TypeOK /\ Accounts!TypeOK
  BY AgentTypes DEF TypesInv, IInv, RowsInv, AccountsInv
<1>2. Blackhole!TypeOK /\ Immune!TypeOK /\ Guard!TypeOK /\ Tools!TypeOK /\ Deploy!TypeOK
  BY DEF TypesInv, SentinelTyped, ToolInv, DeployTyped
<1>3. Search!TypeOK /\ Bans!TypeOK /\ Moderator!TypeOK
  BY BanTypes DEF TypesInv, SearchInv, ModInv, Moderator!TypeOK
<1>4. part = "compliance" => Compliance!TypeOK
  BY DEF TypesInv, GuardTyped
<1>5. part \in Parts
  BY DEF TypesInv
<1> QED
  BY <1>1, <1>2, <1>3, <1>4, <1>5 DEF ServicesTypeOK, Parts

\* Whatever the services' parameters and whatever steps interleave, every variable of the
\* part that steps keeps its type, and every bounded count its bound.
THEOREM ServicesTyped == ASSUME ServicesConstants PROVE ServicesSpec => []ServicesTypeOK
<1> QED
  BY InitTypesInv, NextTypesInv, TypesFollow, PTL DEF ServicesSpec

\* However stores, deletions and queries of any number of callers interleave, and whatever
\* numbers the embeddings are, a query is answered with the most similar records of its
\* namespace that pass its threshold, best first, and with as many as it asked for.
THEOREM QueriesFindBest == ASSUME ServicesConstants PROVE ServicesSpec => []AnswersBest
<1>1. TypesInv => AnswersBest
  BY TypesFollow DEF TypesInv, SearchInv, AnswersBest
<1> QED
  BY <1>1, InitTypesInv, NextTypesInv, PTL DEF ServicesSpec

=============================================================================
