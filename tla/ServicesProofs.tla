--------------------------- MODULE ServicesProofs ---------------------------
(***************************************************************************)
(* What TLAPS proves of the backend's services, for any values of their    *)
(* parameters.  Each section is about one of them: its invariant, and the  *)
(* theorem for the specification in which they stand side by side.         *)
(***************************************************************************)
EXTENDS Services, SequenceTheorems, WellFoundedInduction, TLAPS

-----------------------------------------------------------------------------
(* The chat service: for any number of senders and of retries.              *)

LEMMA ChatSteps == [ServicesNext]_allVars => [Chat!Next]_(Chat!chatVars)
BY DEF ServicesNext, allVars, chatVars, Chat!chatVars

Stages == {"new", "call", "backoff", "replied", "failed", "refused"}

\* Only what the argument needs of the types.
SendingOK == sending \in [Senders -> Stages]

\* While the session is gone it was ended or deleted, and every call that still awaits
\* its provider was under way then: nobody begins a call without the session.
LateKnown == ~stored => over /\ Chat!UnderWay \subseteq late

ChatInv == SendingOK /\ LateKnown

LEMMA InitChatInv == Chat!Init => ChatInv
BY DEF Chat!Init, ChatInv, SendingOK, LateKnown, Stages

\* Moving one sender brings nobody new under way, unless it is what begins a call.
LEMMA GotoKeepsOthers ==
    ASSUME SendingOK, NEW s \in Senders, NEW p \in Stages, Chat!Goto(s, p)
    PROVE  /\ SendingOK'
           /\ sending'[s] = p
           /\ p \notin {"call", "backoff"} \/ s \in Chat!UnderWay => Chat!UnderWay' \subseteq Chat!UnderWay
BY DEF SendingOK, Chat!Goto, Chat!UnderWay, Chat!Awaiting

LEMMA NextChatInv == ChatInv /\ [Chat!Next]_(Chat!chatVars) => ChatInv'
<1> SUFFICES ASSUME ChatInv, [Chat!Next]_(Chat!chatVars) PROVE ChatInv'
  OBVIOUS
<1> USE DEF ChatInv
<1>1. CASE Chat!End
  BY <1>1 DEF Chat!End, Chat!delete, SendingOK, LateKnown, Chat!UnderWay, Chat!Awaiting
<1>2. CASE Chat!TTL
  BY <1>2 DEF Chat!TTL, SendingOK, LateKnown, Chat!UnderWay, Chat!Awaiting
<1>3. ASSUME NEW s \in Senders, Chat!Refuse(s) PROVE ChatInv'
  <2>1. Chat!Goto(s, "refused") /\ "refused" \in Stages
    BY <1>3 DEF Chat!Refuse, Stages
  <2>2. SendingOK' /\ Chat!UnderWay' \subseteq Chat!UnderWay
    BY <2>1, GotoKeepsOthers
  <2>3. CASE stored
    BY <1>3, <2>2, <2>3 DEF Chat!Refuse, Chat!delete, LateKnown
  <2>4. CASE ~stored
    BY <1>3, <2>2, <2>4 DEF Chat!Refuse, LateKnown
  <2> QED
    BY <2>3, <2>4
<1>4. ASSUME NEW s \in Senders, Chat!Send(s) PROVE ChatInv'
  BY <1>4, GotoKeepsOthers DEF Chat!Send, LateKnown, Stages
<1>5. ASSUME NEW s \in Senders, Chat!Reply(s) PROVE ChatInv'
  BY <1>5, GotoKeepsOthers DEF Chat!Reply, LateKnown, Stages
<1>6. ASSUME NEW s \in Senders, Chat!Fail(s) PROVE ChatInv'
  <2>1. s \in Chat!UnderWay
    BY <1>6 DEF Chat!Fail, Chat!UnderWay, Chat!Awaiting
  <2>2. PICK p \in Stages : Chat!Goto(s, p)
    BY <1>6 DEF Chat!Fail, Stages
  <2> QED
    BY <1>6, <2>1, <2>2, GotoKeepsOthers DEF Chat!Fail, LateKnown
<1>7. ASSUME NEW s \in Senders, Chat!Retry(s) PROVE ChatInv'
  <2>1. s \in Chat!UnderWay
    BY <1>7 DEF Chat!Retry, Chat!UnderWay, Chat!Awaiting
  <2> QED
    BY <1>7, <2>1, GotoKeepsOthers DEF Chat!Retry, LateKnown, Stages
<1>8. CASE UNCHANGED Chat!chatVars
  BY <1>8 DEF Chat!chatVars, SendingOK, LateKnown, Chat!UnderWay, Chat!Awaiting
<1> QED
  BY <1>1, <1>2, <1>3, <1>4, <1>5, <1>6, <1>7, <1>8 DEF Chat!Next

\* Only a reply makes the session stored, and a reply is to a call that awaited it.
LEMMA OnlyReplyStores ==
    ASSUME ChatInv, [Chat!Next]_(Chat!chatVars), ~stored, stored'
    PROVE  \E s \in late : Chat!Awaiting(s) /\ sending'[s] = "replied"
<1>1. PICK s \in Senders : Chat!Reply(s)
  BY DEF Chat!Next, Chat!End, Chat!TTL, Chat!Refuse, Chat!Send, Chat!Fail, Chat!Retry, Chat!delete, Chat!chatVars
<1>2. s \in Chat!UnderWay /\ Chat!Awaiting(s)
  BY <1>1 DEF Chat!Reply, Chat!UnderWay, Chat!Awaiting
<1>3. sending'[s] = "replied"
  BY <1>1, GotoKeepsOthers DEF Chat!Reply, ChatInv, Stages
<1> QED
  BY <1>2, <1>3 DEF ChatInv, LateKnown

\* However many callers share a session and however often their provider calls are
\* retried, what the user cleared is revived by a late reply and by nothing else.
THEOREM ClearedStaysCleared == ServicesSpec => RevivedOnlyByLateReply
<1>1. ChatInv /\ [Chat!Next]_(Chat!chatVars) =>
        [over /\ ~stored /\ stored' => \E s \in late : Chat!Awaiting(s) /\ sending'[s] = "replied"]_(Chat!chatVars)
  BY OnlyReplyStores
<1>2. ServicesInit => Chat!Init
  BY DEF ServicesInit
<1> QED
  BY <1>1, <1>2, ChatSteps, InitChatInv, NextChatInv, PTL
  DEF ServicesSpec, RevivedOnlyByLateReply, Chat!RevivedOnlyByLateReply

-----------------------------------------------------------------------------
(* Blackhole synchronisation: for any number of nodes, calls, broken         *)
(* connections and deaths, as long as one node at most is operated.          *)

LEMMA HoleSteps == [ServicesNext]_allVars => [Blackhole!Next]_(Blackhole!holeVars)
BY DEF ServicesNext, allVars, holeVars, Blackhole!holeVars

OneOperator == \A m, n \in Operators : m = n

\* No call stands between its key and its publication.
AllTold == \A n \in Nodes : op[n].step # "publish"
Message == [what : {"valid", "expired", "none"}, from : Nodes]

\* What the argument needs of the types.
MailOK ==
    /\ local \in [Nodes -> {"none", "valid", "expired"}]
    /\ op \in [Nodes -> [what : {"none", "ban", "unban"}, step : {"key", "publish", "done"}]]
    /\ listener \in [Nodes -> {"stopped", "off", "scan", "apply", "on"}]
    /\ found \in [Nodes -> {"none", "valid", "expired"}]
    /\ inbox \in [Nodes -> Seq(Message)]

\* A node that is not subscribed has no mail: what it missed it finds in the key.
Deaf == \A n \in Nodes : listener[n] \in {"stopped", "off"} => inbox[n] = <<>>

\* Only operated nodes have calls under way and send messages, and when one of them
\* publishes, the key is already what it says.
Operated ==
    /\ \A n \in Nodes : op[n] # Blackhole!NoOp => n \in Operators
    /\ \A n \in Nodes : op[n].step = "publish" => key = (op[n].what = "ban")
    /\ \A n \in Nodes : op[n].step # "done" => op[n].what # "none"
    /\ \A n \in Nodes : \A i \in 1..Len(inbox[n]) : inbox[n][i].from \in Operators

\* The last thing a node that listens will hear or read is the ban: the last message
\* of its inbox, or else the record its scan holds, or what it holds already.  A node
\* that is yet to scan will find the key.
WillBlock(n) ==
    /\ listener[n] \in {"scan", "apply", "on"} /\ inbox[n] # <<>>
            => inbox[n][Len(inbox[n])].what = "valid"
    /\ listener[n] = "apply" /\ inbox[n] = <<>> => found[n] = "valid"
    /\ listener[n] = "on" /\ inbox[n] = <<>> => local[n] = "valid"

Reached == key /\ ~silent /\ AllTold => \A n \in Nodes \ Operators : WillBlock(n)

HoleInv == MailOK /\ Deaf /\ Operated /\ Reached

\* An inbox that gets one message more, or loses its first one.
LEMMA Appended ==
    ASSUME NEW S, NEW s \in Seq(S), NEW x \in S
    PROVE  /\ Append(s, x) \in Seq(S)
           /\ Append(s, x) # <<>>
           /\ Append(s, x)[Len(Append(s, x))] = x
           /\ \A i \in 1..Len(Append(s, x)) :
                Append(s, x)[i] = x \/ (i \in 1..Len(s) /\ Append(s, x)[i] = s[i])
BY AppendProperties

LEMMA Removed ==
    ASSUME NEW S, NEW s \in Seq(S), s # <<>>
    PROVE  /\ Head(s) \in S /\ Head(s) = s[1] /\ 1 \in 1..Len(s)
           /\ Tail(s) \in Seq(S)
           /\ \A i \in 1..Len(Tail(s)) : i + 1 \in 1..Len(s) /\ Tail(s)[i] = s[i + 1]
           /\ Tail(s) = <<>> => s[Len(s)] = Head(s)
           /\ Tail(s) # <<>> => Tail(s)[Len(Tail(s))] = s[Len(s)]
<1>1. /\ Head(s) \in S /\ Head(s) = s[1] /\ Tail(s) \in Seq(S)
      /\ Len(s) \in Nat /\ Len(Tail(s)) = Len(s) - 1
      /\ \A i \in 1..Len(Tail(s)) : Tail(s)[i] = s[i + 1]
  BY HeadTailProperties
<1>2. Len(s) # 0 /\ (Tail(s) = <<>> <=> Len(Tail(s)) = 0)
  BY <1>1, EmptySeq
<1> QED
  BY <1>1, <1>2

LEMMA InitHoleInv == Blackhole!Init => HoleInv
BY EmptySeq DEF Blackhole!Init, HoleInv, MailOK, Deaf, Operated, Reached, Blackhole!NoOp, Message

\* The steps of a call.  The publication settles everything: whoever listens then has
\* the ban as the last message, whatever it has read before.
LEMMA CallSteps ==
    ASSUME OneOperator, HoleInv, NEW n \in Nodes,
           \/ \E what \in {"ban", "unban"} : Blackhole!Call(n, what)
           \/ Blackhole!SetKey(n)
           \/ Blackhole!Publish(n)
    PROVE  (MailOK /\ Operated /\ Reached)'
<1> USE DEF HoleInv
<1>0. ASSUME NEW m \in Nodes PROVE op[m].step = "publish" => op[m] # Blackhole!NoOp
  BY DEF Blackhole!NoOp
<1>1. ASSUME NEW what \in {"ban", "unban"}, Blackhole!Call(n, what) PROVE (MailOK /\ Operated /\ Reached)'
  <2>1. op'[n] = [what |-> what, step |-> "key"] /\ op'[n] # Blackhole!NoOp
    BY <1>1 DEF Blackhole!Call, MailOK, Blackhole!NoOp
  <2>2. MailOK'
    BY <1>1 DEF Blackhole!Call, MailOK, Blackhole!Holds, Blackhole!Record, Blackhole!NoOp
  <2>3. Operated'
    BY <1>1, <2>1 DEF Blackhole!Call, MailOK, Operated, Blackhole!NoOp
  <2>4. Reached'
    <3>1. UNCHANGED <<key, silent, listener, found, inbox>> /\ n \in Operators /\ op[n].step = "done"
      BY <1>1 DEF Blackhole!Call, Blackhole!NoOp
    <3>2. \A m \in Nodes : m # n => op'[m] = op[m] /\ local'[m] = local[m]
      BY <1>1 DEF Blackhole!Call, Blackhole!Holds, MailOK
    <3>3. AllTold' => AllTold
      BY <3>1, <3>2 DEF AllTold
    <3>4. ASSUME NEW m \in Nodes \ Operators, WillBlock(m) PROVE WillBlock(m)'
      BY <3>1, <3>2, <3>4 DEF WillBlock
    <3> QED
      BY <3>1, <3>3, <3>4 DEF Reached
  <2> QED
    BY <2>2, <2>3, <2>4
<1>2. ASSUME Blackhole!SetKey(n) PROVE (MailOK /\ Operated /\ Reached)'
  <2>1. op[n] # Blackhole!NoOp /\ n \in Operators
    BY <1>2 DEF Blackhole!SetKey, Blackhole!NoOp, Operated
  <2>2. \A m \in Nodes : m # n => op[m] = Blackhole!NoOp
    BY <2>1 DEF Operated, OneOperator
  <2>3. op'[n].step = "publish" /\ op'[n].what = op[n].what /\ op'[n] # Blackhole!NoOp
    BY <1>2 DEF Blackhole!SetKey, MailOK, Blackhole!NoOp
  <2>4. MailOK'
    BY <1>2 DEF Blackhole!SetKey, MailOK
  <2>5. Operated'
    BY <1>2, <2>1, <2>2, <2>3 DEF Blackhole!SetKey, MailOK, Operated, Blackhole!NoOp
  <2>6. Reached'
    BY <2>3 DEF Reached, AllTold
  <2> QED
    BY <2>4, <2>5, <2>6
<1>3. ASSUME Blackhole!Publish(n) PROVE (MailOK /\ Operated /\ Reached)'
  <2> DEFINE note == [what |-> Blackhole!Record(op[n].what), from |-> n]
  <2>1. n \in Operators /\ note \in Message
    BY <1>3 DEF Blackhole!Publish, Blackhole!NoOp, Operated, Blackhole!Record, Message
  <2>2. \A m \in Nodes : \/ inbox'[m] = inbox[m] /\ listener[m] \in {"stopped", "off"}
                         \/ inbox'[m] = Append(inbox[m], note)
    BY <1>3 DEF Blackhole!Publish, MailOK
  <2>3. inbox' \in [Nodes -> Seq(Message)]
    <3>1. inbox' = [m \in Nodes |-> inbox'[m]]
      BY <1>3 DEF Blackhole!Publish
    <3>2. ASSUME NEW m \in Nodes PROVE inbox'[m] \in Seq(Message)
      <4>1. inbox[m] \in Seq(Message)
        BY DEF MailOK
      <4>2. Append(inbox[m], note) \in Seq(Message)
        BY <2>1, <4>1, AppendProperties
      <4> QED
        BY <2>2, <4>1, <4>2
    <3> QED
      BY <3>1, <3>2
  <2>4. MailOK'
    BY <1>3, <2>3 DEF Blackhole!Publish, MailOK, Blackhole!NoOp
  <2>5. ASSUME NEW m \in Nodes, NEW i \in 1..Len(inbox'[m])
        PROVE  inbox'[m][i].from \in Operators
    <3>1. CASE inbox'[m] = inbox[m]
      BY <3>1 DEF Operated
    <3>2. CASE inbox'[m] = Append(inbox[m], note)
      <4>1. inbox'[m][i] = note \/ (i \in 1..Len(inbox[m]) /\ inbox'[m][i] = inbox[m][i])
        BY <2>1, <3>2, Appended DEF MailOK
      <4> QED
        BY <2>1, <4>1 DEF Operated
    <3> QED
      BY <2>2, <3>1, <3>2
  <2>6. Operated'
    BY <1>3, <2>5 DEF Blackhole!Publish, MailOK, Operated, Blackhole!NoOp
  <2>7. key' => note.what = "valid"
    BY <1>3 DEF Blackhole!Publish, Operated, Blackhole!Record
  <2>8. ASSUME NEW m \in Nodes, key' PROVE WillBlock(m)'
    <3>1. listener'[m] = listener[m]
      BY <1>3 DEF Blackhole!Publish
    <3>2. CASE inbox'[m] = Append(inbox[m], note)
      <4>1. inbox'[m] # <<>> /\ inbox'[m][Len(inbox'[m])] = note
        BY <2>1, <3>2, Appended DEF MailOK
      <4> QED
        BY <2>7, <2>8, <4>1 DEF WillBlock
    <3> QED
      BY <2>2, <3>1, <3>2 DEF WillBlock
  <2> QED
    BY <2>4, <2>6, <2>8 DEF Reached
<1> QED
  BY <1>1, <1>2, <1>3

\* A call that ends early has told the others nothing: what they know is what the key
\* says, unless it was to publish a ban.
LEMMA EarlyEnds ==
    ASSUME OneOperator, HoleInv, NEW n \in Nodes, Blackhole!Abandon(n) \/ Blackhole!Die(n)
    PROVE  (MailOK /\ Deaf /\ Operated /\ Reached)'
<1> USE DEF HoleInv
<1>1. /\ op' = [op EXCEPT ![n] = Blackhole!NoOp] /\ UNCHANGED key
      /\ silent' = (silent \/ op[n] = [what |-> "ban", step |-> "publish"])
      /\ \/ UNCHANGED <<local, listener, found, inbox>>
         \/ /\ local' = [local EXCEPT ![n] = "none"] /\ listener' = [listener EXCEPT ![n] = "stopped"]
            /\ inbox' = [inbox EXCEPT ![n] = <<>>] /\ found' = [found EXCEPT ![n] = "none"]
  BY Zenon DEF Blackhole!Abandon, Blackhole!Die, Blackhole!EndEarly, Blackhole!Holds
<1>2. /\ op'[n] = Blackhole!NoOp /\ \A m \in Nodes : m # n => op'[m] = op[m]
      /\ op' \in [Nodes -> [what : {"none", "ban", "unban"}, step : {"key", "publish", "done"}]]
  BY <1>1 DEF MailOK, Blackhole!NoOp
<1>3. inbox' \in [Nodes -> Seq(Message)] /\ \A m \in Nodes : inbox'[m] = inbox[m] \/ inbox'[m] = <<>>
  <2>1. inbox \in [Nodes -> Seq(Message)]
    BY DEF MailOK
  <2>2. CASE inbox' = inbox
    BY <2>1, <2>2
  <2>3. CASE inbox' = [inbox EXCEPT ![n] = <<>>]
    <3>1. <<>> \in Seq(Message)
      BY EmptySeq
    <3> QED
      BY <2>1, <2>3, <3>1
  <2> QED
    BY <1>1, <2>2, <2>3
<1>4. MailOK'
  <2>1. /\ local' \in [Nodes -> {"none", "valid", "expired"}] /\ found' \in [Nodes -> {"none", "valid", "expired"}]
        /\ listener' \in [Nodes -> {"stopped", "off", "scan", "apply", "on"}]
    BY <1>1 DEF MailOK
  <2> QED
    BY <1>2, <1>3, <2>1 DEF MailOK
<1>5. Deaf'
  BY <1>1 DEF Deaf, MailOK
<1>6. Operated'
  <2>1. \A m \in Nodes : op'[m] # Blackhole!NoOp => op'[m] = op[m]
    BY <1>2
  <2>2. \A m \in Nodes : \A i \in 1..Len(inbox'[m]) : inbox'[m][i].from \in Operators
    BY <1>3 DEF Operated
  <2>3. Blackhole!NoOp.step = "done"
    BY DEF Blackhole!NoOp
  <2> QED
    BY <1>1, <2>1, <2>2, <2>3 DEF Operated
<1>7. Reached'
  <2> SUFFICES ASSUME key, ~silent', AllTold', NEW m \in Nodes \ Operators PROVE WillBlock(m)'
    BY <1>1 DEF Reached
  <2>1. ~silent
    BY <1>1
  <2>2. op[n].step # "publish"
    <3>1. SUFFICES ASSUME op[n].step = "publish" PROVE FALSE
      OBVIOUS
    <3>2. op[n].what = "ban"
      BY <3>1 DEF Operated
    <3>3. op[n] = [what |-> "ban", step |-> "publish"]
      BY <3>1, <3>2 DEF MailOK
    <3> QED
      BY <1>1, <3>3
  <2>3. AllTold
    BY <1>2, <2>2 DEF AllTold
  <2>4. WillBlock(m)
    BY <2>1, <2>3 DEF Reached
  <2> QED
    BY <1>1, <2>4 DEF WillBlock, MailOK
<1> QED
  BY <1>4, <1>5, <1>6, <1>7

\* A node's listener works on what is already there.
LEMMA ListenerSteps ==
    ASSUME HoleInv, NEW n \in Nodes,
           \/ Blackhole!Subscribe(n) \/ Blackhole!Scan(n) \/ Blackhole!Apply(n) \/ Blackhole!Receive(n)
           \/ Blackhole!Break(n) \/ Blackhole!Stop(n) \/ Blackhole!Start(n) \/ Blackhole!Evict(n)
    PROVE  (MailOK /\ Operated /\ Reached)'
<1> USE DEF HoleInv
<1>1. UNCHANGED <<key, op, silent>> /\ AllTold' = AllTold
  BY DEF Blackhole!Subscribe, Blackhole!Scan, Blackhole!Apply, Blackhole!Receive, Blackhole!Break, Blackhole!Stop, Blackhole!Leave, Blackhole!Start, Blackhole!Evict, AllTold
<1>2. CASE Blackhole!Receive(n)
  <2> DEFINE mail == inbox[n]
  <2>1. mail \in Seq(Message) /\ mail # <<>>
    BY <1>2 DEF Blackhole!Receive, MailOK
  <2>2. /\ Head(mail) \in Message /\ Head(mail) = mail[1] /\ 1 \in 1..Len(mail)
        /\ Tail(mail) \in Seq(Message)
        /\ \A i \in 1..Len(Tail(mail)) : i + 1 \in 1..Len(mail) /\ Tail(mail)[i] = mail[i + 1]
        /\ Tail(mail) = <<>> => mail[Len(mail)] = Head(mail)
        /\ Tail(mail) # <<>> => Tail(mail)[Len(Tail(mail))] = mail[Len(mail)]
    BY <2>1, Removed
  <2>3. MailOK'
    BY <1>2, <2>2 DEF Blackhole!Receive, MailOK, Blackhole!Holds, Message
  <2>4. inbox'[n] = Tail(mail) /\ \A m \in Nodes : m # n => inbox'[m] = inbox[m]
    BY <1>2 DEF Blackhole!Receive, MailOK
  <2>5. Operated'
    <3>1. ASSUME NEW m \in Nodes, NEW i \in 1..Len(inbox'[m])
          PROVE  inbox'[m][i].from \in Operators
      <4>1. CASE m = n
        BY <2>2, <2>4, <3>1, <4>1 DEF Operated
      <4>2. CASE m # n
        BY <2>4, <3>1, <4>2 DEF Operated
      <4> QED
        BY <4>1, <4>2
    <3> QED
      BY <1>1, <3>1 DEF Operated
  <2>6. ASSUME n \notin Operators, WillBlock(n) PROVE WillBlock(n)'
    <3>1. Head(mail).from \in Operators
      BY <2>2 DEF Operated
    <3>2. local'[n] = Head(mail).what /\ listener'[n] = "on"
      BY <1>2, <2>6, <3>1 DEF Blackhole!Receive, Blackhole!Holds, MailOK
    <3>3. mail[Len(mail)].what = "valid"
      BY <1>2, <2>1, <2>6 DEF Blackhole!Receive, WillBlock
    <3> QED
      BY <2>2, <2>4, <3>2, <3>3 DEF WillBlock
  <2>7. \A m \in Nodes : m # n /\ WillBlock(m) => WillBlock(m)'
    BY <1>2 DEF Blackhole!Receive, WillBlock, Blackhole!Holds, MailOK
  <2> QED
    BY <1>1, <2>3, <2>5, <2>6, <2>7 DEF Reached
<1>3. CASE Blackhole!Subscribe(n) \/ Blackhole!Scan(n) \/ Blackhole!Apply(n) \/ Blackhole!Break(n) \/ Blackhole!Stop(n) \/ Blackhole!Start(n) \/ Blackhole!Evict(n)
  <2>1. MailOK'
    <3>1. CASE Blackhole!Subscribe(n) \/ Blackhole!Start(n)
      BY <3>1 DEF Blackhole!Subscribe, Blackhole!Start, MailOK
    <3>2. CASE Blackhole!Scan(n)
      BY <3>2 DEF Blackhole!Scan, MailOK
    <3>3. CASE Blackhole!Apply(n) \/ Blackhole!Evict(n)
      BY <3>3 DEF Blackhole!Apply, Blackhole!Evict, Blackhole!Holds, MailOK
    <3>4. CASE Blackhole!Break(n) \/ Blackhole!Stop(n)
      <4>1. inbox' = [m \in Nodes |-> IF m = n THEN <<>> ELSE inbox[m]]
        BY <3>4 DEF Blackhole!Break, Blackhole!Stop, Blackhole!Leave, MailOK
      <4>2. inbox' \in [Nodes -> Seq(Message)]
        BY <4>1, EmptySeq DEF MailOK
      <4> QED
        BY <3>4, <4>2 DEF Blackhole!Break, Blackhole!Stop, Blackhole!Leave, MailOK
    <3> QED
      BY <1>3, <3>1, <3>2, <3>3, <3>4
  <2>2. \A m \in Nodes : inbox'[m] = inbox[m] \/ inbox'[m] = <<>>
    BY <1>3 DEF Blackhole!Subscribe, Blackhole!Scan, Blackhole!Apply, Blackhole!Break, Blackhole!Stop, Blackhole!Leave, Blackhole!Start, Blackhole!Evict, MailOK
  <2>3. Operated'
    BY <1>1, <2>2 DEF Operated
  <2>4. ASSUME key, NEW m \in Nodes, WillBlock(m) PROVE WillBlock(m)'
    <3>1. CASE m # n
      BY <1>3, <2>4, <3>1
      DEF Blackhole!Subscribe, Blackhole!Scan, Blackhole!Apply, Blackhole!Break, Blackhole!Stop, Blackhole!Leave, Blackhole!Start, Blackhole!Evict, WillBlock, MailOK, Blackhole!Holds
    <3>2. CASE m = n /\ Blackhole!Subscribe(n)
      BY <2>4, <3>2 DEF Blackhole!Subscribe, WillBlock, MailOK, Deaf
    <3>5. CASE m = n /\ Blackhole!Start(n)
      BY <2>4, <3>5 DEF Blackhole!Start, WillBlock, MailOK, Deaf
    <3>3. CASE m = n /\ (Blackhole!Scan(n) \/ Blackhole!Apply(n))
      BY <2>4, <3>3 DEF Blackhole!Scan, Blackhole!Apply, WillBlock, MailOK, Blackhole!Holds
    <3>4. CASE m = n /\ (Blackhole!Break(n) \/ Blackhole!Stop(n) \/ Blackhole!Evict(n))
      BY <2>4, <3>4 DEF Blackhole!Break, Blackhole!Stop, Blackhole!Leave, Blackhole!Evict, WillBlock, MailOK, Blackhole!Holds
    <3> QED
      BY <1>3, <3>1, <3>2, <3>3, <3>4, <3>5
  <2> QED
    BY <1>1, <2>1, <2>3, <2>4 DEF Reached
<1> QED
  BY <1>2, <1>3

\* The key goes with the ban.
LEMMA HoleExpireStep == HoleInv /\ Blackhole!Expire => (MailOK /\ Operated /\ Reached)'
<1> SUFFICES ASSUME HoleInv, Blackhole!Expire PROVE (MailOK /\ Operated /\ Reached)'
  OBVIOUS
<1> USE DEF HoleInv
<1>1. \A r \in {"none", "valid", "expired"} : Blackhole!Aged(r) \in {"none", "valid", "expired"}
  BY DEF Blackhole!Aged
<1>2. PICK S \in SUBSET Nodes, gone \in BOOLEAN :
        /\ silent \/ (Nodes \ Operators \subseteq S /\ gone)
        /\ key' = (key /\ ~gone)
        /\ local' = [n \in Nodes |-> IF n \in S THEN Blackhole!Aged(local[n]) ELSE local[n]]
        /\ found' = [n \in Nodes |-> IF n \in S THEN Blackhole!Aged(found[n]) ELSE found[n]]
        /\ inbox' = [n \in Nodes |->
                        IF n \notin S THEN inbox[n]
                        ELSE [i \in DOMAIN inbox[n] |-> [inbox[n][i] EXCEPT !.what = Blackhole!Aged(@)]]]
  BY Zenon DEF Blackhole!Expire
<1>3. ASSUME NEW n \in Nodes
      PROVE  /\ inbox'[n] \in Seq(Message) /\ Len(inbox'[n]) = Len(inbox[n])
             /\ \A i \in 1..Len(inbox[n]) : inbox'[n][i].from = inbox[n][i].from
  <2>1. CASE n \notin S
    BY <1>2, <2>1 DEF MailOK
  <2>2. CASE n \in S
    <3>1. inbox'[n] = [i \in 1..Len(inbox[n]) |-> [inbox[n][i] EXCEPT !.what = Blackhole!Aged(inbox[n][i].what)]]
      BY <1>2, <2>2 DEF MailOK
    <3>2. \A i \in 1..Len(inbox[n]) : inbox[n][i] \in Message
      BY DEF MailOK
    <3>3. \A i \in 1..Len(inbox[n]) : /\ inbox'[n][i] \in Message
                                      /\ inbox'[n][i].from = inbox[n][i].from
      BY <1>1, <3>1, <3>2 DEF Message
    <3>4. Len(inbox[n]) \in Nat
      BY DEF MailOK
    <3>5. inbox'[n] \in [1..Len(inbox[n]) -> Message]
      BY <3>1, <3>3
    <3>6. inbox'[n] \in Seq(Message) /\ Len(inbox'[n]) = Len(inbox[n])
      BY <3>4, <3>5
    <3> QED
      BY <3>3, <3>6
  <2> QED
    BY <2>1, <2>2
<1>4. inbox' \in [Nodes -> Seq(Message)]
  <2>1. inbox' = [n \in Nodes |-> inbox'[n]]
    BY <1>2
  <2> QED
    BY <1>3, <2>1
<1>5. UNCHANGED <<op, listener, silent>> /\ \A n \in Nodes : op[n] = Blackhole!NoOp
  BY DEF Blackhole!Expire
<1>6. MailOK'
  BY <1>1, <1>2, <1>4, <1>5 DEF MailOK
<1>7. Operated'
  BY <1>3, <1>5 DEF Operated, Blackhole!NoOp
<1>8. Reached'
  BY <1>2, <1>5 DEF Reached
<1> QED
  BY <1>6, <1>7, <1>8

\* Mail arrives at subscribers only, and who leaves throws it away.
LEMMA StaysDeaf == HoleInv /\ [Blackhole!Next]_(Blackhole!holeVars) => Deaf'
<1> SUFFICES ASSUME MailOK, Deaf, [Blackhole!Next]_(Blackhole!holeVars) PROVE Deaf'
  BY DEF HoleInv
<1>1. ASSUME NEW n \in Nodes,
             \/ \E what \in {"ban", "unban"} : Blackhole!Call(n, what)
             \/ Blackhole!SetKey(n) \/ Blackhole!Publish(n) \/ Blackhole!Subscribe(n) \/ Blackhole!Scan(n) \/ Blackhole!Apply(n) \/ Blackhole!Start(n) \/ Blackhole!Evict(n)
      PROVE  Deaf'
  BY <1>1 DEF Blackhole!Call, Blackhole!SetKey, Blackhole!Publish, Blackhole!Subscribe, Blackhole!Scan, Blackhole!Apply, Blackhole!Start, Blackhole!Evict, Deaf, MailOK
<1>2. ASSUME NEW n \in Nodes, Blackhole!Receive(n) PROVE Deaf'
  BY <1>2 DEF Blackhole!Receive, Deaf, MailOK
<1>3. ASSUME NEW n \in Nodes,
             Blackhole!Break(n) \/ Blackhole!Stop(n) \/ Blackhole!Abandon(n) \/ Blackhole!Die(n)
      PROVE  Deaf'
  BY <1>3 DEF Blackhole!Break, Blackhole!Stop, Blackhole!Leave, Blackhole!Abandon, Blackhole!Die, Deaf, MailOK
<1>4. CASE Blackhole!Expire
  <2>1. ASSUME NEW n \in Nodes, inbox[n] = <<>> PROVE inbox'[n] = <<>>
    BY <1>4, <2>1 DEF Blackhole!Expire
  <2> QED
    BY <1>4, <2>1 DEF Blackhole!Expire, Deaf
<1>5. CASE UNCHANGED Blackhole!holeVars
  BY <1>5 DEF Blackhole!holeVars, Deaf
<1> QED
  BY <1>1, <1>2, <1>3, <1>4, <1>5 DEF Blackhole!Next

LEMMA NextHoleInv == OneOperator /\ HoleInv /\ [Blackhole!Next]_(Blackhole!holeVars) => HoleInv'
<1> SUFFICES ASSUME OneOperator, HoleInv, [Blackhole!Next]_(Blackhole!holeVars) PROVE HoleInv'
  OBVIOUS
<1>1. Deaf'
  BY StaysDeaf
<1>2. CASE UNCHANGED Blackhole!holeVars
  BY <1>1, <1>2 DEF Blackhole!holeVars, HoleInv, MailOK, Operated, Reached, AllTold, WillBlock
<1> QED
  BY <1>1, <1>2, CallSteps, EarlyEnds, ListenerSteps, HoleExpireStep DEF Blackhole!Next, HoleInv

\* With one operated node, a ban that is in Redis holds at every other node that
\* listens and has caught up: no connection that broke, no process that died, no call
\* that failed, no scan that was late and no unban or expiry before it leaves a node
\* open, but for the ban whose call ended between its key and its publication.
THEOREM BanReachesAll ==
    ASSUME OneOperator PROVE ServicesSpec => []BanReaches
<1>1. HoleInv => BanReaches
  BY DEF BanReaches, HoleInv, Reached, AllTold, WillBlock, Blackhole!NoOp, Blackhole!BanReaches, Blackhole!CaughtUp, Blackhole!Blocked
<1>2. HoleInv /\ [Blackhole!Next]_(Blackhole!holeVars) => HoleInv'
  BY NextHoleInv
<1>3. ServicesInit => Blackhole!Init
  BY DEF ServicesInit
<1> QED
  BY <1>1, <1>2, <1>3, HoleSteps, InitHoleInv, PTL DEF ServicesSpec

-----------------------------------------------------------------------------
(* Device bans: for any devices, any number of calls and of deaths.          *)

LEMMA BanSteps == [ServicesNext]_allVars => [Bans!Next]_(Bans!banVars)
BY DEF ServicesNext, allVars, banVars, Bans!banVars

Save == [device : Devices, done : {"banned", "free"}, entries : Bans!Bans]

\* What the argument needs of the types.
StoreOK ==
    /\ bans \in Bans!Bans /\ file \in Bans!Bans
    /\ saves \in Seq(Save)
    /\ promise \in [Devices -> {"nothing", "banned", "free"}]

\* The file is what the call that has the lock wrote.
FileIsHead == replaced => saves # <<>> /\ file = saves[1].entries

\* What check() may make of an entry.
Came(v, w) == w = v \/ (v = "expired" /\ w = "none")

\* Among the calls under way the last one on its device decides: every later snapshot
\* repeats its entry, and so does the memory, unless it has expired.
LastOnDevice(i) == \A j \in (i + 1)..Len(saves) : saves[j].device # saves[i].device
Decides(i) ==
    /\ \A j \in i..Len(saves) :
            Came(saves[i].entries[saves[i].device], saves[j].entries[saves[i].device])
    /\ Came(saves[i].entries[saves[i].device], bans[saves[i].device])
    /\ saves[i].done = "free" => saves[i].entries[saves[i].device] = "none"
LastDecides == \A i \in 1..Len(saves) : LastOnDevice(i) => Decides(i)

\* Once promised, an entry is the same in the memory, in the file and in every snapshot
\* that may still be written over the file.
Settled(d) ==
    /\ \A i \in 1..Len(saves) : saves[i].device # d /\ saves[i].entries[d] = bans[d]
    /\ file[d] = bans[d]
    /\ promise[d] = "banned" => Bans!Active(d)
    /\ promise[d] = "free" => bans[d] = "none"
PromisedSettled == \A d \in Devices : promise[d] # "nothing" => Settled(d)

BanInv == StoreOK /\ FileIsHead /\ LastDecides /\ PromisedSettled

LEMMA InitBanInv == Bans!Init => BanInv
<1> SUFFICES ASSUME Bans!Init PROVE BanInv
  OBVIOUS
<1>1. saves = <<>> /\ Len(saves) = 0 /\ saves \in Seq(Save)
  BY EmptySeq DEF Bans!Init
<1> QED
  BY <1>1 DEF Bans!Init, BanInv, StoreOK, Bans!Bans, Bans!Entry, FileIsHead, LastDecides, PromisedSettled

-----------------------------------------------------------------------------
\* ban() and unban(): the new snapshot is the new memory.
LEMMA SaveStep ==
    ASSUME BanInv, NEW d \in Devices, NEW done \in {"banned", "free"}, NEW v \in Bans!Entry,
           Bans!save(d, done, [bans EXCEPT ![d] = v]), done = "free" => v = "none"
    PROVE  BanInv'
<1> DEFINE new == [device |-> d, done |-> done, entries |-> bans']
           n == Len(saves)
<1> USE DEF BanInv
<1>1. /\ bans' \in Bans!Bans /\ bans'[d] = v
      /\ \A e \in Devices : e # d => bans'[e] = bans[e]
  BY DEF Bans!save, StoreOK, Bans!Bans
<1>2. saves' = Append(saves, new) /\ new \in Save /\ saves \in Seq(Save)
  BY <1>1 DEF Bans!save, Save, StoreOK
<1>3. /\ saves' \in Seq(Save) /\ saves' # <<>> /\ Len(saves') = n + 1 /\ n \in Nat
      /\ saves'[n + 1] = new /\ \A i \in 1..n : saves'[i] = saves[i] /\ saves[i] \in Save
  BY <1>2, AppendProperties, LenProperties
<1> HIDE DEF new, n
<1>4. StoreOK'
  BY <1>1, <1>3 DEF Bans!save, StoreOK
<1>5. FileIsHead'
  <2>1. saves # <<>> => 1 \in 1..n
    BY <1>2, EmptySeq DEF n
  <2> QED
    BY <1>3, <2>1 DEF Bans!save, FileIsHead
<1>6. LastDecides'
  <2>1. ASSUME NEW i \in 1..Len(saves'), LastOnDevice(i)' PROVE Decides(i)'
    <3>1. CASE i = n + 1
      BY <1>1, <1>3, <3>1 DEF Decides, Came, new
    <3>2. CASE i \in 1..n
      <4>1. saves[i].device # d /\ saves[i].device \in Devices
        BY <1>3, <2>1, <3>2 DEF LastOnDevice, new, Save
      <4>2. LastOnDevice(i)
        BY <1>3, <2>1, <3>2 DEF LastOnDevice, n
      <4>3. Decides(i)
        BY <3>2, <4>2 DEF LastDecides, n
      <4>4. saves'[i] = saves[i] /\ bans'[saves[i].device] = bans[saves[i].device]
        BY <1>1, <1>3, <3>2, <4>1
      <4>5. ASSUME NEW j \in i..Len(saves')
            PROVE  Came(saves[i].entries[saves[i].device], saves'[j].entries[saves[i].device])
        <5>1. CASE j = n + 1
          BY <1>3, <4>3, <4>4, <5>1 DEF Decides, new
        <5>2. CASE j \in i..n
          BY <1>3, <3>2, <4>3, <5>2 DEF Decides, n
        <5> QED
          BY <1>3, <3>2, <4>5, <5>1, <5>2
      <4> QED
        BY <4>3, <4>4, <4>5 DEF Decides
    <3> QED
      BY <1>3, <3>1, <3>2
  <2> QED
    BY <2>1 DEF LastDecides
<1>7. PromisedSettled'
  <2>1. ASSUME NEW e \in Devices, promise'[e] # "nothing" PROVE Settled(e)'
    <3>1. e # d /\ promise'[e] = promise[e]
      BY <2>1 DEF Bans!save, StoreOK
    <3>2. Settled(e)
      BY <2>1, <3>1 DEF PromisedSettled
    <3> QED
      BY <1>1, <1>3, <3>1, <3>2 DEF Settled, Bans!Active, Bans!save, new, n
  <2> QED
    BY <2>1 DEF PromisedSettled
<1> QED
  BY <1>4, <1>5, <1>6, <1>7

LEMMA ReplaceStep == BanInv /\ Bans!Replace => BanInv'
<1> SUFFICES ASSUME BanInv, Bans!Replace PROVE BanInv'
  OBVIOUS
<1> USE DEF BanInv
<1>1. saves \in Seq(Save) /\ saves # <<>> /\ saves' = saves /\ 1 \in 1..Len(saves)
  BY EmptySeq DEF Bans!Replace, StoreOK
<1>2. Head(saves) = saves[1] /\ saves[1] \in Save
  BY <1>1
<1>3. StoreOK' /\ FileIsHead' /\ LastDecides'
  BY <1>1, <1>2
  DEF Bans!Replace, StoreOK, Save, FileIsHead, LastDecides, LastOnDevice, Decides
<1>4. PromisedSettled'
  BY <1>1, <1>2 DEF Bans!Replace, PromisedSettled, Settled, Bans!Active
<1> QED
  BY <1>3, <1>4

\* Returning, a call makes its promise if it was the last on its device.
LEMMA ReturnStep == BanInv /\ Bans!Return => BanInv'
<1> SUFFICES ASSUME BanInv, Bans!Return PROVE BanInv'
  OBVIOUS
<1> USE DEF BanInv
<1> DEFINE n == Len(saves)
<1>1. saves \in Seq(Save) /\ saves # <<>> /\ file = saves[1].entries
  BY DEF Bans!Return, FileIsHead, StoreOK
<1>2. /\ Head(saves) = saves[1] /\ saves[1] \in Save /\ 1 \in 1..n /\ n \in Nat
      /\ Tail(saves) \in Seq(Save) /\ Len(Tail(saves)) = n - 1
      /\ \A i \in 1..(n - 1) : Tail(saves)[i] = saves[i + 1] /\ i + 1 \in 1..n
      /\ DOMAIN Tail(saves) = 1..(n - 1)
  BY <1>1, HeadTailProperties, EmptySeq, LenProperties
<1>3. saves' = Tail(saves) /\ UNCHANGED <<bans, file>> /\ ~replaced'
  BY DEF Bans!Return
<1>4. PICK d \in Devices : /\ saves[1].device = d /\ Head(saves).device = d
                           /\ saves[1].done \in {"banned", "free"}
  BY <1>2 DEF Save
<1>5. \A e \in Devices : e # d => promise'[e] = promise[e]
  BY <1>4 DEF Bans!Return, StoreOK
<1> HIDE DEF n
<1>6. StoreOK' /\ FileIsHead'
  <2>1. promise' \in [Devices -> {"nothing", "banned", "free"}]
    BY <1>2, <1>4 DEF Bans!Return, StoreOK
  <2> QED
    BY <1>2, <1>3, <2>1 DEF StoreOK, FileIsHead
<1>7. LastDecides'
  <2>1. ASSUME NEW i \in 1..(n - 1), LastOnDevice(i)' PROVE Decides(i)'
    <3>1. saves'[i] = saves[i + 1] /\ i + 1 \in 1..n
      BY <1>2, <1>3
    <3>2. \A j \in (i + 2)..n : j - 1 \in (i + 1)..(n - 1) /\ saves'[j - 1] = saves[j]
      BY <1>2, <1>3
    <3>3. LastOnDevice(i + 1)
      <4>1. \A j \in (i + 1)..(n - 1) : saves'[j].device # saves'[i].device
        BY <1>2, <1>3, <2>1 DEF LastOnDevice
      <4>2. \A j \in (i + 1 + 1)..n : saves[j].device # saves[i + 1].device
        BY <1>2, <3>1, <3>2, <4>1
      <4>3. QED
        BY <4>2 DEF LastOnDevice, n
    <3>4. Decides(i + 1)
      BY <3>1, <3>3 DEF LastDecides, n
    <3>5. \A j \in i..(n - 1) : saves'[j] = saves[j + 1] /\ j + 1 \in (i + 1)..n
      BY <1>2, <1>3, <2>1
    <3> QED
      BY <1>2, <1>3, <3>1, <3>4, <3>5 DEF Decides, n
  <2> QED
    BY <1>2, <1>3, <2>1 DEF LastDecides
<1>8. PromisedSettled'
  <2>1. ASSUME NEW e \in Devices, e # d, promise'[e] # "nothing" PROVE Settled(e)'
    <3>1. Settled(e) /\ promise'[e] = promise[e]
      BY <1>5, <2>1 DEF PromisedSettled
    <3> QED
      BY <1>2, <1>3, <3>1 DEF Settled, Bans!Active, n
  <2>2. ASSUME promise'[d] # "nothing" PROVE Settled(d)'
    <3>1. promise[d] = "nothing"
      BY <1>2, <1>4 DEF PromisedSettled, Settled, n
    <3>2. /\ promise'[d] = saves[1].done
          /\ saves[1].done = "banned" => Bans!Active(d)
          /\ \A i \in 1..(n - 1) : Tail(saves)[i].device # d
      BY <1>2, <1>4, <2>2, <3>1 DEF Bans!Return, StoreOK
    <3>3. LastOnDevice(1)
      <4>1. \A j \in 2..n : j - 1 \in 1..(n - 1) /\ Tail(saves)[j - 1] = saves[j]
        BY <1>2
      <4>2. \A j \in 2..n : saves[j].device # d
        BY <3>2, <4>1
      <4> QED
        BY <1>4, <4>2 DEF LastOnDevice, n
    <3>4. Decides(1)
      BY <1>2, <3>3 DEF LastDecides, n
    <3>5. saves[1].entries[d] = bans[d] /\ bans[d] # "expired"
      BY <1>4, <3>2, <3>4 DEF Decides, Came, Bans!Active
    <3>6. \A j \in 1..n : saves[j].entries[d] = bans[d]
      BY <1>4, <3>4, <3>5 DEF Decides, Came, n
    <3>7. file[d] = bans[d]
      BY <1>1, <3>5
    <3>8. promise'[d] = "free" => bans[d] = "none"
      BY <1>4, <3>2, <3>4, <3>5 DEF Decides
    <3>9. \A i \in 1..Len(saves') : saves'[i].device # d /\ saves'[i].entries[d] = bans'[d]
      BY <1>2, <1>3, <3>2, <3>6
    <3>10. promise'[d] = "banned" => Bans!Active(d)'
      BY <1>3, <3>2 DEF Bans!Active
    <3> QED
      BY <1>3, <3>7, <3>8, <3>9, <3>10 DEF Settled
  <2> QED
    BY <1>4, <2>1, <2>2 DEF PromisedSettled
<1> QED
  BY <1>6, <1>7, <1>8

\* check() forgets expired bans, of which nothing is promised.
LEMMA CheckStep ==
    ASSUME BanInv, NEW d \in Devices, Bans!check(d)
    PROVE  BanInv'
<1> USE DEF BanInv
<1>1. UNCHANGED <<file, saves, replaced, promise>>
  BY DEF Bans!check
<1>2. bans' \in Bans!Bans /\ \A e \in Devices : Came(bans[e], bans'[e])
  BY DEF Bans!check, StoreOK, Bans!Bans, Bans!Entry, Came
<1>3. StoreOK' /\ FileIsHead'
  BY <1>1, <1>2 DEF StoreOK, FileIsHead
<1>4. \A i \in 1..Len(saves) : saves[i].device \in Devices
  <2>1. \A i \in 1..Len(saves) : saves[i] \in Save
    BY LenProperties DEF StoreOK
  <2> QED
    BY <2>1 DEF Save
<1>5. \A i \in 1..Len(saves) : Decides(i) => Decides(i)'
  BY <1>1, <1>2, <1>4 DEF Decides, Came
<1>6. LastDecides'
  BY <1>1, <1>5 DEF LastDecides, LastOnDevice
<1>7. PromisedSettled'
  <2>1. ASSUME NEW e \in Devices, promise[e] # "nothing" PROVE Settled(e)'
    <3>1. Settled(e) /\ promise[e] \in {"banned", "free"}
      BY <2>1 DEF PromisedSettled, StoreOK
    <3>2. bans'[e] = bans[e]
      BY <1>2, <3>1 DEF Settled, Bans!Active, Came
    <3> QED
      BY <1>1, <3>1, <3>2 DEF Settled, Bans!Active
  <2> QED
    BY <1>1, <2>1 DEF PromisedSettled
<1> QED
  BY <1>3, <1>6, <1>7

Expired(v) == IF v = "temporary" THEN "expired" ELSE v

\* Every copy of a ban expires at the same time, and with it the promise.
LEMMA BanExpireStep ==
    ASSUME BanInv, NEW d \in Devices, Bans!Expire(d)
    PROVE  BanInv'
<1> USE DEF BanInv
<1> DEFINE Aged(f) == [f EXCEPT ![d] = Expired(f[d])]
           n == Len(saves)
<1>1. \A f \in Bans!Bans : /\ Aged(f) \in Bans!Bans
                      /\ \A e \in Devices : Aged(f)[e] = IF e = d THEN Expired(f[e]) ELSE f[e]
  BY DEF Bans!Bans, Bans!Entry, Expired
<1>2. bans' = Aged(bans) /\ file' = Aged(file) /\ replaced' = replaced
  BY DEF Bans!Expire, Expired
<1>3. /\ n \in Nat /\ DOMAIN saves = 1..n
      /\ \A i \in 1..n : saves[i] \in Save /\ saves[i].entries \in Bans!Bans
                         /\ saves[i].device \in Devices
  <2>1. n \in Nat /\ DOMAIN saves = 1..n /\ saves \in [1..n -> Save]
    BY LenProperties DEF StoreOK
  <2>2. \A x \in Save : x.entries \in Bans!Bans /\ x.device \in Devices
    BY DEF Save
  <2> QED
    BY <2>1, <2>2
<1>4. saves' = [i \in 1..n |-> [saves[i] EXCEPT !.entries = Aged(saves[i].entries)]]
  BY <1>3 DEF Bans!Expire, Expired
<1> HIDE DEF Aged, n
<1>5. \A i \in 1..n : /\ saves'[i] \in Save /\ saves'[i].device = saves[i].device
                      /\ saves'[i].done = saves[i].done
                      /\ saves'[i].entries = Aged(saves[i].entries)
  BY <1>1, <1>3, <1>4 DEF Save
<1>6. saves' \in [1..n -> Save]
  BY <1>4, <1>5
<1>7. saves' \in Seq(Save) /\ Len(saves') = n
  BY <1>3, <1>6
<1>8. /\ promise' \in [Devices -> {"nothing", "banned", "free"}]
      /\ \A e \in Devices : /\ e # d => promise'[e] = promise[e]
                            /\ promise'[e] # "nothing" => promise[e] # "nothing"
      /\ promise'[d] # "banned" /\ (promise'[d] = "free" => promise[d] = "free")
  BY DEF Bans!Expire, StoreOK
<1>9. StoreOK'
  BY <1>1, <1>2, <1>7, <1>8 DEF StoreOK
<1>10. FileIsHead'
  <2>1. ASSUME replaced' PROVE saves' # <<>> /\ file' = saves'[1].entries
    <3>1. saves # <<>> /\ file = saves[1].entries /\ 1 \in 1..n
      BY <1>2, <2>1, EmptySeq DEF FileIsHead, StoreOK, n
    <3> QED
      BY <1>2, <1>3, <1>5, <1>7, <3>1, EmptySeq
  <2> QED
    BY <2>1 DEF FileIsHead
<1>11. \A v, w : Came(v, w) => Came(Expired(v), Expired(w))
  BY DEF Came, Expired
<1>12. LastDecides'
  <2>1. ASSUME NEW i \in 1..n, LastOnDevice(i)' PROVE Decides(i)'
    <3>1. LastOnDevice(i)
      BY <1>5, <1>7, <2>1 DEF LastOnDevice, n
    <3>2. Decides(i)
      BY <3>1 DEF LastDecides, n
    <3> DEFINE e == saves[i].device
    <3>3. e \in Devices /\ e = saves'[i].device
      BY <1>3, <1>5
    <3>4. \A j \in i..n : Came(saves'[i].entries[e], saves'[j].entries[e])
      BY <1>1, <1>3, <1>5, <1>11, <3>2, <3>3 DEF Decides, n
    <3>5. Came(saves'[i].entries[e], bans'[e])
      BY <1>1, <1>2, <1>3, <1>5, <1>11, <3>2, <3>3 DEF Decides, StoreOK
    <3>6. saves'[i].done = "free" => saves'[i].entries[e] = "none"
      BY <1>1, <1>3, <1>5, <3>2, <3>3 DEF Decides, Expired
    <3> QED
      BY <1>7, <3>3, <3>4, <3>5, <3>6 DEF Decides
  <2> QED
    BY <1>7, <2>1 DEF LastDecides
<1>13. PromisedSettled'
  <2>1. ASSUME NEW e \in Devices, promise'[e] # "nothing" PROVE Settled(e)'
    <3>1. Settled(e)
      BY <1>8, <2>1 DEF PromisedSettled
    <3>2. \A i \in 1..n : saves'[i].device # e /\ saves'[i].entries[e] = bans'[e]
      BY <1>1, <1>2, <1>3, <1>5, <3>1 DEF Settled, StoreOK, n
    <3>3. file'[e] = bans'[e]
      BY <1>1, <1>2, <3>1 DEF Settled, StoreOK
    <3>4. promise'[e] = "banned" => e # d /\ bans'[e] = bans[e] /\ promise[e] = "banned"
      BY <1>1, <1>2, <1>8 DEF StoreOK
    <3>5. promise'[e] = "free" => bans'[e] = "none"
      BY <1>1, <1>2, <1>8, <3>1 DEF StoreOK, Settled, Expired
    <3> QED
      BY <1>7, <3>1, <3>2, <3>3, <3>4, <3>5 DEF Settled, Bans!Active
  <2> QED
    BY <2>1 DEF PromisedSettled
<1> QED
  BY <1>9, <1>10, <1>12, <1>13

\* The file holds everything that was promised.
LEMMA RestartStep == BanInv /\ Bans!Restart => BanInv'
<1> SUFFICES ASSUME BanInv, Bans!Restart PROVE BanInv'
  OBVIOUS
<1>1. saves' = <<>> /\ Len(saves') = 0 /\ saves' \in Seq(Save)
  BY EmptySeq DEF Bans!Restart
<1> QED
  BY <1>1
  DEF Bans!Restart, BanInv, StoreOK, FileIsHead, LastDecides, PromisedSettled, Settled, Bans!Active

LEMMA NextBanInv == BanInv /\ [Bans!Next]_(Bans!banVars) => BanInv'
<1> SUFFICES ASSUME BanInv, [Bans!Next]_(Bans!banVars) PROVE BanInv'
  OBVIOUS
<1>1. ASSUME NEW d \in Devices, NEW ttl \in {0, 1}, Bans!ban(d, ttl) PROVE BanInv'
  BY <1>1, SaveStep DEF Bans!ban, Bans!Entry
<1>2. ASSUME NEW d \in Devices, Bans!unban(d) PROVE BanInv'
  BY <1>2, SaveStep DEF Bans!unban, Bans!Entry
<1>3. CASE UNCHANGED Bans!banVars
  BY <1>3 DEF Bans!banVars, BanInv, StoreOK, FileIsHead, LastDecides, LastOnDevice, Decides,
              PromisedSettled, Settled, Bans!Active
<1> QED
  BY <1>1, <1>2, <1>3, CheckStep, BanExpireStep, ReplaceStep, ReturnStep, RestartStep DEF Bans!Next

\* Whatever calls overlap and wherever the process dies, a device stays banned until
\* its ban expires, and free until it is banned again.
THEOREM BansSurvive == ServicesSpec => []PromisesKept
<1>1. BanInv => PromisesKept
  BY DEF PromisesKept, BanInv, PromisedSettled, Settled, Bans!PromisesKept, Bans!Active
<1>2. ServicesInit => Bans!Init
  BY DEF ServicesInit
<1> QED
  BY <1>1, <1>2, BanSteps, InitBanInv, NextBanInv, PTL DEF ServicesSpec

-----------------------------------------------------------------------------
(* External agents: for any number of callers, versions, attempts and slots. *)

LEMMA AgentSteps == [ServicesNext]_allVars => [Agents!Next]_(Agents!agentVars)
BY DEF ServicesNext, allVars, agentVars, Agents!agentVars, Agents!breaker, Agents!tokens, Agents!caller

\* What the argument needs of the types, and that who fetches a token does nothing else.
CallersOK ==
    /\ phase \in [Callers -> {"idle", "auth", "check", "call", "sleep"}]
    /\ fetching \subseteq Callers /\ trials \subseteq Callers
    /\ \A c \in fetching : phase[c] = "auth"

\* As any report ends the half-open state, whoever was let in since is still calling.
TrialsCalling ==
    /\ lost = 0 /\ circuit = "half_open" => trials # {} /\ \A c \in trials : phase[c] = "call"
    /\ circuit # "half_open" => trials = {}

AgentInv == CallersOK /\ lost \in Nat /\ TrialsCalling

LEMMA InitAgentInv == Agents!Init => AgentInv
BY DEF Agents!Init, AgentInv, CallersOK, TrialsCalling

\* A caller that is not in a call moves elsewhere than into one; nobody reports.
LEMMA QuietStep ==
    ASSUME AgentInv, NEW c \in Callers, phase[c] # "call",
           \E p \in {"idle", "auth", "check", "sleep"} : Agents!Goto(c, p),
           UNCHANGED Agents!breaker, lost' = lost
    PROVE  TrialsCalling'
BY DEF AgentInv, CallersOK, TrialsCalling, Agents!Goto, Agents!breaker

\* A report ends the half-open state, late or not.
LEMMA ReportEndsTrial ==
    ASSUME Agents!on_success \/ Agents!on_failure
    PROVE  circuit' # "half_open"
BY DEF Agents!on_success, Agents!on_failure

LEMMA NextAgentInv == AgentInv /\ [Agents!Next]_(Agents!agentVars) => AgentInv'
<1> SUFFICES ASSUME AgentInv, [Agents!Next]_(Agents!agentVars) PROVE AgentInv'
  OBVIOUS
<1> USE DEF AgentInv
<1>1. ASSUME NEW c \in Callers, Agents!Ask(c) PROVE AgentInv'
  <2>1. CallersOK' /\ lost' = lost
    BY <1>1 DEF Agents!Ask, Agents!Goto, CallersOK, Agents!breaker, Agents!tokens
  <2> QED
    BY <1>1, <2>1, QuietStep DEF Agents!Ask
<1>2. ASSUME NEW c \in Callers, Agents!UseToken(c) PROVE AgentInv'
  <2>1. CallersOK' /\ lost' = lost
    BY <1>2 DEF Agents!UseToken, Agents!Goto, CallersOK, Agents!breaker, Agents!tokens
  <2> QED
    BY <1>2, <2>1, QuietStep DEF Agents!UseToken
<1>3. ASSUME NEW c \in Callers, Agents!FetchToken(c) PROVE AgentInv'
  BY <1>3 DEF Agents!FetchToken, CallersOK, TrialsCalling, Agents!breaker, Agents!caller
<1>4. ASSUME NEW c \in Callers, Agents!TokenArrives(c) PROVE AgentInv'
  <2>1. phase[c] = "auth" /\ \E p \in {"check", "idle"} : Agents!Goto(c, p)
    BY <1>4 DEF Agents!TokenArrives, Agents!Finish, CallersOK
  <2>2. CallersOK' /\ lost' = lost
    BY <1>4, <2>1 DEF Agents!TokenArrives, Agents!Goto, CallersOK, Agents!breaker
  <2> QED
    BY <1>4, <2>1, <2>2, QuietStep DEF Agents!TokenArrives
<1>5. ASSUME NEW c \in Callers, Agents!Attempt(c) PROVE AgentInv'
  <2>1. CASE Agents!Finish(c) /\ UNCHANGED Agents!breaker
    <3>1. CallersOK' /\ lost' = lost /\ phase[c] # "call"
      BY <1>5, <2>1 DEF Agents!Attempt, Agents!Finish, Agents!Goto, CallersOK, Agents!breaker, Agents!tokens
    <3> QED
      BY <2>1, <3>1, QuietStep DEF Agents!Finish
  <2>2. CASE Agents!before_call(c) /\ Agents!Goto(c, "call")
    <3>1. CallersOK' /\ lost' = lost
      BY <1>5, <2>2 DEF Agents!Attempt, Agents!Goto, Agents!before_call, CallersOK, Agents!tokens
    <3>2. phase'[c] = "call" /\ \A d \in Callers : d # c => phase'[d] = phase[d]
      BY <2>2 DEF Agents!Goto, CallersOK
    <3>3. TrialsCalling'
      <4>1. CASE circuit = "half_open"
        BY <2>2, <3>1, <3>2, <4>1 DEF Agents!before_call, Agents!Trying, TrialsCalling, CallersOK
      <4>2. CASE circuit # "half_open"
        BY <2>2, <3>1, <3>2, <4>2 DEF Agents!before_call, Agents!Trying, TrialsCalling, CallersOK
      <4> QED
        BY <4>1, <4>2
    <3> QED
      BY <3>1, <3>3
  <2> QED
    BY <1>5, <2>1, <2>2 DEF Agents!Attempt
<1>6. ASSUME NEW c \in Callers, Agents!TransportError(c) \/ Agents!RetryableStatus(c) \/ Agents!Reply(c) \/ Agents!Missing(c)
      PROVE AgentInv'
  <2>1. Agents!on_success \/ Agents!on_failure
    BY <1>6 DEF Agents!TransportError, Agents!RetryableStatus, Agents!Reply, Agents!Missing
  <2>2. phase[c] = "call" /\ lost' = lost /\ UNCHANGED Agents!tokens /\ \E p \in {"idle", "auth", "sleep"} : Agents!Goto(c, p)
    BY <1>6 DEF Agents!TransportError, Agents!RetryableStatus, Agents!Reply, Agents!Missing, Agents!Finish
  <2>3. trials' = {} /\ circuit' # "half_open"
    <3>1. trials' = {}
      BY <2>1 DEF Agents!on_success, Agents!on_failure, TrialsCalling
    <3> QED
      BY <2>1, <3>1, ReportEndsTrial
  <2>4. CallersOK'
    BY <2>2, <2>3 DEF Agents!Goto, CallersOK, Agents!tokens
  <2>5. TrialsCalling'
    BY <2>3 DEF TrialsCalling
  <2> QED
    BY <2>2, <2>4, <2>5
<1>7. ASSUME NEW c \in Callers, Agents!Wake(c) PROVE AgentInv'
  <2>1. phase[c] = "sleep" /\ \E p \in {"check", "idle"} : Agents!Goto(c, p)
    BY <1>7 DEF Agents!Wake, Agents!Finish
  <2>2. CallersOK' /\ lost' = lost
    BY <1>7, <2>1 DEF Agents!Wake, Agents!Goto, CallersOK, Agents!breaker, Agents!tokens
  <2> QED
    BY <1>7, <2>1, <2>2, QuietStep DEF Agents!Wake
<1>8. ASSUME NEW c \in Callers, Agents!Lose(c) PROVE AgentInv'
  BY <1>8 DEF Agents!Lose, Agents!Finish, Agents!Goto, CallersOK, TrialsCalling, Agents!breaker, Agents!tokens
<1>9. CASE Agents!Recovery \/ Agents!TokenExpires \/ UNCHANGED Agents!agentVars
  BY <1>9 DEF Agents!Recovery, Agents!TokenExpires, Agents!agentVars, CallersOK, TrialsCalling, Agents!breaker, Agents!tokens, Agents!caller
<1> QED
  BY <1>1, <1>2, <1>3, <1>4, <1>5, <1>6, <1>7, <1>8, <1>9 DEF Agents!Next, Agents!Step

\* As long as no caller is lost in its call, a half-open breaker that refuses everybody
\* waits for a call that is under way.
THEOREM TrialsReport == ServicesSpec => []TrialUnderWay
<1>1. AgentInv => TrialUnderWay
  BY DEF AgentInv, TrialsCalling, TrialUnderWay, Agents!TrialUnderWay
<1>2. ServicesInit => Agents!Init
  BY DEF ServicesInit
<1> QED
  BY <1>1, <1>2, AgentSteps, InitAgentInv, NextAgentInv, PTL DEF ServicesSpec

-----------------------------------------------------------------------------
(* The deployment orchestrator: for any number of deployments.              *)

LEMMA DeploySteps == [ServicesNext]_allVars => [Deploy!Next]_(Deploy!deployVars)
BY DEF ServicesNext, allVars, deployVars, Deploy!deployVars

\* Traffic only moves to the latest revision, and what moves it is only reached from
\* the end of a soak: nothing in between deploys another one.
DeployInv == full \in soaked /\ (step \in {"promote", "rollback"} => latest \in soaked)

LEMMA NextDeployInv == DeployInv /\ [Deploy!Next]_(Deploy!deployVars) => DeployInv'
<1> SUFFICES ASSUME DeployInv, [Deploy!Next]_(Deploy!deployVars) PROVE DeployInv'
  OBVIOUS
<1> USE DEF DeployInv, Deploy!Goes, Deploy!Ends, Deploy!TrafficVars
<1>1. CASE Deploy!Run
  BY <1>1 DEF Deploy!Run
<1>2. CASE Deploy!Check
  BY <1>2 DEF Deploy!Check
<1>3. CASE Deploy!Deploy
  BY <1>3 DEF Deploy!Deploy
<1>4. CASE Deploy!Split
  BY <1>4 DEF Deploy!Split
<1>5. CASE Deploy!Soak
  BY <1>5 DEF Deploy!Soak
<1>6. CASE Deploy!Promote
  BY <1>6 DEF Deploy!Promote, Deploy!ToLatest
<1>7. CASE Deploy!Rollback
  BY <1>7 DEF Deploy!Rollback, Deploy!ToLatest
<1>8. CASE Deploy!Killed \/ UNCHANGED Deploy!deployVars
  BY <1>8 DEF Deploy!Killed, Deploy!deployVars
<1> QED
  BY <1>1, <1>2, <1>3, <1>4, <1>5, <1>6, <1>7, <1>8 DEF Deploy!Next

\* However many pipelines run, fail and are killed, the revision with the larger share of
\* traffic is one whose soak has ended.
THEOREM TrafficIsSoaked == ServicesSpec => []FullIsSoaked
<1>1. ServicesInit => DeployInv
  BY DEF ServicesInit, Deploy!Init, DeployInv
<1>2. DeployInv => FullIsSoaked
  BY DEF DeployInv, FullIsSoaked, Deploy!FullIsSoaked
<1> QED
  BY <1>1, <1>2, DeploySteps, NextDeployInv, PTL DEF ServicesSpec

-----------------------------------------------------------------------------
(* The transactions of the API: for any number of users, of addresses and of *)
(* requests under way, whichever statements their transactions interleave.   *)

LEMMA ApiSteps == [ServicesNext]_allVars => [Api!Next]_(Api!apiVars)
BY DEF ServicesNext, allVars, apiVars, Api!apiVars

\* The platform starts with administrators that have an address each.
AdminsHaveEmails ==
    /\ \A u \in FirstAdmins : EmailOf[u] \in Emails
    /\ \A u, v \in FirstAdmins : EmailOf[u] = EmailOf[v] => u = v

Account == [email : Emails \cup {None}, active : BOOLEAN, super : BOOLEAN]

\* A transaction that has written an address and is not over.
Claims(r) == tx[r].stage = "flushed" /\ tx[r].op \in {"register", "email"} /\ tx[r].email # None

\* The unique index: nobody else has the address, and no other transaction wrote it.
Reserved == \A r \in HttpRequests : Claims(r) => ~Api!Taken(tx[r].email, tx[r].user)
Apart == \A r, q \in HttpRequests : Claims(r) /\ Claims(q) /\ r # q => tx[r].email # tx[q].email

RowsInv == Api!TypeOK /\ Reserved /\ Apart /\ Api!RowsConsistent

LEMMA InitRowsInv == AdminsHaveEmails /\ Api!Init => RowsInv
<1> SUFFICES ASSUME AdminsHaveEmails, Api!Init PROVE RowsInv
  OBVIOUS
<1>1. Api!TypeOK
  BY DEF AdminsHaveEmails, Api!Init, Api!TypeOK, Api!NoTx, Api!Ops
<1>2. \A r \in HttpRequests : ~Claims(r)
  BY DEF Claims, Api!Init, Api!NoTx
<1>3. Api!RowsConsistent
  BY DEF AdminsHaveEmails, Api!Init, Api!RowsConsistent, Api!Exists
<1> QED
  BY <1>1, <1>2, <1>3 DEF RowsInv, Reserved, Apart

\* What a transaction that ends leaves in the table: nothing, or at most the address
\* it has written.
LEMMA CommittedEmails ==
    ASSUME Api!TypeOK, NEW r \in HttpRequests
    PROVE  /\ Api!Written(r) \in [Users -> Account]
           /\ \A v \in Users : Api!Written(r)[v].email =
                 IF v = tx[r].user /\ tx[r].op \in {"register", "email"}
                 THEN tx[r].email ELSE account[v].email
<1> DEFINE u == tx[r].user
<1>0. account \in [Users -> Account] /\ tx[r].email \in Emails \cup {None}
  BY DEF Api!TypeOK, Account
<1>1. CASE tx[r].op = "register"
  <2> DEFINE row == [email |-> tx[r].email, active |-> TRUE, super |-> FALSE]
  <2>1. Api!Written(r) = [account EXCEPT ![u] = row]
    BY <1>1, Zenon DEF Api!Written
  <2>2. row \in Account /\ row.email = tx[r].email
    BY <1>0 DEF Account
  <2> QED
    BY <1>0, <1>1, <2>1, <2>2
<1>2. CASE tx[r].op = "email"
  <2>1. Api!Written(r) = [account EXCEPT ![u].email = tx[r].email]
    BY <1>2, Zenon DEF Api!Written
  <2> QED
    BY <1>0, <1>2, <2>1 DEF Account
<1>3. CASE tx[r].op \in {"revoke", "deactivate", "grant"}
  <2>1. /\ tx[r].op = "revoke" => Api!Written(r) = [account EXCEPT ![u].super = FALSE]
        /\ tx[r].op = "deactivate" => Api!Written(r) = [account EXCEPT ![u].active = FALSE]
        /\ tx[r].op = "grant" => Api!Written(r) = [account EXCEPT ![u].super = TRUE, ![u].active = TRUE]
    BY Zenon DEF Api!Written
  <2>2. Api!Written(r) \in [Users -> Account]
    <3>1. CASE tx[r].op = "revoke"
      <4>1. [account EXCEPT ![u].super = FALSE] \in [Users -> Account]
        BY <1>0 DEF Account
      <4> QED
        BY <2>1, <3>1, <4>1
    <3>2. CASE tx[r].op = "deactivate"
      <4>1. [account EXCEPT ![u].active = FALSE] \in [Users -> Account]
        BY <1>0 DEF Account
      <4> QED
        BY <2>1, <3>2, <4>1
    <3>3. CASE tx[r].op = "grant"
      <4> DEFINE half == [account EXCEPT ![u].super = TRUE]
      <4>1. half \in [Users -> Account]
        BY <1>0 DEF Account
      <4>2. Api!Written(r) = [half EXCEPT ![u].active = TRUE]
        BY <2>1, <3>3
      <4> QED
        BY <4>1, <4>2 DEF Account
    <3> QED
      BY <1>3, <3>1, <3>2, <3>3
  <2>3. ASSUME NEW v \in Users PROVE Api!Written(r)[v].email = account[v].email
    <3>1. account[v] \in [email : Emails \cup {None}, active : BOOLEAN, super : BOOLEAN]
      BY <1>0 DEF Account
    <3> QED
      BY <1>0, <1>3, <2>1, <3>1
  <2> QED
    BY <1>3, <2>2, <2>3
<1>4. CASE tx[r].op \in {"none", "chat"}
  <2>1. Api!Written(r) = account
    BY <1>4 DEF Api!Written
  <2> QED
    BY <1>0, <1>4, <2>1
<1> QED
  BY <1>1, <1>2, <1>3, <1>4 DEF Api!TypeOK, Api!Ops

\* A transaction that is over, or has written nothing yet, claims nothing: the others'
\* claims stay as they were.
LEMMA ClaimsStay ==
    ASSUME RowsInv, NEW r \in HttpRequests, account' = account,
           tx' \in [HttpRequests -> [op : Api!Ops, stage : {"idle", "loaded", "flushed"},
                                     user : Users \cup {None}, email : Emails \cup {None}, new : BOOLEAN]],
           \A q \in HttpRequests : q # r => tx'[q] = tx[q],
           tx'[r].stage # "flushed",
           UNCHANGED turns
    PROVE  RowsInv'
<1>1. Api!TypeOK'
  BY DEF RowsInv, Api!TypeOK
<1>2. \A q \in HttpRequests : Claims(q)' => q # r /\ Claims(q)
  BY DEF Claims
<1>3. Reserved' /\ Apart'
  BY <1>2 DEF RowsInv, Reserved, Apart, Claims, Api!Taken
<1>4. Api!RowsConsistent'
  BY DEF RowsInv, Api!RowsConsistent, Api!Exists
<1> QED
  BY <1>1, <1>3, <1>4 DEF RowsInv

LEMMA OverStays ==
    ASSUME RowsInv, NEW r \in HttpRequests, Api!Rollback(r), UNCHANGED <<account, turns>>
    PROVE  RowsInv'
BY ClaimsStay DEF RowsInv, Api!TypeOK, Api!Rollback, Api!NoTx, Api!Ops

LEMMA OpenStays ==
    ASSUME RowsInv, NEW r \in HttpRequests, NEW o \in Api!Ops, NEW u \in Users,
           NEW e \in Emails \cup {None}, NEW n \in BOOLEAN, Api!Open(r, o, u, e, n)
    PROVE  RowsInv'
BY ClaimsStay DEF RowsInv, Api!TypeOK, Api!Open

LEMMA NextRowsInv == RowsInv /\ [Api!Next]_(Api!apiVars) => RowsInv'
<1> SUFFICES ASSUME RowsInv, [Api!Next]_(Api!apiVars) PROVE RowsInv'
  OBVIOUS
<1>1. ASSUME NEW r \in HttpRequests, NEW u \in Users, NEW e \in Emails,
             Api!Register(r, u, e) \/ Api!ChangeEmail(r, u, e)
      PROVE  RowsInv'
  BY <1>1, OpenStays DEF Api!Register, Api!ChangeEmail, Api!Ops
<1>2. ASSUME NEW r \in HttpRequests, NEW a \in Users, NEW u \in Users,
             NEW o \in {"revoke", "deactivate", "grant"}, Api!AdminUpdate(r, a, u, o)
      PROVE  RowsInv'
  BY <1>2, OpenStays DEF Api!AdminUpdate, Api!Ops
<1>3. ASSUME NEW r \in HttpRequests, NEW u \in Users, NEW n \in BOOLEAN, Api!SendMessage(r, u, n)
      PROVE  RowsInv'
  BY <1>3, OpenStays DEF Api!SendMessage, Api!Ops
<1>4. ASSUME NEW r \in HttpRequests, Api!Flush(r) PROVE RowsInv'
  <2>1. UNCHANGED <<account, turns>>
    BY <1>4 DEF Api!Flush
  <2>2. CASE tx[r].email # None /\ Api!Taken(tx[r].email, tx[r].user)
    BY <1>4, <2>1, <2>2, OverStays DEF Api!Flush
  <2>3. CASE ~(tx[r].email # None /\ Api!Taken(tx[r].email, tx[r].user))
    <3>1. tx' = [tx EXCEPT ![r].stage = "flushed"]
      BY <1>4, <2>3 DEF Api!Flush
    <3>2. Api!TypeOK'
      BY <2>1, <3>1 DEF RowsInv, Api!TypeOK
    <3>3. \A q \in HttpRequests : /\ q # r => tx'[q] = tx[q]
                                  /\ tx'[q].email = tx[q].email
                                  /\ tx'[q].user = tx[q].user
      BY <3>1 DEF RowsInv, Api!TypeOK
    <3>4. Reserved'
      BY <2>1, <2>3, <3>3 DEF RowsInv, Reserved, Claims, Api!Taken
    <3>5. \A q \in HttpRequests \ {r} : Claims(q) /\ tx[r].email # None => tx[q].email # tx[r].email
      BY <1>4 DEF Api!Flush, Claims
    <3>6. Apart'
      BY <3>3, <3>5 DEF RowsInv, Apart, Claims
    <3>7. Api!RowsConsistent'
      BY <2>1 DEF RowsInv, Api!RowsConsistent, Api!Exists
    <3> QED
      BY <3>2, <3>4, <3>6, <3>7 DEF RowsInv
  <2> QED
    BY <2>2, <2>3
<1>5. ASSUME NEW r \in HttpRequests, Api!AnswerFails(r) \/ Api!CommitFails(r) PROVE RowsInv'
  BY <1>5, OverStays DEF Api!AnswerFails, Api!CommitFails
<1>6. ASSUME NEW r \in HttpRequests, Api!Commit(r) PROVE RowsInv'
  <2> DEFINE u == tx[r].user
             e == tx[r].email
             writes == tx[r].op \in {"register", "email"}
  <2>1. /\ account' \in [Users -> Account]
        /\ \A v \in Users : account'[v].email = IF v = u /\ writes THEN e ELSE account[v].email
    BY <1>6, CommittedEmails DEF RowsInv, Api!Commit
  <2>2. turns' \in [conversations : Nat, user : Nat, ai : Nat]
        /\ turns'.user = turns'.ai /\ turns'.conversations <= turns'.user
    BY <1>6 DEF RowsInv, Api!TypeOK, Api!RowsConsistent, Api!Commit
  <2>3. Api!TypeOK'
    BY <1>6, <2>1, <2>2 DEF RowsInv, Api!TypeOK, Account, Api!Commit, Api!Rollback, Api!NoTx, Api!Ops
  <2>4. /\ ~Claims(r)'
        /\ \A q \in HttpRequests : q # r => tx'[q] = tx[q]
    BY <1>6 DEF RowsInv, Api!TypeOK, Api!Commit, Api!Rollback, Api!NoTx, Claims
  <2>5. writes /\ e # None => ~Api!Taken(e, u) /\ \A q \in HttpRequests \ {r} : Claims(q) => tx[q].email # e
    BY <1>6 DEF RowsInv, Reserved, Apart, Claims, Api!Commit
  <2>6. \A x, v : x # None /\ (writes => x # e) /\ Api!Taken(x, v)' => Api!Taken(x, v)
    BY <2>1 DEF Api!Taken
  <2>7. Reserved' /\ Apart'
    BY <2>4, <2>5, <2>6 DEF RowsInv, Reserved, Apart, Claims
  <2>8. \A v, w \in Users : Api!Exists(v)' /\ account'[v].email = account'[w].email => v = w
    BY <2>1, <2>5 DEF RowsInv, Api!RowsConsistent, Api!Exists, Api!Taken
  <2>9. Api!RowsConsistent'
    BY <2>2, <2>8 DEF Api!RowsConsistent
  <2> QED
    BY <2>3, <2>7, <2>9 DEF RowsInv
<1>7. CASE UNCHANGED Api!apiVars
  BY <1>7 DEF Api!apiVars, RowsInv, Reserved, Apart, Api!RowsConsistent, Api!TypeOK,
              Api!Exists, Api!Taken, Claims
<1> QED
  BY <1>1, <1>2, <1>3, <1>4, <1>5, <1>6, <1>7 DEF Api!Next

(* The accounts of the in-memory repository, whatever the calls and the ids. *)

LEMMA AccountSteps == [ServicesNext]_allVars => [Accounts!Next]_(Accounts!accountVars)
BY DEF ServicesNext, allVars, accountVars, Accounts!accountVars

\* An id has one record at most, and none before it is drawn.
OneRecord ==
    /\ \A u \in UserIds : \A q, r \in by_id[u] : q = r
    /\ \A u \in UserIds : by_id[u] # {} => u \in drawn

AccountsInv == Accounts!TypeOK /\ OneRecord /\ Accounts!IndexAgrees

LEMMA InitAccountsInv == Accounts!Init => AccountsInv
BY DEF Accounts!Init, AccountsInv, OneRecord, Accounts!TypeOK, Accounts!IndexAgrees

\* To write a record again under the email it has disturbs neither dictionary.
LEMMA UpdateAgrees ==
    ASSUME AccountsInv, NEW u \in UserIds, NEW r \in by_id[u],
           NEW q \in Accounts!UserRecord, q.email = r.email, Accounts!update(u, q),
           UNCHANGED <<drawn, issued>>
    PROVE  AccountsInv'
<1> USE DEF AccountsInv, Accounts!TypeOK, Accounts!update
<1>1. /\ by_email' = by_email /\ by_id' = [by_id EXCEPT ![u] = {q}]
      /\ by_id'[u] = {q} /\ \A v \in UserIds \ {u} : by_id'[v] = by_id[v]
  OBVIOUS
<1>2. by_email[q.email] = {u}
  BY DEF Accounts!IndexAgrees
<1>3. \A v \in UserIds : \A x \in by_id'[v] : by_email'[x.email] = {v}
  BY <1>1, <1>2 DEF Accounts!IndexAgrees
<1>4. \A e \in Emails : u \in by_email[e] => e = q.email
  <2> SUFFICES ASSUME NEW e \in Emails, u \in by_email[e] PROVE e = q.email
    OBVIOUS
  <2>1. PICK x \in by_id[u] : x.email = e
    BY DEF Accounts!IndexAgrees
  <2> QED
    BY <2>1 DEF OneRecord
<1>5. \A e \in Emails : \A v \in by_email'[e] : \E x \in by_id'[v] : x.email = e
  BY <1>1, <1>4 DEF Accounts!IndexAgrees
<1>6. Accounts!IndexAgrees'
  BY <1>3, <1>5 DEF Accounts!IndexAgrees
<1>7. OneRecord'
  BY <1>1 DEF OneRecord
<1> QED
  BY <1>1, <1>6, <1>7

LEMMA NextAccountsInv == AccountsInv /\ [Accounts!Next]_(Accounts!accountVars) => AccountsInv'
<1> SUFFICES ASSUME AccountsInv, [Accounts!Next]_(Accounts!accountVars) PROVE AccountsInv'
  OBVIOUS
<1> USE DEF AccountsInv, Accounts!TypeOK
<1>1. ASSUME NEW u \in UserIds, NEW e \in Emails, NEW p \in Passwords, NEW n \in BOOLEAN,
             Accounts!register(u, e, p, n)
      PROVE  AccountsInv'
  <2> DEFINE r == [email |-> e, password |-> p, named |-> n]
  <2>1. r \in Accounts!UserRecord /\ r.email = e
    BY DEF Accounts!UserRecord
  <2>2. /\ by_id' = [by_id EXCEPT ![u] = {r}] /\ by_email' = [by_email EXCEPT ![e] = {u}]
        /\ drawn' = drawn \cup {u} /\ issued' = issued
    BY <1>1, <2>1 DEF Accounts!register, Accounts!create
  <2> HIDE DEF r
  <2>3. Accounts!TypeOK'
    BY <2>1, <2>2
  <2>4. by_email[e] = {}
    BY <1>1 DEF Accounts!register, Accounts!get_by_email, Accounts!Known, Accounts!IndexAgrees
  <2>5. u \notin drawn /\ by_id[u] = {}
    BY <1>1 DEF Accounts!register, OneRecord
  <2>6. /\ by_id'[u] = {r} /\ \A v \in UserIds \ {u} : by_id'[v] = by_id[v]
        /\ by_email'[e] = {u} /\ \A x \in Emails \ {e} : by_email'[x] = by_email[x]
    BY <2>2
  <2>7. OneRecord'
    BY <2>2, <2>6 DEF OneRecord
  <2>8. \A v \in UserIds \ {u} : \A x \in by_id[v] : x.email \in Emails \ {e}
    BY <2>4 DEF Accounts!IndexAgrees, Accounts!UserRecord
  <2>9. \A v \in UserIds : \A x \in by_id'[v] : by_email'[x.email] = {v}
    BY <2>1, <2>6, <2>8 DEF Accounts!IndexAgrees
  <2>10. \A x \in Emails \ {e} : u \notin by_email[x]
    BY <2>5 DEF Accounts!IndexAgrees
  <2>11. \A x \in Emails : \A v \in by_email'[x] : \E q \in by_id'[v] : q.email = x
    BY <2>1, <2>6, <2>10 DEF Accounts!IndexAgrees
  <2> QED
    BY <2>3, <2>7, <2>9, <2>11 DEF Accounts!IndexAgrees
<1>2. ASSUME NEW u \in UserIds, NEW n \in BOOLEAN, Accounts!update_profile(u, n)
      PROVE  AccountsInv'
  <2>1. PICK r \in by_id[u] : Accounts!update(u, [r EXCEPT !.named = @ \/ n])
    BY <1>2 DEF Accounts!update_profile
  <2>2. /\ [r EXCEPT !.named = @ \/ n] \in Accounts!UserRecord
        /\ [r EXCEPT !.named = @ \/ n].email = r.email
    BY DEF Accounts!UserRecord
  <2> QED
    BY <1>2, <2>1, <2>2, UpdateAgrees DEF Accounts!update_profile
<1>3. ASSUME NEW u \in UserIds, NEW p \in Passwords, NEW q \in Passwords,
             Accounts!change_password(u, p, q)
      PROVE  AccountsInv'
  <2>1. PICK r \in by_id[u] : Accounts!update(u, [r EXCEPT !.password = q])
    BY <1>3 DEF Accounts!change_password
  <2>2. /\ [r EXCEPT !.password = q] \in Accounts!UserRecord
        /\ [r EXCEPT !.password = q].email = r.email
    BY DEF Accounts!UserRecord
  <2> QED
    BY <1>3, <2>1, <2>2, UpdateAgrees DEF Accounts!change_password
<1>4. ASSUME NEW u \in UserIds, Accounts!delete_account(u) PROVE AccountsInv'
  <2>1. /\ by_id' = [by_id EXCEPT ![u] = {}]
        /\ by_email' = [e \in Emails |->
                          IF \E r \in by_id[u] : r.email = e THEN {} ELSE by_email[e]]
        /\ UNCHANGED <<drawn, issued>>
    BY <1>4 DEF Accounts!delete_account, Accounts!delete
  <2>2. Accounts!TypeOK' /\ OneRecord'
    BY <2>1 DEF OneRecord
  <2>3. \A v \in UserIds : \A r \in by_id'[v] : by_email'[r.email] = {v}
    <3> SUFFICES ASSUME NEW v \in UserIds, NEW r \in by_id'[v] PROVE by_email'[r.email] = {v}
      OBVIOUS
    <3>1. v # u /\ r \in by_id[v] /\ r.email \in Emails
      BY <2>1 DEF Accounts!UserRecord
    <3>2. by_email[r.email] = {v}
      BY <3>1 DEF Accounts!IndexAgrees
    <3>3. ~ \E x \in by_id[u] : x.email = r.email
      BY <3>1, <3>2 DEF Accounts!IndexAgrees
    <3> QED
      BY <2>1, <3>1, <3>2, <3>3
  <2>4. \A e \in Emails : \A v \in by_email'[e] : \E r \in by_id'[v] : r.email = e
    <3> SUFFICES ASSUME NEW e \in Emails, NEW v \in by_email'[e]
                 PROVE  \E r \in by_id'[v] : r.email = e
      OBVIOUS
    <3>1. v \in by_email[e] /\ ~ \E x \in by_id[u] : x.email = e
      BY <2>1
    <3>2. v \in UserIds /\ v # u /\ \E r \in by_id[v] : r.email = e
      BY <3>1 DEF Accounts!IndexAgrees
    <3> QED
      BY <2>1, <3>2
  <2> QED
    BY <2>2, <2>3, <2>4 DEF Accounts!IndexAgrees
<1>5. ASSUME UNCHANGED <<by_id, by_email, drawn>>, issued' \subseteq Accounts!Token
      PROVE  AccountsInv'
  BY <1>5 DEF OneRecord, Accounts!IndexAgrees
<1>6. ASSUME NEW e \in Emails, NEW p \in Passwords, Accounts!authenticate(e, p)
      PROVE  AccountsInv'
  BY <1>5, <1>6 DEF Accounts!authenticate, Accounts!get_by_email, Accounts!TokenPair, Accounts!Token
<1>7. ASSUME NEW t \in issued, Accounts!refresh_access_token(t) \/ Accounts!Expire(t)
      PROVE  AccountsInv'
  BY <1>5, <1>7 DEF Accounts!refresh_access_token, Accounts!Expire, Accounts!TokenPair, Accounts!Token
<1>8. CASE UNCHANGED Accounts!accountVars
  BY <1>8 DEF Accounts!accountVars, OneRecord, Accounts!IndexAgrees
<1> QED
  BY <1>1, <1>2, <1>3, <1>4, <1>6, <1>7, <1>8 DEF Accounts!Next

\* However many requests check, write and commit at once: an address belongs to one
\* account, a question has its answer and a conversation its message.  And however
\* accounts are registered, changed and erased, the in-memory repository finds each
\* under its own email and none under another.
THEOREM RowsStayConsistent == ASSUME AdminsHaveEmails PROVE ServicesSpec => []RowsConsistent
<1>1. ServicesInit => RowsInv /\ AccountsInv
  BY InitRowsInv, InitAccountsInv DEF ServicesInit
<1>2. RowsInv /\ AccountsInv => RowsConsistent
  BY DEF RowsInv, AccountsInv, RowsConsistent
<1> QED
  BY <1>1, <1>2, ApiSteps, NextRowsInv, AccountSteps, NextAccountsInv, PTL DEF ServicesSpec

-----------------------------------------------------------------------------
(* Sets of numbers have a smallest member, and those with a bound a largest. *)

LEMMA SmallestExists ==
    ASSUME NEW T, T \subseteq Nat, T # {} PROVE \E x \in T : \A y \in T : x <= y
<1>1. PICK x \in T : \A y \in T : ~ (<<y, x>> \in OpToRel(<, Nat))
  BY NatLessThanWellFounded, WFMin
<1>2. ASSUME NEW y \in T PROVE x <= y
  <2>1. x \in Nat /\ y \in Nat
    OBVIOUS
  <2>2. ~ (y < x)
    BY <1>1, <2>1 DEF OpToRel
  <2> QED
    BY <2>1, <2>2
<1> QED
  BY <1>2

LEMMA LargestExists ==
    ASSUME NEW b \in Nat, NEW T, T \subseteq 0..b, T # {} PROVE \E x \in T : \A y \in T : y <= x
<1> DEFINE U == {b - x : x \in T}
<1>0. U \subseteq Nat /\ U # {}
  <2>1. \A x \in T : x \in 0..b /\ b - x \in Nat
    OBVIOUS
  <2>2. PICK x \in T : TRUE
    OBVIOUS
  <2>3. b - x \in U
    OBVIOUS
  <2> QED
    BY <2>1, <2>3
<1>1. PICK u \in U : \A v \in U : u <= v
  BY <1>0, SmallestExists
<1>2. PICK x \in T : u = b - x
  BY <1>1
<1>3. \A y \in T : u <= b - y
  BY <1>1
<1> QED
  BY <1>2, <1>3

-----------------------------------------------------------------------------
(* The sentinel: for windows and limits of any size.                        *)

LEMMA SentinelSteps == [ServicesNext]_allVars => [Guard!Next]_(Guard!sentinelVars)
BY DEF ServicesNext, allVars, sentinelVars, Guard!sentinelVars

\* The maintenance tasks wait for longer than the window.
IdleOutlastsWindow ==
    Window \in Nat /\ MaxRequests \in Nat /\ Idle \in Nat /\ Window <= Idle

\* The a-th last of a sequence, where the last is the 0-th.
FromEnd(s, a) == s[Len(s) - a]

\* Every admission of the window, counted from the latest on, is matched by a request
\* time of the record that is as young: refused requests only add to the latter, and
\* what is trimmed or pruned is too old to match an admission of the window.
Followed ==
    \A a \in 0..(Len(admitted) - 1) :
        a < Len(request_times) /\ FromEnd(request_times, a) <= FromEnd(admitted, a)

SentinelInv ==
    /\ request_times \in Seq(Guard!Ages) /\ admitted \in Seq(Guard!Ages)
    /\ \A i, j \in 1..Len(admitted) : i < j => admitted[j] <= admitted[i]
    /\ \A i \in 1..Len(admitted) : admitted[i] <= Window
    /\ Followed
    /\ Len(admitted) <= MaxRequests

LEMMA TimesAreAges ==
    ASSUME NEW s \in Seq(Guard!Ages)
    PROVE  /\ \A i \in 1..Len(s) : s[i] \in Guard!Ages /\ s[i] \in 0..(Idle + 1) /\ s[i] \in Nat
           /\ \A a \in 0..(Len(s) - 1) : Len(s) - a \in 1..Len(s) /\ FromEnd(s, a) \in Nat
<1>1. \A i \in 1..Len(s) : s[i] \in Guard!Ages
  OBVIOUS
<1>2. \A i \in 1..Len(s) : s[i] \in 0..(Idle + 1) /\ s[i] \in Nat
  BY <1>1 DEF Guard!Ages
<1>3. \A a \in 0..(Len(s) - 1) : Len(s) - a \in 1..Len(s)
  OBVIOUS
<1> QED
  BY <1>1, <1>2, <1>3 DEF FromEnd

\* Trimming leaves the end of a sequence, with all that is young in it.
LEMMA TrimKeepsYoung ==
    ASSUME IdleOutlastsWindow, NEW s \in Seq(Guard!Ages)
    PROVE  LET t == Guard!_trim_window(s)
           IN  /\ t \in Seq(Guard!Ages) /\ Len(t) <= Len(s)
               /\ \A a \in 0..(Len(t) - 1) : FromEnd(t, a) = FromEnd(s, a)
               /\ \A a \in 0..(Len(s) - 1) : FromEnd(s, a) <= Window => a < Len(t)
               /\ t # <<>> => t[1] <= Window
<1> DEFINE Y == Guard!Young(s)
           t == Guard!_trim_window(s)
<1>1. CASE Y = {}
  <2>1. t = <<>> /\ Len(t) = 0
    BY <1>1 DEF Guard!_trim_window
  <2>2. \A a \in 0..(Len(s) - 1) : ~(FromEnd(s, a) <= Window)
    BY <1>1 DEF Guard!Young, FromEnd
  <2> QED
    BY <2>1, <2>2
<1>2. CASE Y # {}
  <2> DEFINE m == Guard!Min(Y)
  <2>1. Y \subseteq 1..Len(s) /\ Y \subseteq Nat
    BY DEF Guard!Young
  <2>2. m \in Y /\ \A i \in Y : m <= i
    BY <1>2, <2>1, SmallestExists DEF Guard!Min
  <2>3. m \in 1..Len(s) /\ s[m] <= Window
    BY <2>1, <2>2 DEF Guard!Young
  <2>4. t = SubSeq(s, m, Len(s))
    BY <1>2 DEF Guard!_trim_window
  <2>5. t \in Seq(Guard!Ages) /\ Len(t) = Len(s) - m + 1 /\ \A i \in 1..Len(t) : t[i] = s[m + i - 1]
    BY <2>3, <2>4, SubSeqProperties
  <2>6. \A a \in 0..(Len(t) - 1) : FromEnd(t, a) = FromEnd(s, a)
    <3> HIDE DEF t, m
    <3> TAKE a \in 0..(Len(t) - 1)
    <3>1. Len(t) - a \in 1..Len(t) /\ m + (Len(t) - a) - 1 = Len(s) - a
      BY <2>3, <2>5
    <3> QED
      BY <2>5, <3>1 DEF FromEnd
  <2>7. \A a \in 0..(Len(s) - 1) : FromEnd(s, a) <= Window => a < Len(t)
    <3> SUFFICES ASSUME NEW a \in 0..(Len(s) - 1), s[Len(s) - a] <= Window PROVE a < Len(t)
      BY DEF FromEnd
    <3>1. Len(s) - a \in Y
      BY DEF Guard!Young
    <3> QED
      BY <2>2, <2>3, <2>5, <3>1
  <2>8. t[1] <= Window
    BY <2>3, <2>5
  <2> QED
    BY <2>3, <2>5, <2>6, <2>7, <2>8
<1> QED
  BY <1>1, <1>2

\* What is noted is the latest, at age zero.
LEMMA NotedAddsLatest ==
    ASSUME IdleOutlastsWindow, NEW s \in Seq(Guard!Ages)
    PROVE  LET t == Guard!Noted(s)
           IN  /\ t \in Seq(Guard!Ages) /\ Len(t) > 0 /\ FromEnd(t, 0) = 0
               /\ \A a \in 1..(Len(t) - 1) : FromEnd(t, a) = FromEnd(s, a - 1)
               /\ \A a \in 0..(Len(s) - 1) : FromEnd(s, a) <= Window => a + 1 < Len(t)
<1> DEFINE l == Append(s, 0)
           t == Guard!Noted(s)
<1>1. /\ l \in Seq(Guard!Ages) /\ Len(l) = Len(s) + 1
      /\ FromEnd(l, 0) = 0 /\ \A a \in 1..Len(s) : FromEnd(l, a) = FromEnd(s, a - 1)
  BY DEF IdleOutlastsWindow, Guard!Ages, FromEnd
<1>2. t = Guard!_trim_window(l)
  BY DEF Guard!Noted
<1>3. /\ t \in Seq(Guard!Ages) /\ Len(t) <= Len(l)
      /\ \A a \in 0..(Len(t) - 1) : FromEnd(t, a) = FromEnd(l, a)
      /\ \A a \in 0..(Len(l) - 1) : FromEnd(l, a) <= Window => a < Len(t)
  BY <1>1, <1>2, TrimKeepsYoung
<1>4. 0 < Len(t)
  BY <1>1, <1>3 DEF IdleOutlastsWindow
<1>5. \A a \in 0..(Len(s) - 1) : FromEnd(s, a) <= Window => a + 1 < Len(t)
  <2> SUFFICES ASSUME NEW a \in 0..(Len(s) - 1), FromEnd(s, a) <= Window PROVE a + 1 < Len(t)
    OBVIOUS
  <2>1. FromEnd(l, a + 1) = FromEnd(s, a)
    BY <1>1
  <2> QED
    BY <1>1, <1>3, <2>1
<1> HIDE DEF t, l
<1>6. FromEnd(t, 0) = 0 /\ \A a \in 1..(Len(t) - 1) : FromEnd(t, a) = FromEnd(s, a - 1)
  BY <1>1, <1>3, <1>4
<1> QED
  BY <1>3, <1>4, <1>5, <1>6 DEF t

LEMMA AgedKeepsOrder ==
    ASSUME IdleOutlastsWindow, NEW s \in Seq(Guard!Ages)
    PROVE  /\ Guard!Aged(s) \in Seq(Guard!Ages) /\ Len(Guard!Aged(s)) = Len(s)
           /\ \A i \in 1..Len(s) : Guard!Aged(s)[i] = IF s[i] > Idle THEN s[i] ELSE s[i] + 1
<1>1. \A i \in 1..Len(s) : s[i] \in 0..(Idle + 1)
  BY TimesAreAges
<1>2. Guard!Aged(s) = [i \in 1..Len(s) |-> IF s[i] > Idle THEN s[i] ELSE s[i] + 1]
  BY DEF Guard!Aged
<1>3. \A i \in 1..Len(s) : (IF s[i] > Idle THEN s[i] ELSE s[i] + 1) \in Guard!Ages
  BY <1>1 DEF Guard!Ages, IdleOutlastsWindow
<1> QED
  BY <1>2, <1>3, IsASeq

LEMMA NextSentinelInv ==
    ASSUME IdleOutlastsWindow PROVE SentinelInv /\ [Guard!Next]_(Guard!sentinelVars) => SentinelInv'
<1> SUFFICES ASSUME SentinelInv, [Guard!Next]_(Guard!sentinelVars) PROVE SentinelInv'
  OBVIOUS
<1>1. CASE Guard!Tick
  <2> DEFINE R == Guard!Aged(request_times)
             B == Guard!Aged(admitted)
             A == Guard!_trim_window(B)
  <2>1. request_times' = R /\ admitted' = A
    BY <1>1 DEF Guard!Tick
  <2>2. /\ R \in Seq(Guard!Ages) /\ Len(R) = Len(request_times)
        /\ \A i \in 1..Len(R) : R[i] = IF request_times[i] > Idle THEN request_times[i] ELSE request_times[i] + 1
    BY AgedKeepsOrder DEF SentinelInv
  <2>3. /\ B \in Seq(Guard!Ages) /\ Len(B) = Len(admitted)
        /\ \A i \in 1..Len(B) : B[i] = admitted[i] + 1
    BY AgedKeepsOrder DEF SentinelInv, IdleOutlastsWindow, Guard!Ages
  <2>4. /\ A \in Seq(Guard!Ages) /\ Len(A) <= Len(B)
        /\ \A a \in 0..(Len(A) - 1) : FromEnd(A, a) = FromEnd(B, a)
        /\ A # <<>> => A[1] <= Window
    BY <2>3, TrimKeepsYoung
  <2> HIDE DEF R, B, A
  <2>5. \A i \in 1..Len(A) : A[i] = B[Len(B) - Len(A) + i]
    <3> TAKE i \in 1..Len(A)
    <3>1. Len(A) - i \in 0..(Len(A) - 1) /\ Len(A) - (Len(A) - i) = i
          /\ Len(B) - (Len(A) - i) = Len(B) - Len(A) + i
      BY <2>3, <2>4
    <3> QED
      BY <2>4, <3>1 DEF FromEnd
  <2>6. \A i, j \in 1..Len(A) : i < j => A[j] <= A[i]
    <3> TAKE i, j \in 1..Len(A)
    <3> HAVE i < j
    <3>1. Len(B) - Len(A) + i \in 1..Len(admitted) /\ Len(B) - Len(A) + j \in 1..Len(admitted)
      BY <2>3, <2>4
    <3>2. admitted[Len(B) - Len(A) + j] <= admitted[Len(B) - Len(A) + i]
      <4>1. Len(B) - Len(A) + i < Len(B) - Len(A) + j
        BY <2>3, <2>4
      <4>2. \A p, q \in 1..Len(admitted) : p < q => admitted[q] <= admitted[p]
        BY DEF SentinelInv
      <4> QED
        BY <3>1, <4>1, <4>2
    <3>3. admitted[Len(B) - Len(A) + j] \in Nat /\ admitted[Len(B) - Len(A) + i] \in Nat
      BY <3>1, TimesAreAges DEF SentinelInv
    <3>4. A[j] = admitted[Len(B) - Len(A) + j] + 1 /\ A[i] = admitted[Len(B) - Len(A) + i] + 1
      BY <2>3, <2>5, <3>1
    <3> QED
      BY <3>2, <3>3, <3>4
  <2>7. \A i \in 1..Len(A) : A[i] <= Window
    <3> TAKE i \in 1..Len(A)
    <3>1. A # <<>> /\ 1 \in 1..Len(A) /\ A[i] \in Nat /\ A[1] \in Nat
      BY <2>4, TimesAreAges
    <3>2. A[i] <= A[1]
      BY <2>6, <3>1
    <3> QED
      BY <2>4, <3>1, <3>2 DEF IdleOutlastsWindow
  <2>8. \A a \in 0..(Len(A) - 1) : a < Len(R) /\ FromEnd(R, a) <= FromEnd(A, a)
    <3> TAKE a \in 0..(Len(A) - 1)
    <3>1. a \in 0..(Len(admitted) - 1)
      BY <2>3, <2>4 DEF SentinelInv
    <3>2. a < Len(request_times) /\ request_times[Len(request_times) - a] <= admitted[Len(admitted) - a]
      BY <3>1 DEF SentinelInv, Followed, FromEnd
    <3>3. FromEnd(A, a) = admitted[Len(admitted) - a] + 1
      BY <2>3, <2>4, <3>1 DEF FromEnd, SentinelInv
    <3>4. Len(R) - a \in 1..Len(R) /\ request_times[Len(R) - a] \in Guard!Ages /\ admitted[Len(admitted) - a] \in Guard!Ages
      BY <2>2, <3>1, <3>2 DEF SentinelInv
    <3>5. FromEnd(R, a) <= request_times[Len(R) - a] + 1
      <4> DEFINE r == request_times[Len(R) - a]
      <4>1. r \in Nat
        BY <3>4 DEF Guard!Ages
      <4>2. FromEnd(R, a) = IF r > Idle THEN r ELSE r + 1
        BY <2>2, <3>4 DEF FromEnd
      <4> QED
        BY <4>1, <4>2
    <3>6. FromEnd(R, a) \in Nat
      BY <2>2, <3>4 DEF FromEnd, Guard!Ages
    <3>7. a < Len(R)
      BY <2>2, <3>2
    <3> DEFINE p == request_times[Len(request_times) - a]
               q == admitted[Len(admitted) - a]
    <3>8. p \in Nat /\ q \in Nat
      BY <2>2, <3>4 DEF Guard!Ages, IdleOutlastsWindow
    <3>9. FromEnd(R, a) <= p + 1 /\ p <= q /\ FromEnd(A, a) = q + 1
      BY <2>2, <3>2, <3>3, <3>5
    <3> HIDE DEF p, q
    <3> QED
      BY <3>6, <3>7, <3>8, <3>9
  <2>9. Len(A) <= MaxRequests
    BY <2>3, <2>4 DEF SentinelInv, IdleOutlastsWindow
  <2> QED
    BY <2>1, <2>2, <2>4, <2>6, <2>7, <2>8, <2>9 DEF SentinelInv, Followed
<1>2. CASE Guard!Burst
  <2> DEFINE t == Guard!Noted(request_times)
  <2>1. request_times' = t /\ admitted' = admitted
    BY <1>2 DEF Guard!Burst
  <2>2. /\ t \in Seq(Guard!Ages) /\ Len(t) > 0 /\ FromEnd(t, 0) = 0
        /\ \A a \in 1..(Len(t) - 1) : FromEnd(t, a) = FromEnd(request_times, a - 1)
        /\ \A a \in 0..(Len(request_times) - 1) : FromEnd(request_times, a) <= Window => a + 1 < Len(t)
    BY NotedAddsLatest DEF SentinelInv
  <2> HIDE DEF t
  <2>3. \A a \in 0..(Len(admitted) - 1) : a < Len(t) /\ FromEnd(t, a) <= FromEnd(admitted, a)
    <3> TAKE a \in 0..(Len(admitted) - 1)
    <3>0. Len(admitted) - a \in 1..Len(admitted) /\ FromEnd(admitted, a) \in Nat
      BY TimesAreAges DEF SentinelInv
    <3>1. CASE a = 0
      BY <2>2, <3>0, <3>1
    <3>2. CASE a > 0
      <4>1. a - 1 \in 0..(Len(admitted) - 1) /\ Len(admitted) - (a - 1) \in 1..Len(admitted)
        BY <3>2 DEF SentinelInv
      <4>2. /\ a - 1 < Len(request_times)
            /\ FromEnd(request_times, a - 1) <= FromEnd(admitted, a - 1)
        BY <4>1 DEF SentinelInv, Followed
      <4>3. /\ FromEnd(admitted, a - 1) <= FromEnd(admitted, a)
            /\ FromEnd(admitted, a - 1) <= Window
        BY <3>0, <4>1 DEF SentinelInv, FromEnd
      <4>4. a - 1 \in 0..(Len(request_times) - 1) /\ Len(request_times) - (a - 1) \in 1..Len(request_times)
        BY <4>1, <4>2 DEF SentinelInv
      <4>5. FromEnd(request_times, a - 1) \in Nat /\ FromEnd(admitted, a - 1) \in Nat
        BY <4>1, <4>4, TimesAreAges DEF SentinelInv
      <4>6. a < Len(t)
        BY <2>2, <4>2, <4>3, <4>4, <4>5 DEF IdleOutlastsWindow
      <4>7. FromEnd(t, a) = FromEnd(request_times, a - 1)
        BY <2>2, <3>2, <4>6
      <4> QED
        BY <3>0, <4>2, <4>3, <4>5, <4>6, <4>7
    <3> QED
      BY <3>1, <3>2
  <2> QED
    BY <2>1, <2>2, <2>3 DEF SentinelInv, Followed
<1>3. CASE Guard!Admit
  <2> DEFINE t == Guard!Noted(request_times)
             A == Append(admitted, 0)
  <2>1. request_times' = t /\ admitted' = A /\ Len(t) <= MaxRequests
    BY <1>3 DEF Guard!Admit
  <2>2. /\ t \in Seq(Guard!Ages) /\ Len(t) > 0 /\ FromEnd(t, 0) = 0
        /\ \A a \in 1..(Len(t) - 1) : FromEnd(t, a) = FromEnd(request_times, a - 1)
        /\ \A a \in 0..(Len(request_times) - 1) : FromEnd(request_times, a) <= Window => a + 1 < Len(t)
    BY NotedAddsLatest DEF SentinelInv
  <2>3. /\ A \in Seq(Guard!Ages) /\ Len(A) = Len(admitted) + 1 /\ FromEnd(A, 0) = 0
        /\ \A i \in 1..Len(A) : A[i] = IF i = Len(A) THEN 0 ELSE admitted[i]
        /\ \A a \in 1..Len(admitted) : FromEnd(A, a) = FromEnd(admitted, a - 1)
    <3>1. 0 \in Guard!Ages /\ admitted \in Seq(Guard!Ages)
      BY DEF SentinelInv, IdleOutlastsWindow, Guard!Ages
    <3>2. /\ A \in Seq(Guard!Ages) /\ Len(A) = Len(admitted) + 1
          /\ \A i \in 1..Len(A) : A[i] = IF i = Len(A) THEN 0 ELSE admitted[i]
      BY <3>1
    <3> HIDE DEF A
    <3>3. \A a \in 1..Len(admitted) : Len(A) - a \in 1..Len(A) /\ Len(A) - a = Len(admitted) - (a - 1) /\ Len(A) - a # Len(A)
      BY <3>1, <3>2
    <3> QED
      BY <3>1, <3>2, <3>3 DEF FromEnd
  <2> HIDE DEF t, A
  <2>4. \A a \in 0..(Len(A) - 1) : a < Len(t) /\ FromEnd(t, a) <= FromEnd(A, a)
    <3> TAKE a \in 0..(Len(A) - 1)
    <3>1. CASE a = 0
      BY <2>2, <2>3, <3>1
    <3>2. CASE a > 0
      <4>1. a - 1 \in 0..(Len(admitted) - 1) /\ Len(admitted) - (a - 1) \in 1..Len(admitted) /\ a \in 1..Len(admitted)
        BY <2>3, <3>2 DEF SentinelInv
      <4>2. /\ a - 1 < Len(request_times)
            /\ FromEnd(request_times, a - 1) <= FromEnd(admitted, a - 1)
            /\ FromEnd(admitted, a - 1) <= Window
        BY <4>1 DEF SentinelInv, Followed, FromEnd
      <4>4. a - 1 \in 0..(Len(request_times) - 1) /\ Len(request_times) - (a - 1) \in 1..Len(request_times)
        BY <4>1, <4>2 DEF SentinelInv
      <4>5. FromEnd(request_times, a - 1) \in Nat /\ FromEnd(admitted, a - 1) \in Nat
        BY <4>1, <4>4, TimesAreAges DEF SentinelInv
      <4>6. a < Len(t)
        BY <2>2, <4>2, <4>4, <4>5 DEF IdleOutlastsWindow
      <4>7. FromEnd(t, a) = FromEnd(request_times, a - 1) /\ FromEnd(A, a) = FromEnd(admitted, a - 1)
        BY <2>2, <2>3, <3>2, <4>1, <4>6
      <4> QED
        BY <4>2, <4>6, <4>7
    <3> QED
      BY <3>1, <3>2
  <2>5. \A i, j \in 1..Len(A) : i < j => A[j] <= A[i]
    <3> TAKE i, j \in 1..Len(A)
    <3> HAVE i < j
    <3>1. i \in 1..Len(admitted) /\ A[i] = admitted[i] /\ admitted[i] \in Nat
      BY <2>3, TimesAreAges DEF SentinelInv
    <3>2. CASE j = Len(A)
      BY <2>3, <3>1, <3>2
    <3>3. CASE j # Len(A)
      <4>1. j \in 1..Len(admitted) /\ A[j] = admitted[j]
        BY <2>3, <3>3, LenProperties DEF SentinelInv
      <4>2. \A p, q \in 1..Len(admitted) : p < q => admitted[q] <= admitted[p]
        BY DEF SentinelInv
      <4> QED
        BY <3>1, <4>1, <4>2
    <3> QED
      BY <3>2, <3>3
  <2>6. \A i \in 1..Len(A) : A[i] <= Window
    BY <2>3 DEF SentinelInv, IdleOutlastsWindow
  <2>7. Len(A) <= MaxRequests
    <3>1. Len(A) - 1 \in 0..(Len(A) - 1)
      BY <2>3 DEF SentinelInv
    <3>2. Len(A) - 1 < Len(t)
      BY <2>4, <3>1
    <3> QED
      BY <2>1, <2>2, <2>3, <3>2 DEF IdleOutlastsWindow, SentinelInv
  <2> QED
    BY <2>1, <2>2, <2>3, <2>4, <2>5, <2>6, <2>7 DEF SentinelInv, Followed
<1>4. CASE Guard!Prune
  <2>1. request_times' = <<>> /\ admitted' = admitted /\ Guard!Quiet
    BY <1>4 DEF Guard!Prune, Guard!Forget
  <2>2. Len(admitted) = 0
    <3> SUFFICES ASSUME Len(admitted) # 0 PROVE FALSE
      OBVIOUS
    <3>1. 0 \in 0..(Len(admitted) - 1) /\ Len(admitted) \in 1..Len(admitted)
      BY DEF SentinelInv
    <3>2. 0 < Len(request_times) /\ FromEnd(request_times, 0) <= FromEnd(admitted, 0) /\ FromEnd(admitted, 0) <= Window
      BY <3>1 DEF SentinelInv, Followed, FromEnd
    <3>3. Len(request_times) \in DOMAIN request_times /\ request_times[Len(request_times)] \in Nat
          /\ admitted[Len(admitted)] \in Nat
      BY <3>1, <3>2, TimesAreAges DEF SentinelInv
    <3> QED
      BY <2>1, <3>2, <3>3 DEF Guard!Quiet, FromEnd, IdleOutlastsWindow, SentinelInv
  <2> QED
    BY <2>1, <2>2 DEF SentinelInv, Followed
<1>5. ASSUME UNCHANGED <<request_times, admitted>> PROVE SentinelInv'
  BY <1>5 DEF SentinelInv, Followed
<1> QED
  BY <1>1, <1>2, <1>3, <1>4, <1>5
  DEF Guard!Next, Guard!sentinelVars, Guard!Suspicious, Guard!Answer, Guard!Decay, Guard!BadAnswer

\* Whatever the sizes of windows and limits, and however requests, quarantines, decay
\* and pruning interleave: no window sees more admissions of a client than its limit.
THEOREM LimitHolds == ASSUME IdleOutlastsWindow PROVE ServicesSpec => []AdmittedWithinLimit
<1>1. ServicesInit => SentinelInv
  BY DEF ServicesInit, Guard!Init, SentinelInv, Followed, IdleOutlastsWindow
<1>2. SentinelInv => AdmittedWithinLimit
  <2> SUFFICES ASSUME SentinelInv PROVE AdmittedWithinLimit
    OBVIOUS
  <2>1. Guard!_trim_window(admitted) \in Seq(Guard!Ages) /\ Len(Guard!_trim_window(admitted)) <= Len(admitted)
    BY TrimKeepsYoung DEF SentinelInv
  <2> QED
    BY <2>1 DEF SentinelInv, AdmittedWithinLimit, Guard!AdmittedWithinLimit, IdleOutlastsWindow
<1> QED
  BY <1>1, <1>2, SentinelSteps, NextSentinelInv, PTL DEF ServicesSpec

-----------------------------------------------------------------------------
(* Moderation: for any categories, thresholds and answers of the classifier. *)

LEMMA ModerationSteps == [ServicesNext]_allVars => [Moderator!Next]_(Moderator!modVars)
BY DEF ServicesNext, allVars, modVars, Moderator!modVars

\* Scores and thresholds are tenths.
ScoresAreTenths ==
    Scores \subseteq 0..10 /\ thresholds \in [Categories -> 0..10] /\ MaxHits \in Nat

\* A text has been judged when its stage is over; one that was not screened has nothing
\* found in it.
Unjudged(t) == heard[t] = <<>>
ModInv ==
    /\ screening \in {"screen", "classify", "call", "returned", "raised", "blocked"}
    /\ text \in Moderator!Texts
    /\ rules \in [Moderator!Texts -> SUBSET Categories]
    /\ heard \in [Moderator!Texts -> Moderator!SeqOf(Moderator!Hits, MaxHits)]
    /\ screening = "call" => text = "prompt"
    /\ text = "prompt" => rules["output"] = {} /\ Unjudged("output")
    /\ screening \in {"screen", "classify"} => Unjudged(text)
    /\ screening = "classify" => rules[text] \cap HARD_BLOCK_CATEGORIES = {}
    /\ ModeratedWell

\* The hits of a text: some hit reaches the threshold of its category if and only if the
\* best of a category does.
LEMMA BestFlagged ==
    ASSUME ScoresAreTenths, NEW matched \in SUBSET Categories,
           NEW heardOf \in Moderator!SeqOf(Moderator!Hits, MaxHits)
    PROVE  (\E h \in Moderator!merge_scores(matched, heardOf) : Moderator!is_flagged(h))
           <=> \E h \in Moderator!local_hits(matched) \cup Moderator!ToSet(heardOf) : h.score >= thresholds[h.category]
<1> DEFINE hits == Moderator!local_hits(matched) \cup Moderator!ToSet(heardOf)
           best == Moderator!merge_scores(matched, heardOf)
<1>1. best = {h \in hits : \A g \in hits : g.category = h.category => g.score <= h.score}
  BY DEF Moderator!merge_scores
<1>2. ASSUME NEW h \in hits PROVE h.category \in Categories /\ h.score \in 0..10
  <2>1. CASE h \in Moderator!local_hits(matched)
    BY <2>1 DEF Moderator!local_hits
  <2>2. CASE h \in Moderator!ToSet(heardOf)
    <3>1. PICK m \in 0..MaxHits : heardOf \in [1..m -> Moderator!Hits]
      BY DEF Moderator!SeqOf
    <3>2. h \in Moderator!Hits
      BY <2>2, <3>1 DEF Moderator!ToSet
    <3> QED
      BY <3>2 DEF Moderator!Hits, ScoresAreTenths
  <2> QED
    BY <2>1, <2>2
<1>3. ASSUME NEW h \in hits PROVE \E g \in best : g.category = h.category /\ h.score <= g.score
  <2> DEFINE S == {g \in hits : g.category = h.category}
             T == {g.score : g \in S}
  <2>1. h.score \in T /\ T \subseteq 0..10
    BY <1>2
  <2>2. PICK x \in T : \A y \in T : y <= x
    <3> HIDE DEF T
    <3> QED
      BY <2>1, LargestExists
  <2>3. PICK g \in S : x = g.score
    BY <2>2
  <2>4. \A k \in hits : k.category = g.category => k.score <= g.score
    BY <2>2, <2>3
  <2> QED
    BY <1>1, <2>1, <2>2, <2>3, <2>4
<1> HIDE DEF hits, best
<1>4. \A h \in best : h \in hits
  BY <1>1
<1>5. ASSUME NEW h \in hits, h.score >= thresholds[h.category]
      PROVE  \E g \in best : g.score >= thresholds[g.category]
  <2>1. PICK g \in best : g.category = h.category /\ h.score <= g.score
    BY <1>3
  <2>2. g \in hits /\ thresholds[h.category] \in 0..10
    BY <1>2, <1>4 DEF ScoresAreTenths
  <2> QED
    BY <1>2, <1>5, <2>1, <2>2
<1> QED
  BY <1>4, <1>5 DEF Moderator!is_flagged, hits, best

LEMMA InitModInv == ASSUME ScoresAreTenths PROVE ServicesInit => ModInv
<1> SUFFICES ASSUME ServicesInit PROVE ModInv
  OBVIOUS
<1>1. heard = [t \in Moderator!Texts |-> <<>>] /\ text = "prompt" /\ screening \in {"screen", "call"}
  BY DEF ServicesInit, Moderator!Init, Moderator!Nothing
<1>2. rules \in [Moderator!Texts -> SUBSET Categories] /\ rules["output"] = {}
      /\ (screening = "call" => rules["prompt"] = {})
  BY DEF ServicesInit, Moderator!Init, Moderator!Nothing, Moderator!Texts
<1>3. <<>> \in Moderator!SeqOf(Moderator!Hits, MaxHits)
  <2>1. 0 \in 0..MaxHits /\ <<>> \in [1..0 -> Moderator!Hits]
    BY DEF ScoresAreTenths
  <2> QED
    BY <2>1 DEF Moderator!SeqOf
<1>4. \A t \in Moderator!Texts : heard[t] = <<>> /\ Moderator!ToSet(heard[t]) = {}
  BY <1>1 DEF Moderator!ToSet
<1>5. ModeratedWell
  BY <1>1, <1>2, <1>4 DEF ModeratedWell, Moderator!ModeratedWell, Moderator!Objectionable, Moderator!local_hits, Moderator!Texts
<1> QED
  BY <1>1, <1>2, <1>3, <1>4, <1>5 DEF ModInv, Unjudged, Moderator!Texts

\* The text that is screened is judged, with an answer or before one: it goes on
\* unless it is objectionable.
LEMMA JudgedWell ==
    ASSUME ScoresAreTenths, ModInv, screening \in {"screen", "classify"},
           UNCHANGED <<text, rules>>,
           heard' \in [Moderator!Texts -> Moderator!SeqOf(Moderator!Hits, MaxHits)],
           \A t \in Moderator!Texts : t # text => heard'[t] = heard[t],
           \/ Moderator!Objectionable(text)' /\ screening' = "blocked"
           \/ ~Moderator!Objectionable(text)' /\ Moderator!Allowed
    PROVE  ModInv'
<1>1. \/ text = "prompt" /\ heard'["output"] = heard["output"]
      \/ text = "output"
  BY DEF ModInv, Moderator!Texts
<1>2. ASSUME NEW t \in Moderator!Texts, t # text
      PROVE  Moderator!Objectionable(t)' <=> Moderator!Objectionable(t)
  BY <1>2 DEF Moderator!Objectionable
<1>3. text = "prompt" => ~Moderator!Objectionable("output")
  BY DEF ModInv, Unjudged, Moderator!Objectionable, Moderator!local_hits, Moderator!ToSet
<1>4. ModeratedWell'
  BY <1>1, <1>2, <1>3 DEF ModInv, ModeratedWell, Moderator!ModeratedWell, Moderator!Texts, Moderator!Allowed
<1> QED
  BY <1>1, <1>4 DEF ModInv, Unjudged, Moderator!Texts, Moderator!Allowed

LEMMA NextModInv ==
    ASSUME ScoresAreTenths PROVE ModInv /\ [Moderator!Next]_(Moderator!modVars) => ModInv'
<1> SUFFICES ASSUME ModInv, [Moderator!Next]_(Moderator!modVars) PROVE ModInv'
  OBVIOUS
<1>1. ASSUME NEW blank \in BOOLEAN, Moderator!Screen(blank) PROVE ModInv'
  <2>1. /\ screening = "screen" /\ UNCHANGED <<text, rules, heard>>
        /\ text \in Moderator!Texts /\ heard[text] = <<>> /\ Moderator!ToSet(heard[text]) = {}
    BY <1>1 DEF Moderator!Screen, ModInv, Unjudged, Moderator!ToSet
  <2>2. CASE blank
    <3>1. ~Moderator!Objectionable(text)' /\ Moderator!Allowed
      BY <1>1, <2>1, <2>2 DEF Moderator!Screen, Moderator!Objectionable, Moderator!local_hits
    <3> QED
      BY <2>1, <3>1, JudgedWell DEF ModInv
  <2>3. CASE ~blank /\ rules[text] \cap HARD_BLOCK_CATEGORIES # {}
    <3>1. Moderator!Objectionable(text)' /\ screening' = "blocked"
      BY <1>1, <2>1, <2>3 DEF Moderator!Screen, Moderator!Objectionable
    <3> QED
      BY <2>1, <3>1, JudgedWell DEF ModInv
  <2>4. CASE ~blank /\ rules[text] \cap HARD_BLOCK_CATEGORIES = {}
    <3>1. screening' = "classify"
      BY <1>1, <2>4 DEF Moderator!Screen
    <3>2. ModeratedWell'
      BY <2>1, <3>1 DEF ModInv, ModeratedWell, Moderator!ModeratedWell, Moderator!Objectionable, Moderator!Texts
    <3> QED
      BY <2>1, <2>4, <3>1, <3>2 DEF ModInv, Unjudged
  <2> QED
    BY <2>2, <2>3, <2>4
<1>2. ASSUME NEW judged \in Moderator!SeqOf(Moderator!Hits, MaxHits), Moderator!Classified(judged) PROVE ModInv'
  <2>1. /\ screening = "classify" /\ UNCHANGED <<text, rules>> /\ text \in Moderator!Texts
        /\ rules[text] \in SUBSET Categories /\ rules[text] \cap HARD_BLOCK_CATEGORIES = {}
        /\ heard' = [heard EXCEPT ![text] = judged]
    BY <1>2 DEF Moderator!Classified, ModInv
  <2>2. /\ heard' \in [Moderator!Texts -> Moderator!SeqOf(Moderator!Hits, MaxHits)]
        /\ heard'[text] = judged /\ \A t \in Moderator!Texts : t # text => heard'[t] = heard[t]
    BY <2>1 DEF ModInv
  <2>3. Moderator!Objectionable(text)' <=> \E h \in Moderator!merge_scores(rules[text], judged) : Moderator!is_flagged(h)
    BY <2>1, <2>2, BestFlagged DEF Moderator!Objectionable
  <2> QED
    BY <1>2, <2>1, <2>2, <2>3, JudgedWell DEF Moderator!Classified
<1>3. ASSUME NEW matched \in SUBSET Categories, Moderator!Output(matched) PROVE ModInv'
  <2>1. /\ screening = "call" /\ screening' = "screen" /\ text' = "output" /\ heard' = heard
        /\ rules' = [rules EXCEPT !["output"] = matched]
    BY <1>3 DEF Moderator!Output
  <2>2. /\ rules' \in [Moderator!Texts -> SUBSET Categories] /\ rules'["prompt"] = rules["prompt"]
    BY <2>1 DEF ModInv, Moderator!Texts
  <2>3. text = "prompt"
    BY <2>1 DEF ModInv
  <2>4. ModeratedWell'
    BY <2>1, <2>2 DEF ModInv, ModeratedWell, Moderator!ModeratedWell, Moderator!Objectionable
  <2> QED
    BY <2>1, <2>2, <2>3, <2>4 DEF ModInv, Unjudged, Moderator!Texts
<1>4. CASE Moderator!Unscreened
  <2>1. screening = "call" /\ screening' \in {"returned", "raised"} /\ UNCHANGED <<text, rules, heard>>
    BY <1>4 DEF Moderator!Unscreened
  <2>2. ModeratedWell'
    BY <2>1 DEF ModInv, ModeratedWell, Moderator!ModeratedWell, Moderator!Objectionable, Unjudged,
                Moderator!local_hits, Moderator!ToSet
  <2> QED
    BY <2>1, <2>2 DEF ModInv, Unjudged
<1>5. CASE UNCHANGED Moderator!modVars
  BY <1>5 DEF Moderator!modVars, ModInv, Unjudged, ModeratedWell, Moderator!ModeratedWell, Moderator!Objectionable
<1> QED
  BY <1>1, <1>2, <1>3, <1>4, <1>5 DEF Moderator!Next

\* Whatever categories and thresholds there are, and whatever the classifier answers:
\* what is objectionable is stopped, and nothing else.
THEOREM OnlyObjectionableStopped == ASSUME ScoresAreTenths PROVE ServicesSpec => []ModeratedWell
<1>1. ModInv => ModeratedWell
  BY DEF ModInv
<1> QED
  BY <1>1, InitModInv, ModerationSteps, NextModInv, PTL DEF ServicesSpec

-----------------------------------------------------------------------------
(* Containment: for any number of modules, calls and anomalies, as long as a *)
(* module names one other at most, and none depends on itself by a detour.   *)

LEMMA ImmuneSteps == [ServicesNext]_allVars => [Immune!Next]_(Immune!immuneVars)
BY DEF ServicesNext, allVars, immuneVars, Immune!immuneVars

\* The dependencies form trees: they lead upwards in some ranking.  With two
\* ways from one module to another it fails: a module that recovered after its
\* visit is not visited again when the cascade comes round by the other way.
DependenciesAreTrees ==
    /\ Guarded # {}
    /\ \A m \in Guarded : DependsOn[m] \subseteq Guarded
    /\ \A m \in Guarded : \A c, d \in DependsOn[m] : c = d
    /\ \E rank \in [Guarded -> Nat] :
          \A m \in Guarded : \A d \in DependsOn[m] : rank[d] < rank[m]

\* One cascade at a time, and none to come when nobody runs one.
OneCascade ==
    /\ \A t, u \in Tasks : doing[t] = "cascade" /\ doing[u] = "cascade" => t = u
    /\ ~Immune!Locked => cascade = {} /\ seen = {}
    /\ cascade \cap seen = {}

\* What a cascade has reached, it reached from its root, upwards.
CascadeReached(rank) ==
    \A t \in Tasks : doing[t] = "cascade" =>
        \A m \in cascade \cup seen :
            /\ rank[calling[t]] <= rank[m]
            /\ m = calling[t] \/ \E d \in DependsOn[m] : d \in seen

\* What depends on a module out of service is quarantined or about to be.
Held ==
    cancels = 0 =>
        \A m \in Guarded \ released : \A d \in DependsOn[m] :
            health[d] # "healthy" => health[m] = "quarantined" \/ m \in cascade

ImmuneOK ==
    /\ health \in [Guarded -> {"healthy", "quarantined", "probing"}]
    /\ calling \in [Tasks -> Guarded]
    /\ doing \in [Tasks -> {"idle", "call", "lock", "cascade"}]
    /\ cascade \subseteq Guarded /\ seen \subseteq Guarded
    /\ cancels \in Nat

ImmuneInv(rank) == ImmuneOK /\ OneCascade /\ CascadeReached(rank) /\ Held

\* A step outside the cascades: nobody falls out of service, and whoever leaves
\* quarantine depends on healthy modules only.
LEMMA OutsideKeepsHeld ==
    ASSUME Held, UNCHANGED <<cascade, released, cancels>>,
           \A m \in Guarded : health[m] = "healthy" => health'[m] = "healthy",
           \A m \in Guarded : health[m] = "quarantined" =>
              \/ health'[m] = "quarantined"
              \/ \A d \in DependsOn[m] : health[d] = "healthy",
           DependenciesAreTrees
    PROVE  Held'
BY DEF Held, DependenciesAreTrees

\* A task that is not cascading, before and after, changes nothing of the cascade.
LEMMA OthersKeepCascade ==
    ASSUME ImmuneOK, OneCascade, NEW rank, CascadeReached(rank), NEW t \in Tasks, NEW m \in Guarded,
           NEW d \in {"idle", "call", "lock"}, doing[t] # "cascade", Immune!Does(t, m, d),
           UNCHANGED <<cascade, seen>>
    PROVE  /\ OneCascade' /\ CascadeReached(rank)'
           /\ calling' \in [Tasks -> Guarded]
           /\ doing' \in [Tasks -> {"idle", "call", "lock", "cascade"}]
<1> USE DEF ImmuneOK
<1>1. /\ doing' = [doing EXCEPT ![t] = d]
      /\ calling' = [calling EXCEPT ![t] = IF d = "idle" THEN Immune!Unused ELSE m]
  BY DEF Immune!Does
<1>2. Immune!Unused \in Guarded
  BY DEF Immune!Unused
<1>3. \A u \in Tasks : /\ doing'[u] = "cascade" <=> doing[u] = "cascade"
                       /\ doing[u] = "cascade" => calling'[u] = calling[u]
  BY <1>1
<1>4. OneCascade'
  BY <1>3 DEF OneCascade, Immune!Locked
<1>5. CascadeReached(rank)'
  BY <1>3 DEF CascadeReached
<1> QED
  BY <1>1, <1>2, <1>4, <1>5

LEMMA VisitKeepsInv ==
    ASSUME DependenciesAreTrees, NEW rank \in [Guarded -> Nat],
           \A m \in Guarded : \A d \in DependsOn[m] : rank[d] < rank[m],
           ImmuneInv(rank), NEW t \in Tasks, NEW m \in Guarded, Immune!Visit(t, m)
    PROVE  ImmuneInv(rank)'
<1> USE DEF ImmuneInv, ImmuneOK
<1>1. /\ doing[t] = "cascade" /\ m \in cascade
      /\ seen' = seen \cup {m}
      /\ cascade' = ((cascade \cup Immune!Dependents(m)) \ {m}) \ seen
      /\ health' = [health EXCEPT ![m] = "quarantined"]
      /\ released' = released \ {m}
      /\ UNCHANGED <<calling, doing, cancels>>
  BY DEF Immune!Visit, Immune!taskVars
<1>2. \A o \in Immune!Dependents(m) : o \in Guarded /\ m \in DependsOn[o]
  BY DEF Immune!Dependents
<1>3. ImmuneOK'
  BY <1>1, <1>2
<1>4. OneCascade'
  BY <1>1 DEF OneCascade, Immune!Locked
<1>5. CascadeReached(rank)'
  <2> SUFFICES ASSUME NEW u \in Tasks, doing[u] = "cascade", NEW o \in cascade' \cup seen'
               PROVE  /\ rank[calling[u]] <= rank[o]
                      /\ o = calling[u] \/ \E d \in DependsOn[o] : d \in seen'
    BY <1>1 DEF CascadeReached
  <2>1. CASE o \in cascade \cup seen
    BY <1>1, <2>1 DEF CascadeReached
  <2>2. CASE o \in Immune!Dependents(m)
    <3>1. rank[calling[u]] <= rank[m] /\ rank[m] < rank[o]
      BY <1>1, <1>2, <2>2 DEF CascadeReached
    <3>2. rank[calling[u]] \in Nat /\ rank[m] \in Nat /\ rank[o] \in Nat
      BY <1>2, <2>2
    <3> QED
      BY <1>1, <1>2, <2>2, <3>1, <3>2
  <2> QED
    BY <1>1, <2>1, <2>2
<1>6. Held'
  <2> SUFFICES ASSUME cancels = 0, NEW o \in Guarded \ released', NEW d \in DependsOn[o],
                      health'[d] # "healthy"
               PROVE  health'[o] = "quarantined" \/ o \in cascade'
    BY <1>1 DEF Held
  <2>1. CASE o = m
    BY <1>1, <2>1
  <2>2. CASE o # m /\ d # m
    <3>1. d \in Guarded /\ health'[d] = health[d] /\ health'[o] = health[o] /\ o \notin released
      BY <1>1, <2>2 DEF DependenciesAreTrees
    <3>2. health[o] = "quarantined" \/ o \in cascade
      BY <3>1 DEF Held
    <3>3. cascade \cap seen = {}
      BY DEF OneCascade
    <3> QED
      BY <1>1, <2>2, <3>1, <3>2, <3>3
  <2>3. CASE o # m /\ d = m
    <3>1. o \notin seen
      <4> SUFFICES ASSUME o \in seen PROVE FALSE
        OBVIOUS
      <4>1. m \notin seen
        BY <1>1 DEF OneCascade
      <4>2. o = calling[t]
        BY <1>1, <2>3, <4>1 DEF CascadeReached, DependenciesAreTrees
      <4>3. rank[o] <= rank[m] /\ rank[m] < rank[o]
        BY <1>1, <2>3, <4>2 DEF CascadeReached
      <4> QED
        BY <4>3
    <3> QED
      BY <1>1, <2>3, <3>1 DEF Immune!Dependents
  <2> QED
    BY <2>1, <2>2, <2>3
<1> QED
  BY <1>3, <1>4, <1>5, <1>6

LEMMA NextImmuneInv ==
    ASSUME DependenciesAreTrees, NEW rank \in [Guarded -> Nat],
           \A m \in Guarded : \A d \in DependsOn[m] : rank[d] < rank[m]
    PROVE  ImmuneInv(rank) /\ [Immune!Next]_(Immune!immuneVars) => ImmuneInv(rank)'
<1> SUFFICES ASSUME ImmuneInv(rank), [Immune!Next]_(Immune!immuneVars) PROVE ImmuneInv(rank)'
  OBVIOUS
<1> USE DEF ImmuneInv, ImmuneOK, Immune!taskVars, Immune!lockVars
<1>1. ASSUME NEW t \in Tasks, NEW m \in Guarded, Immune!Call(t, m) PROVE ImmuneInv(rank)'
  <2>1. OneCascade' /\ CascadeReached(rank)' /\ calling' \in [Tasks -> Guarded]
        /\ doing' \in [Tasks -> {"idle", "call", "lock", "cascade"}]
    BY <1>1, OthersKeepCascade DEF Immune!Call
  <2>2. UNCHANGED <<cascade, released, cancels, seen>>
    BY <1>1 DEF Immune!Call
  <2>3. CASE health' = health
    BY <2>1, <2>2, <2>3, OutsideKeepsHeld
  <2>4. CASE /\ health[m] = "quarantined" /\ health' = [health EXCEPT ![m] = "probing"]
             /\ \A d \in DependsOn[m] : health[d] = "healthy"
    <3>1. Held'
      BY <2>2, <2>4, OutsideKeepsHeld
    <3> QED
      BY <2>1, <2>2, <2>4, <3>1
  <2> QED
    BY <1>1, <2>3, <2>4 DEF Immune!Call, Immune!admit
<1>2. ASSUME NEW t \in Tasks, Immune!Success(t) \/ Immune!Anomaly(t) PROVE ImmuneInv(rank)'
  <2>1. OneCascade' /\ CascadeReached(rank)' /\ calling' \in [Tasks -> Guarded]
        /\ doing' \in [Tasks -> {"idle", "call", "lock", "cascade"}]
    <3>1. CASE Immune!Success(t)
      BY <3>1, OthersKeepCascade DEF Immune!Success
    <3>2. CASE Immune!Anomaly(t)
      BY <3>2, OthersKeepCascade DEF Immune!Anomaly
    <3> QED
      BY <1>2, <3>1, <3>2
  <2>2. /\ UNCHANGED <<cascade, released, cancels, seen>>
        /\ \/ health' = health
           \/ /\ health[calling[t]] = "probing"
              /\ health' = [health EXCEPT ![calling[t]] = "healthy"]
    BY <1>2 DEF Immune!Success, Immune!Anomaly
  <2>3. Held'
    BY <2>2, OutsideKeepsHeld
  <2> QED
    BY <2>1, <2>2, <2>3
<1>3. ASSUME NEW t \in Tasks, NEW m \in Guarded, Immune!Mismatch(t, m) PROVE ImmuneInv(rank)'
  <2>1. OneCascade' /\ CascadeReached(rank)' /\ calling' \in [Tasks -> Guarded]
        /\ doing' \in [Tasks -> {"idle", "call", "lock", "cascade"}]
    BY <1>3, OthersKeepCascade DEF Immune!Mismatch
  <2> QED
    BY <1>3, <2>1, OutsideKeepsHeld DEF Immune!Mismatch
<1>4. ASSUME NEW t \in Tasks, Immune!Lock(t) PROVE ImmuneInv(rank)'
  <2>1. /\ doing' = [doing EXCEPT ![t] = "cascade"] /\ calling' = [calling EXCEPT ![t] = calling[t]]
        /\ cascade' = {calling[t]} /\ seen' = {} /\ cascade = {}
        /\ \A u \in Tasks : doing[u] # "cascade"
        /\ UNCHANGED <<health, released, cancels>>
    BY <1>4 DEF Immune!Lock, Immune!Does, Immune!Locked, OneCascade
  <2>2. OneCascade' /\ \A u \in Tasks : doing'[u] = "cascade" => u = t
    BY <2>1 DEF OneCascade, Immune!Locked
  <2>3. CascadeReached(rank)'
    BY <2>1, <2>2 DEF CascadeReached
  <2>4. Held'
    BY <2>1 DEF Held
  <2> QED
    BY <2>1, <2>2, <2>3, <2>4
<1>5. ASSUME NEW t \in Tasks, Immune!Unlock(t) \/ Immune!Cancel(t) PROVE ImmuneInv(rank)'
  <2>1. /\ doing[t] = "cascade" /\ doing' = [doing EXCEPT ![t] = "idle"]
        /\ calling' = [calling EXCEPT ![t] = Immune!Unused]
        /\ cascade' = {} /\ seen' = {} /\ UNCHANGED <<health, released>>
        /\ cancels' \in {cancels, cancels + 1}
        /\ cancels' = cancels => cascade = {}
    BY <1>5 DEF Immune!Unlock, Immune!Cancel, Immune!Does
  <2>2. Immune!Unused \in Guarded
    BY DEF Immune!Unused
  <2>3. \A u \in Tasks : doing'[u] # "cascade"
    BY <2>1 DEF OneCascade
  <2>4. OneCascade' /\ CascadeReached(rank)'
    BY <2>1, <2>3 DEF OneCascade, CascadeReached
  <2>5. Held'
    BY <2>1 DEF Held
  <2> QED
    BY <2>1, <2>2, <2>4, <2>5
<1>6. ASSUME NEW m \in Guarded, Immune!Release(m) PROVE ImmuneInv(rank)'
  <2>1. /\ health' = [health EXCEPT ![m] = "healthy"] /\ released' = released \cup {m}
        /\ UNCHANGED <<doing, calling, cascade, seen, cancels>>
    BY <1>6 DEF Immune!Release
  <2>2. Held'
    BY <2>1 DEF Held, DependenciesAreTrees
  <2> QED
    BY <2>1, <2>2 DEF OneCascade, Immune!Locked, CascadeReached
<1>7. ASSUME UNCHANGED <<health, released, doing, calling, cascade, seen, cancels>>
      PROVE  ImmuneInv(rank)'
  BY <1>7 DEF OneCascade, Immune!Locked, CascadeReached, Held
<1>8. ASSUME NEW m \in Guarded, Immune!CooldownOver(m) \/ Immune!WindowOver(m)
      PROVE  ImmuneInv(rank)'
  BY <1>7, <1>8 DEF Immune!CooldownOver, Immune!WindowOver
<1>9. CASE UNCHANGED Immune!immuneVars
  BY <1>7, <1>9 DEF Immune!immuneVars
<1> QED
  BY <1>1, <1>2, <1>3, <1>4, <1>5, <1>6, <1>8, <1>9, VisitKeepsInv DEF Immune!Next

\* Dependency isolation: whatever calls, late successes and probes run while a
\* cascade awaits, when it is over what depends on a module out of service is
\* quarantined, unless an operator freed it or a cascade was cancelled.
THEOREM QuarantineContains == ASSUME DependenciesAreTrees PROVE ServicesSpec => []Contained
<1>1. PICK rank \in [Guarded -> Nat] :
        \A m \in Guarded : \A d \in DependsOn[m] : rank[d] < rank[m]
  BY DEF DependenciesAreTrees
<1>2. ServicesInit => ImmuneInv(rank)
  <2> SUFFICES ASSUME Immune!Init PROVE ImmuneInv(rank)
    BY DEF ServicesInit
  <2>1. Immune!Unused \in Guarded
    BY DEF DependenciesAreTrees, Immune!Unused
  <2> QED
    BY <2>1 DEF Immune!Init, ImmuneInv, ImmuneOK, OneCascade, CascadeReached, Held, Immune!Locked,
                DependenciesAreTrees
<1>3. ImmuneInv(rank) => Contained
  BY DEF ImmuneInv, OneCascade, Held, Contained, Immune!Contained
<1>4. ImmuneInv(rank) /\ [Immune!Next]_(Immune!immuneVars) => ImmuneInv(rank)'
  BY <1>1, NextImmuneInv
<1> QED
  BY <1>2, <1>3, <1>4, ImmuneSteps, PTL DEF ServicesSpec

-----------------------------------------------------------------------------
(* Anonymization: for payloads of any shape and depth.                      *)

\* The parts of a path, put together again.
LEMMA FlattenOfOnes ==
    ASSUME NEW S, NEW p \in Seq(S), NEW s, s = [i \in DOMAIN p |-> <<p[i]>>]
    PROVE  Compliance!FlattenSeq(s) = p
<1>1. Len(p) \in Nat /\ DOMAIN p = 1..Len(p) /\ DOMAIN s = 1..Len(p)
  OBVIOUS
<1>2. s \in Seq(Seq(S)) /\ Len(s) = Len(p)
  <2>1. \A i \in 1..Len(p) : p[i] \in S /\ s[i] = <<p[i]>> /\ <<p[i]>> \in Seq(S)
    OBVIOUS
  <2>2. s \in [1..Len(p) -> Seq(S)]
    BY <1>1, <2>1
  <2> QED
    BY <1>1, <2>2
<1>3. CASE Len(s) = 0
  <2>1. p = <<>> /\ s = <<>>
    BY <1>2, <1>3, EmptySeq
  <2> QED
    BY <1>3, <2>1 DEF Compliance!FlattenSeq
<1>4. CASE Len(s) # 0
  <2> DEFINE n == Len(p)
             Rec(f) == [i \in 1..n |-> IF i = 1 THEN s[i] ELSE f[i - 1] \o s[i]]
             g == [i \in 1..n |-> SubSeq(p, 1, i)]
             h == CHOOSE f : f = Rec(f)
  <2>1. Compliance!FlattenSeq(s) = h[n]
    BY <1>2, <1>4 DEF Compliance!FlattenSeq
  <2>2. n \in Nat /\ n # 0 /\ \A i \in 1..n : s[i] = <<p[i]>> /\ p[i] \in S
    BY <1>1, <1>2, <1>4
  <2>3. \A i \in 2..n : g[i - 1] \o s[i] = g[i]
    <3> SUFFICES ASSUME NEW i \in 2..n PROVE g[i - 1] \o s[i] = g[i]
      OBVIOUS
    <3>1. i \in 1..n /\ i - 1 \in 1..n /\ g[i - 1] = SubSeq(p, 1, i - 1) /\ g[i] = SubSeq(p, 1, i)
      BY <2>2
    <3>2. s[i] = <<p[i]>> /\ p[i] \in S
      BY <2>2, <3>1
    <3>3. SubSeq(p, 1, i - 1) \o <<p[i]>> = SubSeq(p, 1, i)
      BY <2>2, SubSeqRecursiveSecond
    <3> QED
      BY <3>1, <3>2, <3>3
  <2>4. g[1] = s[1]
    <3>1. 1 \in 1..n /\ g[1] = SubSeq(p, 1, 1) /\ s[1] = <<p[1]>>
      BY <2>2
    <3>2. SubSeq(p, 1, 1) \in Seq(S) /\ Len(SubSeq(p, 1, 1)) = 1 /\ SubSeq(p, 1, 1)[1] = p[1]
      BY <2>2, SubSeqProperties
    <3> QED
      BY <2>2, <3>1, <3>2
  <2>5. g = Rec(g)
    <3>1. \A i \in 1..n : g[i] = Rec(g)[i]
      <4> SUFFICES ASSUME NEW i \in 1..n PROVE g[i] = Rec(g)[i]
        OBVIOUS
      <4> HIDE DEF g
      <4>1. Rec(g)[i] = IF i = 1 THEN s[i] ELSE g[i - 1] \o s[i]
        BY Zenon
      <4>2. i # 1 => i \in 2..n
        BY <2>2
      <4> HIDE DEF Rec
      <4> QED
        BY <2>3, <2>4, <4>1, <4>2
    <3>2. DOMAIN g = 1..n /\ g = [i \in 1..n |-> g[i]]
      OBVIOUS
    <3>3. Rec(g) = [i \in 1..n |-> Rec(g)[i]]
      OBVIOUS
    <3> HIDE DEF g, Rec
    <3> QED
      BY <3>1, <3>2, <3>3
  <2>6. h = Rec(h)
    <3> HIDE DEF Rec, g
    <3> QED
      BY <2>5
  <2>7. \A i \in 1..n : h[i] = g[i]
    <3> DEFINE T == {i \in 1..n : h[i] # g[i]}
    <3> SUFFICES ASSUME T # {} PROVE FALSE
      OBVIOUS
    <3> HIDE DEF h
    <3>1. T \subseteq Nat
      BY <2>2
    <3>2. PICK i \in T : \A j \in T : i <= j
      <4> HIDE DEF T
      <4> QED
        BY <3>1, SmallestExists
    <3>3. i \in 1..n /\ h[i] # g[i]
      OBVIOUS
    <3> HIDE DEF g
    <3>4. \A j \in 1..n : h[j] = IF j = 1 THEN s[j] ELSE h[j - 1] \o s[j]
      BY <2>6, Zenon
    <3>5. 1 \in 1..n
      BY <2>2
    <3>6. i # 1 => i \in 2..n /\ i - 1 \in 1..n
      BY <2>2, <3>3
    <3>7. i # 1 => i - 1 \notin T
      BY <2>2, <3>2, <3>6
    <3>8. i # 1 => h[i - 1] = g[i - 1]
      BY <3>6, <3>7
    <3> HIDE DEF T
    <3> QED
      BY <2>3, <2>4, <3>3, <3>4, <3>5, <3>6, <3>8
  <2>8. h[n] = p
    <3>1. n \in 1..n /\ g[n] = SubSeq(p, 1, n)
      BY <2>2
    <3> HIDE DEF g, h
    <3>2. h[n] = g[n]
      BY <2>7, <3>1
    <3> QED
      BY <3>1, <3>2, SubSeqFull
  <2> HIDE DEF h
  <2> QED
    BY <2>1, <2>8
<1> QED
  BY <1>2, <1>3, <1>4

\* A plain key is one part of a field path, and that part is the key.
LEMMA PlainKeyStays ==
    ASSUME NEW W, NEW w \in Seq(W), Compliance!Plain(w)
    PROVE  Compliance!Parts(w) = <<w>>
<1>1. CASE Compliance!IsPlace(w)
  BY <1>1 DEF Compliance!Parts
<1>2. CASE ~Compliance!IsPlace(w)
  <2> DEFINE s == [i \in DOMAIN w |-> Compliance!Part(w[i])]
             k == <<w>>
  <2>1. Len(w) = 1 /\ DOMAIN w = {1} /\ w = <<w[1]>>
    BY <1>2 DEF Compliance!Plain
  <2>2. w[1] \notin Compliance!Separators /\ w[1] \notin Numbers
    BY <1>2, <2>1 DEF Compliance!Plain
  <2>3. Compliance!Part(w[1]) = << <<w[1]>> >>
    BY <2>2 DEF Compliance!Part
  <2>4. k \in Seq(Seq(W)) /\ DOMAIN k = {1} /\ k[1] = w
    OBVIOUS
  <2>5. s = [i \in DOMAIN k |-> <<k[i]>>]
    BY <2>1, <2>3, <2>4
  <2>6. Compliance!FlattenSeq(s) = k
    <3> HIDE DEF s, k
    <3> QED
      BY <2>4, <2>5, FlattenOfOnes
  <2> QED
    BY <1>2, <2>6 DEF Compliance!Parts
<1> QED
  BY <1>1, <1>2

\* A path of plain keys is read as it was written.
LEMMA PlainPathStays ==
    ASSUME NEW W, NEW p \in Seq(Seq(W)), Compliance!PlainPath(p)
    PROVE  Compliance!FieldPath(p) = p
<1>1. \A i \in DOMAIN p : Compliance!Parts(p[i]) = <<p[i]>>
  <2> SUFFICES ASSUME NEW i \in DOMAIN p PROVE Compliance!Parts(p[i]) = <<p[i]>>
    OBVIOUS
  <2>1. p[i] \in Seq(W) /\ Compliance!Plain(p[i])
    BY DEF Compliance!PlainPath
  <2> QED
    BY <2>1, PlainKeyStays
<1>2. [i \in DOMAIN p |-> Compliance!Parts(p[i])] = [i \in DOMAIN p |-> <<p[i]>>]
  BY <1>1
<1> QED
  BY <1>2, FlattenOfOnes DEF Compliance!FieldPath

\* A payload is a dictionary: each string is reached by one key or more, and a branch
\* that ends in a string has nothing below it.  A place's mark is no digit.
PayloadsAreTrees ==
    /\ \A x \in Payloads :
          /\ \E W : DOMAIN x \subseteq Seq(Seq(W))
          /\ <<>> \notin DOMAIN x
          /\ \A q \in DOMAIN x : \A n \in 1..(Len(q) - 1) : SubSeq(q, 1, n) \notin DOMAIN x
    /\ "#" \notin Odd

\* The parts of a field path whose keys are plain raise nothing.
LEMMA PlainPathsDoNotRaise ==
    ASSUME PayloadsAreTrees, payload \in Payloads, NEW p \in DOMAIN payload, Compliance!PlainPath(p)
    PROVE  ~Compliance!MustRaise(p) /\ ~Compliance!MayRaise(p)
<1>1. PICK W : p \in Seq(Seq(W))
  BY DEF PayloadsAreTrees
<1>2. \A n \in DOMAIN p : ~Compliance!IsOdd(p[n])
  BY DEF PayloadsAreTrees, Compliance!PlainPath, Compliance!Plain, Compliance!IsPlace, Compliance!IsOdd
<1>3. ~Compliance!MustRaise(p)
  BY <1>2 DEF PayloadsAreTrees, Compliance!MustRaise
<1>4. ASSUME NEW n \in DOMAIN p, NEW m \in DOMAIN p, n < m
      PROVE  SubSeq(p, 1, n) \notin DOMAIN payload
  <2>1. n \in 1..(Len(p) - 1)
    BY <1>1, <1>4
  <2> QED
    BY <2>1 DEF PayloadsAreTrees
<1> QED
  BY <1>3, <1>4 DEF Compliance!MayRaise

GuardInv ==
    /\ part = "compliance" => payload \in Payloads
    /\ allowed # "unknown" =>
          /\ payload \in Payloads
          /\ LET hit == {Compliance!FieldPath(p) : p \in Compliance!Matches(Compliance!PII)}
             IN  IF allowed = "raised"
                 THEN \E parts \in hit : Compliance!MustRaise(parts) \/ Compliance!MayRaise(parts)
                 ELSE copy = Compliance!anonymize(hit)

\* Whatever the payload, nested at will under keys of every kind: in the copy that is
\* logged or passed on each string of personal data that the scan reached under plain
\* keys is anonymized, even where other keys of the payload read differently in a
\* field path; and only a finding under such a key overwrites a string in which
\* nothing was found, or makes evaluate() raise.
THEOREM CopiesAreAnonymized == ASSUME PayloadsAreTrees PROVE ServicesSpec => []AnonymizedWell
<1>1. ServicesInit => GuardInv
  BY DEF ServicesInit, Compliance!Init, GuardInv
<1>2. GuardInv /\ [ServicesNext]_allVars => GuardInv'
  <2> SUFFICES ASSUME GuardInv, [ServicesNext]_allVars PROVE GuardInv'
    OBVIOUS
  <2> DEFINE hit == {Compliance!FieldPath(p) : p \in Compliance!Matches(Compliance!PII)}
  <2>1. CASE part = "compliance" /\ Compliance!evaluate /\ part' = part
    <3>1. payload' = payload /\ payload \in Payloads
      BY <2>1 DEF GuardInv, Compliance!evaluate
    <3>2. hit' = hit
      BY <3>1 DEF Compliance!Matches
    <3>3. \/ allowed' = "raised" /\ \E parts \in hit : Compliance!MustRaise(parts) \/ Compliance!MayRaise(parts)
          \/ allowed' \in {"yes", "no"} /\ copy' = Compliance!anonymize(hit)
      BY <2>1 DEF Compliance!evaluate
    <3> HIDE DEF hit
    <3>4. CASE allowed' = "raised"
      <4>1. \E parts \in hit : Compliance!MustRaise(parts) \/ Compliance!MayRaise(parts)
        BY <3>3, <3>4
      <4>2. \A parts : /\ Compliance!MustRaise(parts)' <=> Compliance!MustRaise(parts)
                       /\ Compliance!MayRaise(parts)' <=> Compliance!MayRaise(parts)
        BY <3>1 DEF Compliance!MustRaise, Compliance!MayRaise, Compliance!Leads
      <4>3. (\E parts \in hit : Compliance!MustRaise(parts) \/ Compliance!MayRaise(parts))'
        BY <3>2, <4>1, <4>2
      <4> QED
        BY <3>1, <3>4, <4>3 DEF GuardInv, hit
    <3>5. CASE allowed' # "raised"
      <4>1. copy' = Compliance!anonymize(hit)
        BY <3>3, <3>5
      <4>2. (copy = Compliance!anonymize(hit))'
        BY <3>1, <3>2, <4>1 DEF Compliance!anonymize
      <4> QED
        BY <3>1, <3>5, <4>2 DEF GuardInv, hit
    <3> QED
      BY <3>4, <3>5
  <2>2. CASE UNCHANGED guardVars /\ part' = part
    BY <2>2 DEF guardVars, GuardInv, Compliance!anonymize, Compliance!Matches,
        Compliance!MustRaise, Compliance!MayRaise, Compliance!Leads
  <2> QED
    BY <2>1, <2>2 DEF ServicesNext, allVars
<1>3. GuardInv => AnonymizedWell
  <2> SUFFICES ASSUME GuardInv, allowed # "unknown" PROVE AnonymizedWell
    BY DEF AnonymizedWell, Compliance!AnonymizedWell
  <2> DEFINE hit == {Compliance!FieldPath(p) : p \in Compliance!Matches(Compliance!PII)}
             astray == \E q \in DOMAIN payload : Compliance!Found(q) /\ ~Compliance!PlainPath(q)
  <2>1. payload \in Payloads
    BY DEF GuardInv
  <2>2. PICK W : DOMAIN payload \subseteq Seq(Seq(W))
    BY <2>1 DEF PayloadsAreTrees
  <2>3. \A q \in DOMAIN payload : Compliance!PlainPath(q) => Compliance!FieldPath(q) = q
    BY <2>2, PlainPathStays
  <2>4. \A q : q \in Compliance!Matches(Compliance!PII) <=> q \in DOMAIN payload /\ Compliance!Found(q)
    BY DEF Compliance!Matches, Compliance!Found
  <2>5. ASSUME ~astray, NEW parts \in hit
        PROVE  parts \in DOMAIN payload /\ Compliance!Found(parts) /\ Compliance!PlainPath(parts)
    <3>1. PICK q \in Compliance!Matches(Compliance!PII) : parts = Compliance!FieldPath(q)
      BY <2>5
    <3>2. q \in DOMAIN payload /\ Compliance!Found(q)
      BY <2>4
    <3>3. Compliance!PlainPath(q)
      BY <2>5, <3>2
    <3>4. parts = q
      BY <2>3, <3>1, <3>2, <3>3
    <3> QED
      BY <3>2, <3>3, <3>4
  <2>6. ASSUME allowed # "raised", NEW p \in DOMAIN payload
        PROVE  /\ Compliance!Found(p) /\ Compliance!PlainPath(p) => copy[p] = "anon"
               /\ copy[p] # payload[p] => Compliance!Found(p) \/ astray
    <3>1. copy[p] = IF p \in hit THEN "anon" ELSE payload[p]
      BY <2>6 DEF GuardInv, Compliance!anonymize
    <3>2. Compliance!Found(p) /\ Compliance!PlainPath(p) => p \in hit
      BY <2>3, <2>4
    <3> HIDE DEF hit, astray
    <3> QED
      BY <2>5, <3>1, <3>2
  <2>7. ASSUME allowed = "raised" PROVE astray
    <3>1. PICK parts \in hit : Compliance!MustRaise(parts) \/ Compliance!MayRaise(parts)
      BY <2>7 DEF GuardInv
    <3> HIDE DEF hit, astray
    <3> QED
      BY <2>1, <2>5, <3>1, PlainPathsDoNotRaise
  <2> HIDE DEF hit
  <2> QED
    BY <2>6, <2>7 DEF AnonymizedWell, Compliance!AnonymizedWell
<1> QED
  BY <1>1, <1>2, <1>3, PTL DEF ServicesSpec

-----------------------------------------------------------------------------
(* The AI gateway: that generate_completion() implements module Completion,  *)
(* for any number of requests and providers, any chain, threshold and number *)
(* of retries.  That every request ends is left to TLC: it rests on fairness.*)

\* Where a request stands, and what that says of its outcome, its attempt and its place
\* in the chain.  It is what makes the calls made a function of the state.
Consistent(r) ==
    /\ stage[r] # "done" => outcome[r] = "none"
    /\ stage[r] \in {"new", "next"} => attempt[r] = 0
    /\ stage[r] \in {"call", "backoff"} => at[r] <= Len(Chain)

IInv == TypeOK /\ \A r \in Requests : Consistent(r)

LEMMA ChainLength == Len(Chain) \in Nat \ {0}
BY GatewayAssumption

-----------------------------------------------------------------------------
(* The circuits keep their types, whoever reports to them.                  *)

CircuitOK ==
    /\ consecutive_failures \in [Providers -> 0..Threshold]
    /\ opened \in [Providers -> {"no", "yes", "elapsed"}]

LEMMA CircuitKept ==
    ASSUME CircuitOK, NEW p \in Providers,
           \/ reset(p)
           \/ record_failure(p)
           \/ UNCHANGED circuitVars
    PROVE  CircuitOK'
<1>1. CASE reset(p)
  BY <1>1, GatewayAssumption DEF CircuitOK, reset
<1>2. CASE record_failure(p)
  <2>1. Bumped(p) \in 0..Threshold
    BY GatewayAssumption DEF CircuitOK, Bumped
  <2>2. consecutive_failures' \in [Providers -> 0..Threshold]
    BY <1>2, <2>1 DEF CircuitOK, record_failure
  <2>3. opened' \in [Providers -> {"no", "yes", "elapsed"}]
    BY <1>2 DEF CircuitOK, record_failure
  <2> QED
    BY <2>2, <2>3 DEF CircuitOK
<1>3. CASE UNCHANGED circuitVars
  BY <1>3 DEF CircuitOK, circuitVars
<1> QED
  BY <1>1, <1>2, <1>3

-----------------------------------------------------------------------------
(* The invariant.                                                           *)

RequestsOK ==
    /\ stage \in [Requests -> {"new", "next", "call", "backoff", "done"}]
    /\ at \in [Requests -> 1..(Len(Chain) + 1)]
    /\ attempt \in [Requests -> 0..Retries]
    /\ outcome \in [Requests -> {"none", "answered", "failed", "escaped"}]
    /\ \A r \in Requests : Consistent(r)

LEMMA InitIInv == Init => IInv
BY ChainLength, GatewayAssumption DEF Init, IInv, TypeOK, Consistent

\* The three ways a handler leaves a request.
LEMMA PassOverKeeps ==
    ASSUME RequestsOK, NEW r \in Requests, at[r] <= Len(Chain), PassOver(r),
           outcome[r] = "none"
    PROVE  RequestsOK'
BY ChainLength, GatewayAssumption DEF RequestsOK, PassOver, Goto, Consistent

LEMMA FinishKeeps ==
    ASSUME RequestsOK, NEW r \in Requests,
           NEW o \in {"answered", "failed", "escaped"}, Finish(r, o)
    PROVE  RequestsOK'
BY DEF RequestsOK, Finish, Goto, Consistent

LEMMA GotoKeeps ==
    ASSUME RequestsOK, NEW r \in Requests, NEW s \in {"next", "call", "backoff"}, Goto(r, s),
           UNCHANGED <<at, attempt, outcome>>, outcome[r] = "none",
           s = "next" => attempt[r] = 0, s # "next" => at[r] <= Len(Chain)
    PROVE  RequestsOK'
BY DEF RequestsOK, Goto, Consistent

LEMMA NextIInv == IInv /\ [Next]_vars => IInv'
<1> SUFFICES ASSUME CircuitOK, RequestsOK, [Next]_vars PROVE CircuitOK' /\ RequestsOK'
  BY DEF IInv, TypeOK, CircuitOK, RequestsOK
<1>1. ASSUME NEW r \in Requests PROVE /\ stage[r] # "done" => outcome[r] = "none"
                                      /\ at[r] <= Len(Chain) => Here(r) \in Providers
                                      /\ stage[r] \in {"call", "backoff"} => at[r] <= Len(Chain)
                                      /\ stage[r] \in {"new", "next"} => attempt[r] = 0
  BY GatewayAssumption DEF RequestsOK, Consistent, Here
<1>2. ASSUME NEW r \in Requests, Submit(r) PROVE CircuitOK' /\ RequestsOK'
  <2>1. CircuitOK'
    BY <1>2 DEF Submit, CircuitOK, circuitVars
  <2> QED
    BY <1>1, <1>2, <2>1, GotoKeeps DEF Submit
<1>3. ASSUME NEW r \in Requests, Take(r) PROVE CircuitOK' /\ RequestsOK'
  <2>1. Here(r) \in Providers /\ at[r] <= Len(Chain) /\ outcome[r] = "none" /\ attempt[r] = 0
    BY <1>1, <1>3 DEF Take
  <2>2. CircuitOK'
    BY <1>3, <2>1, CircuitKept DEF Take
  <2>3. RequestsOK'
    BY <1>3, <2>1, PassOverKeeps, GotoKeeps DEF Take
  <2> QED
    BY <2>2, <2>3
<1>4. ASSUME NEW r \in Requests, Exhausted(r) PROVE CircuitOK' /\ RequestsOK'
  <2>1. CircuitOK'
    BY <1>4 DEF Exhausted, CircuitOK, circuitVars
  <2> QED
    BY <1>4, <2>1, FinishKeeps DEF Exhausted
<1>5. ASSUME NEW r \in Requests, Answered(r) \/ Rejected(r) \/ Failed(r) \/ NotJSON(r)
      PROVE  CircuitOK' /\ RequestsOK'
  <2>1. stage[r] = "call" /\ at[r] <= Len(Chain) /\ outcome[r] = "none" /\ Here(r) \in Providers
    BY <1>1, <1>5 DEF Answered, Rejected, Failed, NotJSON
  <2>2. CircuitOK'
    BY <1>5, <2>1, CircuitKept
    DEF Answered, Rejected, Failed, NotJSON, record_success
  <2>3. CASE Answered(r) \/ NotJSON(r)
    BY <2>2, <2>3, FinishKeeps DEF Answered, NotJSON
  <2>4. CASE Rejected(r) \/ Failed(r)
    BY <2>1, <2>2, <2>4, PassOverKeeps, GotoKeeps DEF Rejected, Failed
  <2> QED
    BY <1>5, <2>3, <2>4
<1>6. ASSUME NEW r \in Requests, Retry(r) PROVE CircuitOK' /\ RequestsOK'
  <2>1. CircuitOK'
    BY <1>6 DEF Retry, CircuitOK, circuitVars
  <2>2. RequestsOK'
    BY <1>6, GatewayAssumption DEF Retry, RequestsOK, Goto, Consistent
  <2> QED
    BY <2>1, <2>2
<1>7. ASSUME NEW p \in Providers, CooldownElapses(p) PROVE CircuitOK' /\ RequestsOK'
  BY <1>7 DEF CooldownElapses, CircuitOK, RequestsOK, Consistent
<1>8. CASE UNCHANGED vars
  BY <1>8 DEF vars, CircuitOK, RequestsOK, Consistent
<1> QED
  BY <1>2, <1>3, <1>4, <1>5, <1>6, <1>7, <1>8 DEF Next, Progress

\* Counts and stages stay in their ranges whatever is shared between requests.
THEOREM Typed == Spec => []TypeOK
<1>1. IInv => TypeOK
  BY DEF IInv
<1> QED
  BY <1>1, InitIInv, NextIInv, PTL DEF Spec

-----------------------------------------------------------------------------
(* The refinement: a step of a request is a step of the promise, or hidden. *)

\* What the promise sees of a request, stage by stage.
LEMMA MadeBy ==
    ASSUME NEW r \in Requests
    PROVE  /\ stage[r] \in {"new", "next"} => made[r] = 0
           /\ stage[r] \in {"call", "backoff"} /\ outcome[r] = "none" => made[r] = attempt[r] + 1
BY DEF made

LEMMA InitPromise == Init => Promise!Init
BY DEF Init, Promise!Init, made

\* A request that passes its provider over, from any stage of asking it.
LEMMA PassOverImplements ==
    ASSUME RequestsOK, NEW r \in Requests, at[r] <= Len(Chain), outcome[r] = "none", PassOver(r)
    PROVE  Promise!PassOver(r)
<1>1. Promise!Pending(r)
  BY DEF Promise!Pending
<1>2. at' = [at EXCEPT ![r] = at[r] + 1] /\ UNCHANGED outcome
  BY DEF PassOver
<1>3. made' = [made EXCEPT ![r] = 0]
  BY DEF made, PassOver, Goto, RequestsOK
<1> QED
  BY <1>1, <1>2, <1>3 DEF Promise!PassOver

\* A request that ends while its provider is asked, or after the last one.
LEMMA FinishKeepsMade ==
    ASSUME RequestsOK, NEW r \in Requests, stage[r] \in {"next", "call"}, outcome[r] = "none",
           NEW o \in {"answered", "failed", "escaped"}, Finish(r, o),
           o = "failed" <=> stage[r] = "next"
    PROVE  Promise!Pending(r) /\ Promise!End(r, o)
<1>1. made' = made
  BY DEF made, Finish, Goto, RequestsOK
<1> QED
  BY <1>1 DEF Finish, Promise!Pending, Promise!End

LEMMA StepImplements == IInv /\ [Next]_vars => [Promise!Next]_(Promise!vars)
<1> SUFFICES ASSUME RequestsOK, [Next]_vars PROVE Promise!Next \/ UNCHANGED Promise!vars
  BY DEF IInv, TypeOK, RequestsOK
<1>1. ASSUME NEW r \in Requests PROVE /\ stage[r] # "done" => outcome[r] = "none"
                                      /\ stage[r] \in {"call", "backoff"} => at[r] <= Len(Chain)
                                      /\ stage[r] \in {"new", "next"} => attempt[r] = 0
                                      /\ attempt[r] \in 0..Retries
                                      /\ at[r] \in 1..(Len(Chain) + 1)
  BY DEF RequestsOK, Consistent
<1>2. ASSUME NEW r \in Requests, Submit(r) PROVE UNCHANGED Promise!vars
  <2>1. made' = made
    BY <1>2 DEF made, Submit, Goto, RequestsOK
  <2> QED
    BY <1>2, <2>1 DEF Submit, Promise!vars
<1>3. ASSUME NEW r \in Requests, Take(r) PROVE Promise!Next
  <2>1. stage[r] = "next" /\ at[r] <= Len(Chain) /\ outcome[r] = "none" /\ attempt[r] = 0
    BY <1>1, <1>3 DEF Take
  <2>2. CASE PassOver(r)
    BY <2>1, <2>2, PassOverImplements DEF Promise!Next
  <2>3. CASE Goto(r, "call") /\ UNCHANGED <<at, attempt, outcome>>
    <3>1. made[r] = 0 /\ 0 < Retries + 1
      BY <2>1, MadeBy, GatewayAssumption
    <3>2. made' = [made EXCEPT ![r] = made[r] + 1]
      BY <2>1, <2>3, <3>1 DEF made, Goto, RequestsOK
    <3> QED
      BY <2>1, <2>3, <3>1, <3>2 DEF Promise!Next, Promise!Call, Promise!Pending
  <2> QED
    BY <1>3, <2>2, <2>3 DEF Take
<1>4. ASSUME NEW r \in Requests, Exhausted(r) PROVE Promise!Next
  <2>1. at[r] = Len(Chain) + 1 /\ outcome[r] = "none" /\ stage[r] = "next"
    BY <1>1, <1>4, ChainLength DEF Exhausted
  <2> QED
    BY <1>4, <2>1, FinishKeepsMade DEF Exhausted, Promise!Next, Promise!Fail
<1>5. ASSUME NEW r \in Requests, Answered(r) \/ NotJSON(r) PROVE Promise!Next
  <2>1. stage[r] = "call" /\ outcome[r] = "none"
    BY <1>1, <1>5 DEF Answered, NotJSON
  <2>2. made[r] > 0
    BY <1>1, <2>1, MadeBy, GatewayAssumption
  <2> QED
    BY <1>5, <2>1, <2>2, FinishKeepsMade
    DEF Answered, NotJSON, Promise!Next, Promise!Answer, Promise!Escape
<1>6. ASSUME NEW r \in Requests, Rejected(r) PROVE Promise!Next
  BY <1>1, <1>6, PassOverImplements DEF Rejected, Promise!Next
<1>7. ASSUME NEW r \in Requests, Failed(r) PROVE Promise!Next \/ UNCHANGED Promise!vars
  <2>1. CASE attempt[r] < Retries
    <3>1. made' = made
      BY <1>7, <2>1 DEF made, Failed, Goto, RequestsOK
    <3> QED
      BY <1>7, <2>1, <3>1 DEF Failed, Promise!vars
  <2>2. CASE ~(attempt[r] < Retries)
    BY <1>1, <1>7, <2>2, PassOverImplements DEF Failed, Promise!Next
  <2> QED
    BY <2>1, <2>2
<1>8. ASSUME NEW r \in Requests, Retry(r) PROVE Promise!Next \/ UNCHANGED Promise!vars
  <2>1. stage[r] = "backoff" /\ outcome[r] = "none" /\ at[r] <= Len(Chain)
    BY <1>1, <1>8 DEF Retry
  <2>2. made[r] = attempt[r] + 1
    BY <2>1, MadeBy
  <2>3. UNCHANGED <<at, outcome>>
    BY <1>8 DEF Retry
  <2>4. CASE attempt[r] < Retries
    <3>1. made' = [made EXCEPT ![r] = made[r] + 1]
      BY <1>8, <2>1, <2>2, <2>4 DEF made, Retry, Goto, RequestsOK
    <3>2. made[r] < Retries + 1
      BY <1>1, <2>2, <2>4, GatewayAssumption
    <3> QED
      BY <2>1, <2>3, <3>1, <3>2 DEF Promise!Next, Promise!Call, Promise!Pending
  <2>5. CASE ~(attempt[r] < Retries)
    <3>1. made' = made
      BY <1>8, <2>1, <2>5 DEF made, Retry, Goto, RequestsOK
    <3> QED
      BY <2>3, <3>1 DEF Promise!vars
  <2> QED
    BY <2>4, <2>5
<1>9. ASSUME NEW p \in Providers, CooldownElapses(p) PROVE UNCHANGED Promise!vars
  BY <1>9 DEF CooldownElapses, Promise!vars, made
<1>10. CASE UNCHANGED vars
  BY <1>10 DEF vars, Promise!vars, made
<1> QED
  BY <1>2, <1>3, <1>4, <1>5, <1>6, <1>7, <1>8, <1>9, <1>10 DEF Next, Progress

\* For any chain and any traffic: providers are asked in the order of the chain, each at
\* most Retries + 1 times for a request, an answer comes from a provider that was asked,
\* and AllProvidersFailedError only after the last one.
THEOREM GatewayKeepsPromise == Spec => KeepsPromise
<1>1. IInv /\ [Next]_vars => [Promise!Next]_(Promise!vars)
  BY StepImplements
<1> QED
  BY <1>1, InitPromise, InitIInv, NextIInv, PTL DEF Spec, KeepsPromise, Promise!Spec
=============================================================================
