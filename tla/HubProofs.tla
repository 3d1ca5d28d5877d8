----------------------------- MODULE HubProofs -----------------------------
(***************************************************************************)
(* Who owns an address of the hub, in which order packets leave, and that  *)
(* lines are obeyed, for any number of addresses, connections and packets, *)
(* and whatever the clients write.                                         *)
(***************************************************************************)
EXTENDS Hub, SequenceTheorems, FiniteSetTheorems, TLAPS

Phase == {"none", "accepted", "poll", "receive", "leave", "gone"}

OwnerType ==
  /\ phase \in [Conn -> Phase]
  /\ reservations \in [Address -> Conn \cup {None}]
  /\ rxFifos \in [Address -> Conn \cup {None}]

(* A queue that packets of an address go to is that of the last connection *)
(* to it, which has been accepted and is not gone.                         *)
QueueOfOwner ==
  \A a \in Address : rxFifos[a] # None =>
    /\ rxFifos[a] = reservations[a]
    /\ phase[rxFifos[a]] \notin {"none", "gone"}

(* The last connection to an address is one to that address, and from      *)
(* accept to the end of its loop its queue is the one.                     *)
OwnerHasQueue ==
  \A a \in Address : reservations[a] # None =>
    /\ To[reservations[a]] = a
    /\ phase[reservations[a]] \in {"accepted", "poll", "receive"}
         => rxFifos[a] = reservations[a]

(* One connection at a time is being accepted: it is the last.             *)
AcceptedIsLast ==
  \A c \in Conn : phase[c] = "accepted" => reservations[To[c]] = c

Owned == OwnerType /\ QueueOfOwner /\ OwnerHasQueue /\ AcceptedIsLast

LEMMA InitOwned == Init => Owned
BY HubAssumption
   DEF Init, Owned, OwnerType, QueueOfOwner, OwnerHasQueue, AcceptedIsLast, Phase

(* The three steps that give an address to a connection or take it away,   *)
(* and the steps of a session that only move it along.                     *)
LEMMA AcceptOwned ==
  ASSUME Owned, NEW c \in Conn, Accept(c)
  PROVE  Owned'
<1> USE HubAssumption DEF Owned
<1>1. OwnerType'
  BY DEF Accept, OwnerType, Phase
<1>2. QueueOfOwner'
  BY DEF Accept, OwnerType, Phase, QueueOfOwner
<1>3. OwnerHasQueue'
  BY DEF Accept, OwnerType, Phase, OwnerHasQueue
<1>4. AcceptedIsLast'
  BY DEF Accept, OwnerType, Phase, AcceptedIsLast
<1>5. QED
  BY <1>1, <1>2, <1>3, <1>4

LEMMA NoThreadOwned ==
  ASSUME Owned, NEW c \in Conn, NoThread(c)
  PROVE  Owned'
<1> USE HubAssumption DEF Owned
<1>1. OwnerType'
  BY DEF NoThread, OwnerType, Phase
<1>2. QueueOfOwner'
  BY DEF NoThread, OwnerType, Phase, QueueOfOwner, OwnerHasQueue, AcceptedIsLast
<1>3. OwnerHasQueue'
  BY DEF NoThread, OwnerType, Phase, OwnerHasQueue, AcceptedIsLast
<1>4. AcceptedIsLast'
  BY DEF NoThread, OwnerType, Phase, AcceptedIsLast
<1>5. QED
  BY <1>1, <1>2, <1>3, <1>4

LEMMA LeaveOwned ==
  ASSUME Owned, NEW c \in Conn, Leave(c)
  PROVE  Owned'
<1> USE HubAssumption DEF Owned
<1>1. OwnerType'
  BY DEF Leave, AfterLeaving, OwnerType, Phase
<1>2. QueueOfOwner'
  BY DEF Leave, AfterLeaving, OwnerType, Phase, QueueOfOwner, OwnerHasQueue
<1>3. OwnerHasQueue'
  BY DEF Leave, AfterLeaving, OwnerType, Phase, OwnerHasQueue
<1>4. AcceptedIsLast'
  BY DEF Leave, OwnerType, Phase, AcceptedIsLast
<1>5. QED
  BY <1>1, <1>2, <1>3, <1>4

Moves(c) ==
  /\ phase[c] \in {"accepted", "poll", "receive"}
  /\ \E p \in {"poll", "receive", "leave"} : phase' = [phase EXCEPT ![c] = p]
  /\ UNCHANGED <<reservations, rxFifos>>

LEMMA MovesOwned ==
  ASSUME Owned, NEW c \in Conn, Moves(c)
  PROVE  Owned'
<1> USE HubAssumption DEF Owned, Moves
<1>1. OwnerType'
  BY DEF OwnerType, Phase
<1>2. QueueOfOwner'
  BY DEF OwnerType, Phase, QueueOfOwner
<1>3. OwnerHasQueue'
  BY DEF OwnerType, Phase, OwnerHasQueue
<1>4. AcceptedIsLast'
  BY DEF OwnerType, Phase, AcceptedIsLast
<1>5. QED
  BY <1>1, <1>2, <1>3, <1>4

LEMMA SessionMoves ==
  ASSUME NEW c \in Conn,
         StartThread(c) \/ Poll(c) \/ Receive(c) \/ ReceiveNothing(c)
  PROVE  Moves(c)
<1>1. CASE StartThread(c)
  BY <1>1 DEF StartThread, Moves, server
<1>2. CASE Poll(c)
  BY <1>2 DEF Poll, Moves, server
<1>3. CASE Receive(c)
  BY <1>3 DEF Receive, Moves
<1>4. CASE ReceiveNothing(c)
  BY <1>4 DEF ReceiveNothing, AfterNothing, Moves, server
<1>5. QED
  BY <1>1, <1>2, <1>3, <1>4

LEMMA UnchangedOwned ==
  ASSUME Owned, UNCHANGED <<phase, reservations, rxFifos>>
  PROVE  Owned'
BY DEF Owned, OwnerType, QueueOfOwner, OwnerHasQueue, AcceptedIsLast

LEMMA NextOwned == Owned /\ [Next]_vars => Owned'
<1> SUFFICES ASSUME Owned, [Next]_vars PROVE Owned'
  OBVIOUS
<1>1. ASSUME NEW c \in Conn, Acceptor(c) PROVE Owned'
  BY <1>1, AcceptOwned, NoThreadOwned, SessionMoves, MovesOwned DEF Acceptor
<1>2. ASSUME NEW c \in Conn, Client(c) PROVE Owned'
  BY <1>2, UnchangedOwned DEF Client, Write, HangUp, session, server
<1>3. ASSUME NEW c \in Conn, Session(c) PROVE Owned'
  BY <1>3, SessionMoves, MovesOwned, LeaveOwned DEF Session
<1>4. CASE FromBridge
  BY <1>4, UnchangedOwned DEF FromBridge, session, server
<1>5. CASE AddPacket
  BY <1>5, UnchangedOwned DEF AddPacket, server
<1>6. CASE GetPacket
  BY <1>6, UnchangedOwned DEF GetPacket, session
<1>7. CASE Stop
  BY <1>7, UnchangedOwned DEF Stop, session, server
<1>8. CASE UNCHANGED vars
  BY <1>8, UnchangedOwned DEF vars, session, server
<1>9. QED
  BY <1>1, <1>2, <1>3, <1>4, <1>5, <1>6, <1>7, <1>8 DEF Next

THEOREM OwnedAlways == Spec => []Owned
<1>1. QED
  BY InitOwned, NextOwned, PTL DEF Spec

(* The bridge thread never adds a packet to a queue that has been freed:   *)
(* the pointers of rx_fifos are those of sessions that are there.          *)
THEOREM NoFreedQueue == Spec => []QueueOfALiveSession
<1>1. Owned => QueueOfALiveSession
  BY DEF Owned, QueueOfOwner, QueueOfALiveSession
<1>2. QED
  BY <1>1, OwnedAlways, PTL

(* A session on its way out, or one whose thread could not be created,     *)
(* never takes the address from a connection made after it.                *)
THEOREM OwnerKept == Spec => []OwnerKeepsAddress
<1>1. Owned => OwnerKeepsAddress
  BY DEF Owned, OwnerHasQueue, OwnerKeepsAddress
<1>2. QED
  BY <1>1, OwnedAlways, PTL

-----------------------------------------------------------------------------
(* What the clients have written and what the sessions make of it.  Only a *)
(* line that is whole has a packet queued, and only if there is room.      *)
Char == [line : Line, part : 0 .. 3]

LineType ==
  /\ input \in [Conn -> Seq(Char)] /\ readbuf \in [Conn -> Seq(Char)]
  /\ dstPort \in [Conn -> Nat \cup {-1}]
  /\ written \in [Conn -> Nat]
  /\ \A c \in Conn : written[c] <= Len(Script[c])

(* The packets of an address, those that have left and those that wait.    *)
Queued == [from : Conn, line : Nat]
All(a) == sent[a] \o txFifo[a]
Made == { c \in Conn : uniq[c] > 0 }

QueueType ==
  /\ sent \in [Address -> Seq(Queued)] /\ txFifo \in [Address -> Seq(Queued)]
  /\ DOMAIN done = Conn
  /\ \A c \in Conn : \E S : done[c] \in Seq(S)

(* Connections are numbered in the order in which they were accepted: the  *)
(* owner of an address has the highest number of its connections.          *)
Numbered ==
  /\ uniq \in [Conn -> Nat]
  /\ IsFiniteSet(Made)
  /\ \A c \in Conn : uniq[c] <= Cardinality(Made)
  /\ \A c \in Conn : phase[c] = "none" <=> uniq[c] = 0
  /\ \A c, d \in Made : uniq[c] = uniq[d] => c = d
  /\ \A c \in Made : /\ reservations[To[c]] \in Made
                     /\ uniq[c] <= uniq[reservations[To[c]]]

(* A packet is from a connection to its address and a line it has obeyed.  *)
FromObeyed ==
  \A a \in Address : \A i \in 1 .. Len(All(a)) :
    /\ All(a)[i].from \in Made /\ To[All(a)[i].from] = a
    /\ All(a)[i].line <= Len(done[All(a)[i].from])

InOrder ==
  \A a \in Address : \A i, j \in 1 .. Len(All(a)) :
    i < j => Before(All(a)[i], All(a)[j])

Ordered == Owned /\ LineType /\ QueueType /\ Numbered /\ FromObeyed /\ InOrder

LEMMA AllType ==
  ASSUME QueueType, NEW a \in Address
  PROVE  All(a) \in Seq(Queued) /\ Len(All(a)) \in Nat
BY ConcatProperties, LenProperties DEF QueueType, All

LEMMA DoneLength ==
  ASSUME QueueType, NEW c \in Conn
  PROVE  Len(done[c]) \in Nat
BY LenProperties DEF QueueType

-----------------------------------------------------------------------------
LEMMA TextType ==
  ASSUME NEW l \in Line
  PROVE  Text(l) \in Seq(Char) /\ Len(Text(l)) = 3
<1>1. Text(l) = << [line |-> l, part |-> 1], [line |-> l, part |-> 2], [line |-> l, part |-> 3] >>
  BY SMT DEF Text
<1>2. \A k \in 1 .. 3 : [line |-> l, part |-> k] \in Char
  BY SMT DEF Char
<1> QED
  BY <1>1, <1>2, SMT

LEMMA SubType ==
  ASSUME NEW S, NEW s \in Seq(S), NEW m \in 1 .. Len(s) + 1, NEW n \in 0 .. Len(s)
  PROVE  SubSeq(s, m, n) \in Seq(S)
<1>1. m \in Int /\ n \in Int /\ \A i \in m .. n : i \in 1 .. Len(s)
  BY LenProperties, SMT
<1> QED
  BY <1>1, ElementOfSeq, SubSeqProperties

LEMMA ReadingType ==
  ASSUME NEW c \in Conn, NEW t \in Seq(Char), NEW r \in Readings(c, t), r.how = "obeyed"
  PROVE  /\ r.line.cmd = "port" => r.line.arg \in Nat
         /\ r.line.cmd = "send" =>
              Intact(t) /\ r.line = t[1].line /\ ~ Refused(c, t[1].line)
<1>1. CASE Intact(t)
  <2>1. r.line = t[1].line /\ ~ Refused(c, t[1].line)
    BY <1>1 DEF Readings
  <2>2. PICK i \in DOMAIN t : t = SubSeq(Text(t[i].line), 1, 2)
    BY <1>1 DEF Intact
  <2>3. t[i] \in Char
    BY <2>2, LenProperties, ElementOfSeq
  <2>4. Text(t[i].line) \in Seq(Char) /\ Len(Text(t[i].line)) = 3
    BY <2>3, TextType DEF Char
  <2>5. \A j \in 1 .. 2 : Text(t[i].line)[j] \in Char
    BY <2>4, ElementOfSeq, SMT
  <2>6. Len(t) = 2
    BY <2>2, <2>5, SubSeqProperties, SMT
  <2>7. t[1] \in Char
    BY <2>6, ElementOfSeq, SMT
  <2> QED
    BY <1>1, <2>1, <2>7 DEF Char, Line
<1>2. CASE ~ Intact(t)
  <2>1. r \in Misread(t)
    BY <1>2 DEF Readings
  <2>2. PICK p \in Port : /\ r.line = [t[1].line EXCEPT !.arg = p]
                          /\ Len(t) > 2 /\ t[1].line.cmd = "port"
    BY <2>1 DEF Misread
  <2>3. t[1] \in Char
    BY <2>2, LenProperties, ElementOfSeq, SMT
  <2>4. r.line.cmd = "port" /\ r.line.arg = p
    BY <2>2, <2>3 DEF Char, Line
  <2> QED
    BY <2>2, <2>4, HubAssumption DEF HubAssumption
<1> QED
  BY <1>1, <1>2

(* What a session reads: the line it looks at, and what it keeps of it.    *)
LEMMA ReceiveType ==
  ASSUME LineType, NEW c \in Conn, Receive(c)
  PROVE  /\ input' \in [Conn -> Seq(Char)] /\ readbuf' \in [Conn -> Seq(Char)]
         /\ \/ UNCHANGED <<dstPort, done, txFifo>>
            \/ \E t \in Seq(Char) :
                 ~ GivesUp(c, t) /\ \E r \in Readings(c, t) : Obey(c, r)
<1>1. PICK k \in 1 .. Len(input[c]) :
        LET old == Len(readbuf[c])
            buf == readbuf[c] \o SubSeq(input[c], 1, k)
        IN /\ input' = [input EXCEPT ![c] = SubSeq(@, k + 1, Len(@))]
           /\ \/ /\ readbuf' = [readbuf EXCEPT ![c] = buf]
                 /\ UNCHANGED <<dstPort, done, txFifo>>
              \/ \E i \in Newline(buf, old) :
                   LET t == SubSeq(buf, 1, i - 1)
                   IN \/ UNCHANGED <<readbuf, dstPort, done, txFifo>>
                      \/ /\ ~ GivesUp(c, t)
                         /\ \E r \in Readings(c, t) : Obey(c, r)
                         /\ readbuf' = [readbuf EXCEPT ![c] = Rest(buf, i)]
  BY DEF Receive
<1> DEFINE old == Len(readbuf[c])
           buf == readbuf[c] \o SubSeq(input[c], 1, k)
<1>2. /\ readbuf[c] \in Seq(Char) /\ input[c] \in Seq(Char)
      /\ Len(input[c]) \in Nat /\ old \in Nat
  BY LenProperties DEF LineType
<1>3. buf \in Seq(Char)
  <2>1. SubSeq(input[c], 1, k) \in Seq(Char)
    BY <1>2, SubType, SMT
  <2> QED
    BY <1>2, <2>1, ConcatProperties
<1>4. input' \in [Conn -> Seq(Char)]
  <2>1. SubSeq(input[c], k + 1, Len(input[c])) \in Seq(Char)
    BY <1>2, SubType, SMT
  <2> QED
    BY <1>1, <2>1 DEF LineType
<1>5. ASSUME NEW i \in Newline(buf, old)
      PROVE  SubSeq(buf, 1, i - 1) \in Seq(Char) /\ Rest(buf, i) \in Seq(Char)
  <2> HIDE DEF buf, old
  <2>1. Len(buf) \in Nat /\ i \in 1 .. Len(buf)
    BY <1>2, <1>3, LenProperties, SMT DEF Newline
  <2>2. SubSeq(buf, 1, i - 1) \in Seq(Char)
    BY <1>3, <2>1, SubType, SMT
  <2>3. SubSeq(buf, i + 1, Len(buf)) \in Seq(Char)
    BY <1>3, <2>1, SubType, SMT
  <2>4. [buf[1] EXCEPT !.part = 0] \in Char
    <3>1. buf[1] \in Char
      BY <1>3, <2>1, ElementOfSeq, SMT
    <3> QED
      BY <3>1, SMT DEF Char
  <2>5. << [buf[1] EXCEPT !.part = 0] >> \in Seq(Char)
    BY <2>4, SMT
  <2>6. <<>> \in Seq(Char)
    BY EmptySeq
  <2> QED
    BY <2>2, <2>3, <2>5, <2>6, ConcatProperties DEF Rest
<1> HIDE DEF buf, old
<1>6. CASE readbuf' = [readbuf EXCEPT ![c] = buf] /\ UNCHANGED <<dstPort, done, txFifo>>
  BY <1>3, <1>4, <1>6 DEF LineType
<1>7. CASE \E i \in Newline(buf, old) : UNCHANGED <<readbuf, dstPort, done, txFifo>>
  BY <1>4, <1>7 DEF LineType
<1>8. ASSUME NEW i \in Newline(buf, old),
             ~ GivesUp(c, SubSeq(buf, 1, i - 1)),
             NEW r \in Readings(c, SubSeq(buf, 1, i - 1)), Obey(c, r),
             readbuf' = [readbuf EXCEPT ![c] = Rest(buf, i)]
      PROVE  /\ readbuf' \in [Conn -> Seq(Char)]
             /\ \E t \in Seq(Char) :
                  ~ GivesUp(c, t) /\ \E s \in Readings(c, t) : Obey(c, s)
  BY <1>5, <1>8 DEF LineType
<1> QED
  BY <1>1, <1>4, <1>6, <1>7, <1>8 DEF buf, old

LEMMA InitOrdered == Init => Ordered
<1> SUFFICES ASSUME Init PROVE Ordered
  OBVIOUS
<1>1. Made = {}
  BY SMT DEF Init, Made
<1>2. \A S : <<>> \in Seq(S)
  BY EmptySeq
<1>3. QueueType
  BY <1>2 DEF Init, QueueType
<1>4. Numbered
  BY <1>1, FS_EmptySet, SMT DEF Init, Numbered
<1>5. \A a \in Address : All(a) = <<>> /\ Len(All(a)) = 0
  BY <1>2, ConcatEmptySeq, EmptySeq DEF Init, All
<1>6. FromObeyed /\ InOrder
  BY <1>5, SMT DEF FromObeyed, InOrder
<1>7. LineType
  <2>1. \A c \in Conn : Len(Script[c]) \in Nat
    BY HubAssumption, LenProperties DEF HubAssumption
  <2> QED
    BY <1>2, <2>1, SMT DEF Init, LineType
<1> QED
  BY <1>3, <1>4, <1>6, <1>7, InitOwned DEF Ordered

(* Steps that neither number a connection nor queue a packet.              *)
Bystander ==
  /\ \A c \in Conn : phase'[c] = "none" <=> phase[c] = "none"
  /\ UNCHANGED <<uniq, reservations, done>>
  /\ QueueType'
  /\ \A a \in Address : All(a)' = All(a)

LEMMA BystanderOrdered ==
  ASSUME Ordered, Owned', LineType', Bystander
  PROVE  Ordered'
<1>1. Made' = Made
  BY DEF Bystander, Made
<1>2. Numbered'
  BY <1>1 DEF Ordered, Numbered, Bystander
<1>3. FromObeyed'
  BY <1>1 DEF Ordered, FromObeyed, Bystander
<1>4. InOrder'
  BY DEF Ordered, InOrder, Before, Bystander
<1> QED
  BY <1>2, <1>3, <1>4 DEF Ordered, Bystander

LEMMA UnchangedBystander ==
  ASSUME Ordered, UNCHANGED <<uniq, reservations, done, sent, txFifo>>,
         \A c \in Conn : phase'[c] = "none" <=> phase[c] = "none"
  PROVE  Bystander
BY DEF Ordered, Bystander, QueueType, All

(* A connection that is accepted gets the next number.                     *)
LEMMA AcceptOrdered ==
  ASSUME Ordered, NEW c \in Conn, Accept(c)
  PROVE  Ordered'
<1> DEFINE n == Cardinality(Made)
<1>1. /\ phase[c] = "none" /\ phase' = [phase EXCEPT ![c] = "accepted"]
      /\ uniq' = [uniq EXCEPT ![c] = n + 1]
      /\ reservations' = [reservations EXCEPT ![To[c]] = c]
      /\ UNCHANGED <<done, sent, txFifo>>
  BY DEF Accept, Made, usb
<1>2. /\ IsFiniteSet(Made) /\ n \in Nat /\ c \notin Made /\ uniq[c] = 0
      /\ uniq \in [Conn -> Nat] /\ \A d \in Conn : uniq[d] <= n
  BY <1>1, FS_CardinalityType DEF Ordered, Numbered, Made
<1> HIDE DEF n
<1>3. Made' = Made \cup {c}
  BY <1>1, <1>2, SMT DEF Made
<1>4. IsFiniteSet(Made') /\ Cardinality(Made') = n + 1
  BY <1>2, <1>3, FS_AddElement DEF n
<1>5. /\ uniq' \in [Conn -> Nat] /\ uniq'[c] = n + 1
      /\ \A d \in Conn : d # c => uniq'[d] = uniq[d]
      /\ \A d \in Conn : uniq'[d] <= n + 1
  BY <1>1, <1>2, SMT
<1>6. \A d \in Conn : phase'[d] = "none" <=> uniq'[d] = 0
  BY <1>1, <1>2, <1>5, SMT DEF Ordered, Numbered, Owned, OwnerType
<1>7. \A d, e \in Made' : uniq'[d] = uniq'[e] => d = e
  <2> SUFFICES ASSUME NEW d \in Made', NEW e \in Made', uniq'[d] = uniq'[e], d # e
               PROVE  FALSE
    OBVIOUS
  <2>1. CASE d # c /\ e # c
    BY <1>3, <1>5, <2>1 DEF Ordered, Numbered, Made
  <2>2. CASE d = c
    <3>1. e \in Conn /\ e # c /\ uniq'[e] = uniq[e] /\ uniq[e] <= n /\ uniq[e] \in Nat
      BY <1>2, <1>3, <1>5, <2>2 DEF Made
    <3> QED
      BY <1>2, <1>5, <2>2, <3>1, SMT
  <2>3. CASE e = c
    <3>1. d \in Conn /\ d # c /\ uniq'[d] = uniq[d] /\ uniq[d] <= n /\ uniq[d] \in Nat
      BY <1>2, <1>3, <1>5, <2>3 DEF Made
    <3> QED
      BY <1>2, <1>5, <2>3, <3>1, SMT
  <2> QED
    BY <2>1, <2>2, <2>3
<1>8. ASSUME NEW d \in Made'
      PROVE  reservations'[To[d]] \in Made' /\ uniq'[d] <= uniq'[reservations'[To[d]]]
  <2>1. d \in Conn /\ To[d] \in Address /\ To[c] \in Address
    BY HubAssumption DEF Made, HubAssumption
  <2>2. CASE To[d] = To[c]
    <3>1. reservations'[To[d]] = c
      BY <1>1, <2>1, <2>2 DEF Ordered, Owned, OwnerType
    <3> QED
      BY <1>3, <1>5, <2>1, <3>1
  <2>3. CASE To[d] # To[c]
    <3>1. d \in Made /\ d # c /\ reservations'[To[d]] = reservations[To[d]]
      BY <1>1, <1>3, <2>1, <2>3 DEF Ordered, Owned, OwnerType
    <3>2. /\ reservations[To[d]] \in Made /\ uniq[d] <= uniq[reservations[To[d]]]
      BY <3>1 DEF Ordered, Numbered
    <3>3. reservations[To[d]] # c /\ reservations[To[d]] \in Conn
      BY <1>2, <3>2 DEF Made
    <3> QED
      BY <1>3, <1>5, <2>1, <3>1, <3>2, <3>3
  <2> QED
    BY <2>2, <2>3
<1>9. Numbered'
  BY <1>4, <1>5, <1>6, <1>7, <1>8 DEF Numbered
<1>10. QueueType' /\ \A a \in Address : All(a)' = All(a)
  BY <1>1 DEF Ordered, QueueType, All
<1>11. \A a \in Address : \A i \in 1 .. Len(All(a)) :
         All(a)[i].from \in Conn /\ All(a)[i].from # c
  BY <1>2 DEF Ordered, FromObeyed, Made
<1>12. FromObeyed'
  BY <1>1, <1>3, <1>10 DEF Ordered, FromObeyed
<1>13. InOrder'
  BY <1>5, <1>10, <1>11 DEF Ordered, InOrder, Before
<1>14. LineType'
  BY DEF Accept, client, Ordered, LineType
<1> QED
  BY <1>9, <1>10, <1>12, <1>13, <1>14, AcceptOwned DEF Ordered

(* A packet that is queued is the last of its owner's, and the owner the   *)
(* last of the connections to the address.                                 *)
LEMMA AppendBehind ==
  ASSUME NEW S, NEW s \in Seq(S), NEW q \in Seq(S), NEW p \in S
  PROVE  /\ Append(q, p) \in Seq(S) /\ Len(Append(q, p)) = Len(q) + 1
         /\ Len(s \o Append(q, p)) = Len(s \o q) + 1
         /\ (s \o Append(q, p))[Len(s \o q) + 1] = p
         /\ \A i \in 1 .. Len(s \o q) : (s \o Append(q, p))[i] = (s \o q)[i]
<1> DEFINE t == Append(q, p)
           all == s \o q
           more == s \o t
<1>1. Len(q) \in Nat /\ Len(s) \in Nat
  BY LenProperties
<1>2. /\ t \in Seq(S) /\ Len(t) = Len(q) + 1 /\ t[Len(q) + 1] = p
      /\ \A i \in 1 .. Len(q) : t[i] = q[i]
  BY SMT
<1> HIDE DEF t
<1>3. /\ Len(all) = Len(s) + Len(q)
      /\ \A i \in 1 .. Len(s) + Len(q) :
           all[i] = IF i <= Len(s) THEN s[i] ELSE q[i - Len(s)]
  BY ConcatProperties
<1>4. /\ Len(more) = Len(s) + Len(t)
      /\ \A i \in 1 .. Len(s) + Len(t) :
           more[i] = IF i <= Len(s) THEN s[i] ELSE t[i - Len(s)]
  BY <1>2, ConcatProperties
<1> HIDE DEF all, more
<1>5. Len(more) = Len(all) + 1
  BY <1>1, <1>2, <1>3, <1>4, SMT
<1>6. more[Len(all) + 1] = p
  <2>1. /\ Len(all) + 1 \in 1 .. Len(s) + Len(t) /\ ~ (Len(all) + 1 <= Len(s))
        /\ (Len(all) + 1) - Len(s) = Len(q) + 1
    BY <1>1, <1>2, <1>3, SMT
  <2> QED
    BY <1>2, <1>4, <2>1
<1>7. ASSUME NEW i \in 1 .. Len(all)
      PROVE  more[i] = all[i]
  <2>1. i \in 1 .. Len(s) + Len(t) /\ i \in 1 .. Len(s) + Len(q)
    BY <1>1, <1>2, <1>3, SMT
  <2>2. CASE i <= Len(s)
    BY <1>3, <1>4, <2>1, <2>2
  <2>3. CASE ~ (i <= Len(s))
    <3>1. i - Len(s) \in 1 .. Len(q)
      BY <1>1, <2>1, <2>3, SMT
    <3> QED
      BY <1>2, <1>3, <1>4, <2>1, <2>3, <3>1
  <2> QED
    BY <2>2, <2>3
<1> QED
  BY <1>2, <1>5, <1>6, <1>7 DEF all, more, t

LEMMA AppendAll ==
  ASSUME QueueType, NEW a \in Address, NEW p \in Queued,
         sent' = sent, txFifo' = [txFifo EXCEPT ![a] = Append(@, p)]
  PROVE  /\ txFifo' \in [Address -> Seq(Queued)]
         /\ \A b \in Address : b # a => All(b)' = All(b)
         /\ Len(All(a)') = Len(All(a)) + 1
         /\ All(a)'[Len(All(a)) + 1] = p
         /\ \A i \in 1 .. Len(All(a)) : All(a)'[i] = All(a)[i]
<1>1. /\ txFifo[a] \in Seq(Queued) /\ sent[a] \in Seq(Queued)
      /\ txFifo'[a] = Append(txFifo[a], p) /\ sent'[a] = sent[a]
  BY DEF QueueType
<1>2. \A b \in Address : b # a => All(b)' = All(b)
  BY DEF QueueType, All
<1>3. All(a) = sent[a] \o txFifo[a] /\ All(a)' = sent[a] \o Append(txFifo[a], p)
  BY <1>1 DEF All
<1>4. Append(txFifo[a], p) \in Seq(Queued)
  BY <1>1, AppendBehind
<1> QED
  BY <1>1, <1>2, <1>3, <1>4, AppendBehind DEF QueueType

LEMMA ReceiveOrdered ==
  ASSUME Ordered, NEW c \in Conn, Receive(c)
  PROVE  Ordered'
<1> DEFINE a == To[c]
           n == Len(done[c])
<1>1. /\ a \in Address /\ n \in Nat /\ DOMAIN done = Conn
      /\ phase[c] = "receive" /\ uniq[c] \in Nat \ {0} /\ c \in Made
  BY DoneLength, HubAssumption, SMT
     DEF Ordered, QueueType, Numbered, Made, Receive, HubAssumption
<1>2. /\ \A d \in Conn : phase'[d] = "none" <=> phase[d] = "none"
      /\ UNCHANGED <<uniq, reservations, rxFifos, sent>>
  BY DEF Receive, Ordered, Owned, OwnerType, usb
<1>3. Owned'
  BY SessionMoves, MovesOwned DEF Ordered
<1>0. LineType /\ QueueType
  BY DEF Ordered
<1>4. CASE UNCHANGED <<dstPort, done, txFifo>>
  <2>1. LineType'
    BY <1>0, <1>4, ReceiveType DEF LineType, Receive
  <2> QED
    BY <1>2, <1>3, <1>4, <2>1, UnchangedBystander, BystanderOrdered
<1>5. CASE ~ UNCHANGED <<dstPort, done, txFifo>>
  <2>1. PICK t \in Seq(Char) : ~ GivesUp(c, t) /\ \E r \in Readings(c, t) : Obey(c, r)
    BY <1>0, <1>5, ReceiveType
  <2>10. PICK r \in Readings(c, t) : Obey(c, r)
    BY <2>1
  <2>11. LineType'
    <3>1. dstPort' \in [Conn -> Nat \cup {-1}]
      BY <1>0, <2>10, ReadingType DEF LineType, Obey
    <3> QED
      BY <1>0, <3>1, ReceiveType DEF LineType, Receive
  <2>2. DOMAIN done' = Conn /\ done'[c] = Append(done[c], r)
        /\ \A d \in Conn : d # c => done'[d] = done[d]
    BY <1>1, <2>10 DEF Obey
  <2>3. /\ \A d \in Conn : \E S : done'[d] \in Seq(S)
        /\ Len(done'[c]) = n + 1
    <3>1. PICK S : done[c] \in Seq(S)
      BY DEF Ordered, QueueType
    <3>2. done[c] \in Seq(S \cup {r})
      BY <3>1, SeqMonotonic
    <3>3. Append(done[c], r) \in Seq(S \cup {r}) /\ Len(Append(done[c], r)) = n + 1
      BY <3>2, SMT
    <3> QED
      BY <2>2, <3>3 DEF Ordered, QueueType
  <2>4. \A d \in Conn : Len(done'[d]) \in Nat /\ Len(done'[d]) >= Len(done[d])
    BY <1>1, <2>2, <2>3, DoneLength, SMT DEF Ordered
  <2>5. Made' = Made /\ Numbered'
    BY <1>2 DEF Ordered, Numbered, Made
  <2>6. CASE r.how = "obeyed" /\ r.line.cmd = "send"
    <3> DEFINE p == [from |-> c, line |-> n + 1]
    <3>1. p \in Queued /\ p.from = c /\ p.line = n + 1
      BY <1>1 DEF Queued
    <3>2. txFifo' = [txFifo EXCEPT ![a] = Append(@, p)]
      BY <1>1, <2>2, <2>3, <2>6, <2>10 DEF Obey
    <3> HIDE DEF p
    <3>3. QueueType
      BY DEF Ordered
    <3>4. /\ txFifo' \in [Address -> Seq(Queued)]
          /\ \A b \in Address : b # a => All(b)' = All(b)
          /\ Len(All(a)') = Len(All(a)) + 1
          /\ All(a)'[Len(All(a)) + 1] = p
          /\ \A i \in 1 .. Len(All(a)) : All(a)'[i] = All(a)[i]
      BY <1>1, <1>2, <3>1, <3>2, <3>3, AppendAll
    <3>5. QueueType'
      BY <1>2, <2>2, <2>3, <3>3, <3>4 DEF QueueType
    <3>6. reservations[a] = c
      <4>1. Intact(t) /\ ~ Refused(c, t[1].line) /\ r.line = t[1].line
        BY <2>6, ReadingType
      <4> QED
        BY <2>1, <2>6, <4>1 DEF GivesUp, Refused, Abandoned
    <3>7. Len(All(a)) \in Nat
      BY <1>1, <3>3, AllType
    <3>10. FromObeyed'
      <4> SUFFICES ASSUME NEW b \in Address, NEW i \in 1 .. Len(All(b)')
                   PROVE  /\ All(b)'[i].from \in Made' /\ To[All(b)'[i].from] = b
                          /\ All(b)'[i].line <= Len(done'[All(b)'[i].from])
        BY DEF FromObeyed
      <4>1. CASE b = a /\ i = Len(All(a)) + 1
        BY <1>1, <2>3, <2>5, <3>1, <3>4, <4>1, SMT
      <4>2. CASE ~ (b = a /\ i = Len(All(a)) + 1)
        <5>1. i \in 1 .. Len(All(b)) /\ All(b)'[i] = All(b)[i]
          BY <3>4, <3>7, <4>2, SMT
        <5>2. /\ All(b)[i].from \in Made /\ To[All(b)[i].from] = b
              /\ All(b)[i].line <= Len(done[All(b)[i].from])
          BY <5>1 DEF Ordered, FromObeyed
        <5>3. All(b)[i] \in Queued
          BY <3>3, <5>1, AllType, ElementOfSeq
        <5>4. /\ All(b)[i].from \in Conn /\ All(b)[i].line \in Nat
          BY <5>3 DEF Queued
        <5>5. Len(done[All(b)[i].from]) \in Nat
          BY <3>3, <5>4, DoneLength
        <5>6. All(b)[i].line <= Len(done'[All(b)[i].from])
          BY <2>4, <5>2, <5>4, <5>5, SMT
        <5> QED
          BY <2>5, <5>1, <5>2, <5>6
      <4> QED
        BY <4>1, <4>2
    <3>11. InOrder'
      <4> SUFFICES ASSUME NEW b \in Address,
                          NEW i \in 1 .. Len(All(b)'), NEW j \in 1 .. Len(All(b)'), i < j
                   PROVE  \/ uniq'[All(b)'[i].from] < uniq'[All(b)'[j].from]
                          \/ /\ All(b)'[i].from = All(b)'[j].from
                             /\ All(b)'[i].line < All(b)'[j].line
        BY DEF InOrder, Before
      <4>1. CASE b = a /\ j = Len(All(a)) + 1
        <5>1. /\ i \in 1 .. Len(All(a)) /\ All(b)'[i] = All(a)[i] /\ All(b)'[j] = p
          BY <3>4, <3>7, <4>1, SMT
        <5>2. /\ All(a)[i].from \in Made /\ To[All(a)[i].from] = a
              /\ All(a)[i].line <= Len(done[All(a)[i].from])
          BY <1>1, <5>1 DEF Ordered, FromObeyed
        <5>3. All(a)[i] \in Queued
          BY <1>1, <3>3, <5>1, AllType, ElementOfSeq
        <5>4. uniq[All(a)[i].from] <= uniq[c] /\ uniq[All(a)[i].from] \in Nat
          BY <3>6, <5>2 DEF Ordered, Numbered, Made
        <5>5. uniq[All(a)[i].from] = uniq[c] => All(a)[i].from = c
          BY <1>1, <5>2 DEF Ordered, Numbered
        <5>6. All(a)[i].from = c => All(a)[i].line < n + 1
          BY <1>1, <5>2, <5>3, SMT DEF Queued
        <5>7. uniq[All(a)[i].from] < uniq[c]
              \/ (All(a)[i].from = c /\ All(a)[i].line < n + 1)
          BY <1>1, <5>4, <5>5, <5>6, SMT
        <5> QED
          BY <1>2, <3>1, <5>1, <5>7
      <4>2. CASE ~ (b = a /\ j = Len(All(a)) + 1)
        <5>1. /\ i \in 1 .. Len(All(b)) /\ All(b)'[i] = All(b)[i]
              /\ j \in 1 .. Len(All(b)) /\ All(b)'[j] = All(b)[j]
          BY <3>4, <3>7, <4>2, SMT
        <5> QED
          BY <1>2, <5>1 DEF Ordered, InOrder, Before
      <4> QED
        BY <4>1, <4>2
    <3> QED
      BY <1>3, <2>11, <2>5, <3>5, <3>10, <3>11 DEF Ordered
  <2>7. CASE ~ (r.how = "obeyed" /\ r.line.cmd = "send")
    <3>1. txFifo' = txFifo
      BY <2>10, <2>7 DEF Obey, Ordered, QueueType
    <3>2. QueueType' /\ \A b \in Address : All(b)' = All(b)
      BY <1>2, <2>2, <2>3, <3>1 DEF Ordered, QueueType, All
    <3>3. FromObeyed'
      <4> SUFFICES ASSUME NEW b \in Address, NEW i \in 1 .. Len(All(b))
                   PROVE  /\ All(b)[i].from \in Made' /\ To[All(b)[i].from] = b
                          /\ All(b)[i].line <= Len(done'[All(b)[i].from])
        BY <3>2 DEF FromObeyed
      <4>1. /\ All(b)[i].from \in Made /\ To[All(b)[i].from] = b
            /\ All(b)[i].line <= Len(done[All(b)[i].from])
        BY DEF Ordered, FromObeyed
      <4>5. All(b)[i] \in Queued
        BY <1>0, AllType, ElementOfSeq
      <4>2. All(b)[i].from \in Conn /\ All(b)[i].line \in Nat
        BY <4>5 DEF Queued
      <4>3. Len(done[All(b)[i].from]) \in Nat
        BY <1>0, <4>2, DoneLength
      <4>4. All(b)[i].line <= Len(done'[All(b)[i].from])
        BY <2>4, <4>1, <4>2, <4>3, SMT
      <4> QED
        BY <2>5, <4>1, <4>4
    <3>4. InOrder'
      BY <1>2, <3>2 DEF Ordered, InOrder, Before
    <3> QED
      BY <1>3, <2>11, <2>5, <3>2, <3>3, <3>4 DEF Ordered
  <2> QED
    BY <2>6, <2>7
<1> QED
  BY <1>4, <1>5

(* A packet leaves: it goes to the end of those that have left.            *)
LEMMA MoveFirst ==
  ASSUME NEW S, NEW s \in Seq(S), NEW q \in Seq(S), q # <<>>
  PROVE  /\ Append(s, Head(q)) \in Seq(S) /\ Tail(q) \in Seq(S)
         /\ Append(s, Head(q)) \o Tail(q) = s \o q
<1> DEFINE t == Append(s, Head(q))
           u == Tail(q)
<1>1. Len(s) \in Nat /\ Len(q) \in Nat \ {0}
  BY LenProperties, EmptySeq
<1>2. /\ Head(q) = q[1] /\ Head(q) \in S /\ u \in Seq(S) /\ Len(u) = Len(q) - 1
      /\ \A i \in 1 .. Len(u) : u[i] = q[i + 1]
  BY HeadTailProperties, SMT
<1>3. /\ t \in Seq(S) /\ Len(t) = Len(s) + 1 /\ t[Len(s) + 1] = q[1]
      /\ \A i \in 1 .. Len(s) : t[i] = s[i]
  BY <1>2, SMT
<1> HIDE DEF t, u
<1>4. /\ s \o q \in Seq(S) /\ Len(s \o q) = Len(s) + Len(q)
      /\ \A i \in 1 .. Len(s) + Len(q) :
           (s \o q)[i] = IF i <= Len(s) THEN s[i] ELSE q[i - Len(s)]
  BY ConcatProperties
<1>5. /\ t \o u \in Seq(S) /\ Len(t \o u) = Len(t) + Len(u)
      /\ \A i \in 1 .. Len(t) + Len(u) :
           (t \o u)[i] = IF i <= Len(t) THEN t[i] ELSE u[i - Len(t)]
  BY <1>2, <1>3, ConcatProperties
<1>6. Len(t \o u) = Len(s \o q)
  BY <1>1, <1>2, <1>3, <1>4, <1>5, SMT
<1>7. ASSUME NEW i \in 1 .. Len(t \o u)
      PROVE  (t \o u)[i] = (s \o q)[i]
  <2>1. i \in 1 .. Len(t) + Len(u) /\ i \in 1 .. Len(s) + Len(q)
    BY <1>4, <1>5, <1>6
  <2>2. CASE i <= Len(s)
    <3>1. i <= Len(t) /\ i \in 1 .. Len(s)
      BY <1>1, <1>3, <2>1, <2>2, SMT
    <3> QED
      BY <1>3, <1>4, <1>5, <2>1, <2>2, <3>1
  <2>3. CASE i = Len(s) + 1
    <3>1. i <= Len(t) /\ ~ (i <= Len(s)) /\ i - Len(s) = 1
      BY <1>1, <1>3, <2>1, <2>3, SMT
    <3> QED
      BY <1>3, <1>4, <1>5, <2>1, <2>3, <3>1
  <2>4. CASE i > Len(s) + 1
    <3>1. /\ ~ (i <= Len(t)) /\ ~ (i <= Len(s)) /\ i - Len(t) \in 1 .. Len(u)
          /\ (i - Len(t)) + 1 = i - Len(s)
      BY <1>1, <1>2, <1>3, <2>1, <2>4, SMT
    <3> QED
      BY <1>2, <1>4, <1>5, <2>1, <3>1
  <2> QED
    BY <1>1, <2>1, <2>2, <2>3, <2>4, SMT
<1>8. t \o u = s \o q
  BY <1>4, <1>5, <1>6, <1>7, SeqEqual
<1> QED
  BY <1>2, <1>3, <1>8 DEF t, u

LEMMA GetPacketOrdered ==
  ASSUME Ordered, GetPacket
  PROVE  Ordered'
<1>1. PICK a \in Address :
        /\ txFifo[a] # <<>>
        /\ sent' = [sent EXCEPT ![a] = Append(@, Head(txFifo[a]))]
        /\ txFifo' = [txFifo EXCEPT ![a] = Tail(@)]
  BY DEF GetPacket
<1>2. UNCHANGED <<phase, done, dstPort, input, readbuf, written, reservations, rxFifos, uniq>>
  BY DEF GetPacket, session, client
<1>3. sent[a] \in Seq(Queued) /\ txFifo[a] \in Seq(Queued)
  BY DEF Ordered, QueueType
<1>4. /\ Append(sent[a], Head(txFifo[a])) \in Seq(Queued) /\ Tail(txFifo[a]) \in Seq(Queued)
      /\ Append(sent[a], Head(txFifo[a])) \o Tail(txFifo[a]) = sent[a] \o txFifo[a]
  BY <1>1, <1>3, MoveFirst
<1>5. QueueType'
  BY <1>1, <1>2, <1>4 DEF Ordered, QueueType
<1>6. \A b \in Address : All(b)' = All(b)
  BY <1>1, <1>4 DEF Ordered, QueueType, All
<1>7. Bystander
  BY <1>2, <1>5, <1>6 DEF Bystander
<1>8. Owned' /\ LineType'
  BY <1>2, UnchangedOwned DEF Ordered, LineType
<1> QED
  BY <1>7, <1>8, BystanderOrdered

LEMMA WriteOrdered ==
  ASSUME Ordered, NEW c \in Conn, Write(c)
  PROVE  Ordered'
<1>1. /\ UNCHANGED <<phase, readbuf, dstPort, done, reservations, rxFifos, txFifo, uniq, sent>>
      /\ written' = [written EXCEPT ![c] = @ + 1] /\ written[c] < Len(Script[c])
      /\ input' = [input EXCEPT ![c] = @ \o Text(Script[c][written'[c]])]
  BY DEF Write, session, server, usb
<1>2. Script[c] \in Seq(Line) /\ Len(Script[c]) \in Nat /\ written[c] \in Nat
  BY HubAssumption, LenProperties DEF HubAssumption, Ordered, LineType
<1>3. written'[c] = written[c] + 1 /\ written'[c] \in 1 .. Len(Script[c])
  BY <1>1, <1>2, SMT DEF Ordered, LineType
<1>4. Text(Script[c][written'[c]]) \in Seq(Char)
  BY <1>2, <1>3, ElementOfSeq, TextType
<1>5. input' \in [Conn -> Seq(Char)]
  BY <1>1, <1>4, ConcatProperties DEF Ordered, LineType
<1>6. LineType'
  BY <1>1, <1>2, <1>3, <1>5, SMT DEF Ordered, LineType
<1>7. Owned' /\ Bystander
  BY <1>1, UnchangedOwned, UnchangedBystander DEF Ordered
<1> QED
  BY <1>6, <1>7, BystanderOrdered

(* All other steps.                                                        *)
Apart ==
  /\ \A c \in Conn : phase'[c] = "none" <=> phase[c] = "none"
  /\ UNCHANGED <<uniq, reservations, done, sent, txFifo, input, readbuf, dstPort, written>>

LEMMA ApartOrdered ==
  ASSUME Ordered, Owned', Apart
  PROVE  Ordered'
<1>1. LineType'
  BY DEF Ordered, LineType, Apart
<1> QED
  BY <1>1, UnchangedBystander, BystanderOrdered DEF Apart

LEMMA NextOrdered == Ordered /\ [Next]_vars => Ordered'
<1> SUFFICES ASSUME Ordered, [Next]_vars PROVE Ordered'
  OBVIOUS
<1> USE DEF session, client, server, usb
<1>1. Owned' /\ phase \in [Conn -> Phase]
  BY NextOwned DEF Ordered, Owned, OwnerType
<1>2. ASSUME NEW c \in Conn, StartThread(c) \/ NoThread(c) PROVE Apart
  BY <1>1, <1>2 DEF StartThread, NoThread, Apart
<1>3. ASSUME NEW c \in Conn, HangUp(c) PROVE Apart
  BY <1>3 DEF HangUp, Apart
<1>4. ASSUME NEW c \in Conn, Poll(c) \/ ReceiveNothing(c) \/ Leave(c) PROVE Apart
  BY <1>1, <1>4 DEF Poll, ReceiveNothing, AfterNothing, Leave, Apart
<1>5. CASE FromBridge \/ AddPacket \/ Stop \/ UNCHANGED vars
  <2>1. Apart
    BY <1>5 DEF FromBridge, AddPacket, Stop, vars, Apart
  <2> QED
    BY <1>1, <2>1, ApartOrdered
<1> QED
  BY <1>1, <1>2, <1>3, <1>4, <1>5, AcceptOrdered, WriteOrdered, ReceiveOrdered,
     GetPacketOrdered, ApartOrdered DEF Next, Acceptor, Client, Session

LEMMA OrderedAlways == Spec => []Ordered
BY InitOrdered, NextOrdered, PTL DEF Spec

(* Packets for an address leave in the order in which its clients wrote    *)
(* them, each once, and none of an older connection after the first of a   *)
(* newer one.                                                              *)
THEOREM TakeOver == Spec => []TakeOverIsFinal
<1>1. Ordered => TakeOverIsFinal
  <2> SUFFICES ASSUME Ordered PROVE TakeOverIsFinal
    OBVIOUS
  <2>1. \A a \in Address : DOMAIN All(a) = 1 .. Len(All(a))
    BY AllType, LenProperties DEF Ordered
  <2> QED
    BY <2>1 DEF Ordered, InOrder, TakeOverIsFinal, All
<1> QED
  BY <1>1, OrderedAlways, PTL

-----------------------------------------------------------------------------
(* The queues.                                                             *)
Bounded ==
  /\ rxFifo \in [Conn -> Seq(Address)] /\ ring \in Seq(Address)
  /\ \A c \in Conn : Len(rxFifo[c]) < QueueLen
  /\ \A a \in Address : Len(txFifo[a]) < QueueLen
  /\ Len(ring) < QueueLen
  /\ came \in 0 .. MaxPackets /\ stopFlag \in BOOLEAN

LEMMA AppendRoom ==
  ASSUME NEW S, NEW q \in Seq(S), NEW p \in S, Room(q)
  PROVE  Append(q, p) \in Seq(S) /\ Len(Append(q, p)) < QueueLen
<1>1. Len(q) \in Nat /\ QueueLen \in Nat /\ Len(Append(q, p)) = Len(q) + 1
  BY HubAssumption, LenProperties, AppendBehind DEF HubAssumption
<1> QED
  BY <1>1, AppendBehind, SMT DEF Room

LEMMA TailRoom ==
  ASSUME NEW S, NEW q \in Seq(S), q # <<>>, Len(q) < QueueLen
  PROVE  Head(q) \in S /\ Tail(q) \in Seq(S) /\ Len(Tail(q)) < QueueLen
<1>1. Len(q) \in Nat /\ QueueLen \in Nat /\ Len(Tail(q)) = Len(q) - 1
  BY HubAssumption, LenProperties, HeadTailProperties DEF HubAssumption
<1> QED
  BY <1>1, HeadTailProperties, SMT

LEMMA InitBounded == Init => Bounded
<1>1. \A S : <<>> \in Seq(S) /\ Len(<<>>) = 0
  BY EmptySeq
<1>2. 0 < QueueLen /\ 0 \in 0 .. MaxPackets
  BY HubAssumption, SMT DEF HubAssumption
<1> QED
  BY <1>1, <1>2 DEF Init, Bounded

LEMMA PollBounded ==
  ASSUME Bounded, NEW c \in Conn, Poll(c)
  PROVE  Bounded'
<1>1. UNCHANGED <<txFifo, ring, came, stopFlag>>
  BY DEF Poll, server, usb
<1>2. rxFifo' = rxFifo \/ rxFifo' = [rxFifo EXCEPT ![c] = Taken(@)]
  BY DEF Poll
<1>3. Taken(rxFifo[c]) \in Seq(Address) /\ Len(Taken(rxFifo[c])) < QueueLen
  BY TailRoom DEF Bounded, Taken
<1> QED
  BY <1>1, <1>2, <1>3 DEF Bounded

LEMMA LeaveBounded ==
  ASSUME Bounded, NEW c \in Conn, Leave(c)
  PROVE  Bounded'
<1>1. /\ UNCHANGED <<txFifo, ring, came, stopFlag>>
      /\ rxFifo' = [rxFifo EXCEPT ![c] = <<>>]
  BY DEF Leave, usb
<1>2. <<>> \in Seq(Address) /\ Len(<<>>) < QueueLen
  BY EmptySeq, HubAssumption, SMT DEF HubAssumption
<1> QED
  BY <1>1, <1>2 DEF Bounded

LEMMA ReceiveBounded ==
  ASSUME Ordered, Bounded, NEW c \in Conn, Receive(c)
  PROVE  Bounded'
<1>1. UNCHANGED <<rxFifo, ring, came, stopFlag>>
  BY DEF Receive, usb
<1>2. CASE UNCHANGED txFifo
  BY <1>1, <1>2 DEF Bounded
<1>3. CASE ~ UNCHANGED txFifo
  <2>1. PICK t \in Seq(Char) : \E r \in Readings(c, t) : Obey(c, r)
    BY <1>3, ReceiveType DEF Ordered
  <2>2. PICK r \in Readings(c, t) : Obey(c, r)
    BY <2>1
  <2> DEFINE a == To[c]
             p == [from |-> c, line |-> Len(done'[c])]
  <2>3. a \in Address /\ txFifo \in [Address -> Seq(Queued)]
    BY HubAssumption DEF HubAssumption, Ordered, QueueType
  <2>4. /\ r.how = "obeyed" /\ r.line.cmd = "send"
        /\ txFifo' = [txFifo EXCEPT ![a] = Append(@, p)]
    BY <1>3, <2>2, <2>3 DEF Obey
  <2>5. Room(txFifo[a])
    BY <2>4, ReadingType DEF Refused
  <2>6. Len(Append(txFifo[a], p)) < QueueLen
    <3>1. p \in Queued
      BY ReceiveOrdered, DoneLength DEF Ordered, Queued
    <3> QED
      BY <2>3, <2>5, <3>1, AppendRoom
  <2> QED
    BY <1>1, <2>3, <2>4, <2>6 DEF Bounded
<1> QED
  BY <1>2, <1>3

LEMMA FromBridgeBounded ==
  ASSUME Bounded, FromBridge
  PROVE  Bounded'
<1>1. /\ UNCHANGED <<rxFifo, txFifo, stopFlag>> /\ came < MaxPackets /\ came' = came + 1
      /\ \E a \in Address : ring' = IF Room(ring) THEN Append(ring, a) ELSE ring
  BY DEF FromBridge, session, server
<1>2. came' \in 0 .. MaxPackets
  BY <1>1, HubAssumption, SMT DEF Bounded, HubAssumption
<1>3. ring' \in Seq(Address) /\ Len(ring') < QueueLen
  BY <1>1, AppendRoom DEF Bounded
<1> QED
  BY <1>1, <1>2, <1>3 DEF Bounded

LEMMA AddPacketBounded ==
  ASSUME Bounded, Owned, AddPacket
  PROVE  Bounded'
<1> DEFINE f == rxFifos[Head(ring)]
<1>1. /\ UNCHANGED <<txFifo, stopFlag, came>> /\ ring # <<>> /\ ring' = Tail(ring)
      /\ rxFifo' = IF f # None /\ Room(rxFifo[f])
                     THEN [rxFifo EXCEPT ![f] = Append(@, Head(ring))] ELSE rxFifo
  BY DEF AddPacket, server
<1>2. Head(ring) \in Address /\ ring' \in Seq(Address) /\ Len(ring') < QueueLen
  BY <1>1, TailRoom DEF Bounded
<1>3. f \in Conn \cup {None}
  BY <1>2 DEF Owned, OwnerType
<1>4. CASE f # None /\ Room(rxFifo[f])
  <2>1. Append(rxFifo[f], Head(ring)) \in Seq(Address)
        /\ Len(Append(rxFifo[f], Head(ring))) < QueueLen
    BY <1>2, <1>3, <1>4, AppendRoom DEF Bounded
  <2> QED
    BY <1>1, <1>2, <1>3, <1>4, <2>1 DEF Bounded
<1>5. CASE ~ (f # None /\ Room(rxFifo[f]))
  BY <1>1, <1>2, <1>5 DEF Bounded
<1> QED
  BY <1>4, <1>5

LEMMA GetPacketBounded ==
  ASSUME Bounded, Ordered, GetPacket
  PROVE  Bounded'
<1>1. /\ UNCHANGED <<rxFifo, ring, came, stopFlag>>
      /\ \E a \in Address : txFifo[a] # <<>> /\ txFifo' = [txFifo EXCEPT ![a] = Tail(@)]
  BY DEF GetPacket, session
<1>2. \A a \in Address : txFifo[a] # <<>> => Len(Tail(txFifo[a])) < QueueLen
  BY TailRoom DEF Bounded, Ordered, QueueType
<1> QED
  BY <1>1, <1>2 DEF Bounded, Ordered, QueueType

LEMMA NextBounded == Ordered /\ Bounded /\ [Next]_vars => Bounded'
<1> SUFFICES ASSUME Ordered, Bounded, [Next]_vars PROVE Bounded'
  OBVIOUS
<1>1. ASSUME UNCHANGED <<rxFifo, txFifo, ring, came>>, stopFlag' \in BOOLEAN
      PROVE  Bounded'
  BY <1>1 DEF Bounded
<1>2. ASSUME NEW c \in Conn, Acceptor(c) \/ Client(c) \/ ReceiveNothing(c)
      PROVE  Bounded'
  BY <1>1, <1>2
     DEF Acceptor, Accept, StartThread, NoThread, Client, Write, HangUp, ReceiveNothing,
         session, server, usb, Bounded
<1>3. CASE Stop \/ UNCHANGED vars
  BY <1>1, <1>3 DEF Stop, vars, session, server, usb, Bounded
<1> QED
  BY <1>2, <1>3, PollBounded, LeaveBounded, ReceiveBounded, FromBridgeBounded,
     AddPacketBounded, GetPacketBounded DEF Next, Session, Ordered

(* Every variable keeps to the values the code can give it, and no queue   *)
(* takes more than it has places for.                                      *)
THEOREM TypeCorrect == Spec => []TypeOK
<1>1. Ordered /\ Bounded => TypeOK
  <2> SUFFICES ASSUME Ordered, Bounded PROVE TypeOK
    OBVIOUS
  <2>1. \A c \in Conn : written[c] \in 0 .. Len(Script[c])
    <3>1. \A c \in Conn : Len(Script[c]) \in Nat
      BY HubAssumption, LenProperties DEF HubAssumption
    <3> QED
      BY <3>1, SMT DEF Ordered, LineType
  <2> QED
    BY <2>1 DEF Ordered, Bounded, Owned, OwnerType, Phase, LineType, Numbered, TypeOK
<1>2. Spec => []Bounded
  BY OrderedAlways, InitBounded, NextBounded, PTL DEF Spec
<1> QED
  BY <1>1, <1>2, OrderedAlways, PTL

-----------------------------------------------------------------------------
(***************************************************************************)
(* The lines of clients that wait for each to be obeyed.  A session has    *)
(* obeyed all that were written, and nothing is on its way, or all but the *)
(* last, of which it has the first m bytes and the others are coming.      *)
(***************************************************************************)
SoFar(c) ==
  \A i \in 1 .. Len(done[c]) :
    /\ done[c][i].line = Script[c][i]
    /\ done[c][i].how = "obeyed" \/ done[c][i].line.cmd = "send"

AtRest(c) == Len(done[c]) = written[c] /\ readbuf[c] = <<>> /\ input[c] = <<>>

Halfway(c, m) ==
  /\ written[c] \in 1 .. Len(Script[c]) /\ Len(done[c]) + 1 = written[c]
  /\ Len(readbuf[c]) = m /\ Len(input[c]) = 3 - m
  /\ \A i \in 1 .. m : readbuf[c][i] = [line |-> Script[c][written[c]], part |-> i]
  /\ \A i \in 1 .. 3 - m : input[c][i] = [line |-> Script[c][written[c]], part |-> m + i]

Reads(c) == phase[c] \in {"none", "accepted", "poll", "receive"}
LineOf(c) == SoFar(c) /\ (Reads(c) => AtRest(c) \/ \E m \in 0 .. 2 : Halfway(c, m))
LineInv == \A c \in Conn : LineOf(c)

(* A step of one session, and one that reads nothing.                      *)
LEMMA OthersLines ==
  ASSUME LineInv, NEW c \in Conn, LineOf(c)',
         \A d \in Conn : d # c =>
           /\ phase'[d] = phase[d] /\ done'[d] = done[d] /\ written'[d] = written[d]
           /\ readbuf'[d] = readbuf[d] /\ input'[d] = input[d]
  PROVE  LineInv'
<1> SUFFICES ASSUME NEW d \in Conn, d # c PROVE LineOf(d)'
  BY DEF LineInv
<1>1. /\ phase'[d] = phase[d] /\ done'[d] = done[d] /\ written'[d] = written[d]
      /\ readbuf'[d] = readbuf[d] /\ input'[d] = input[d]
  OBVIOUS
<1>2. LineOf(d)
  BY DEF LineInv
<1>3. SoFar(d)'
  BY <1>1, <1>2 DEF LineOf, SoFar
<1>4. (Reads(d)' <=> Reads(d)) /\ (AtRest(d)' <=> AtRest(d))
  BY <1>1 DEF Reads, AtRest
<1>5. \A m : Halfway(d, m)' <=> Halfway(d, m)
  BY <1>1 DEF Halfway
<1> QED
  BY <1>2, <1>3, <1>4, <1>5 DEF LineOf

LEMMA NothingRead ==
  ASSUME LineInv, UNCHANGED <<done, written, readbuf, input>>,
         \A d \in Conn : Reads(d)' => Reads(d)
  PROVE  LineInv'
<1> SUFFICES ASSUME NEW d \in Conn PROVE LineOf(d)'
  BY DEF LineInv
<1>1. LineOf(d) /\ (Reads(d)' => Reads(d))
  BY DEF LineInv
<1>2. SoFar(d)' /\ (AtRest(d)' <=> AtRest(d))
  BY <1>1 DEF LineOf, SoFar, AtRest
<1>3. \A m : Halfway(d, m)' <=> Halfway(d, m)
  BY DEF Halfway
<1> QED
  BY <1>1, <1>2, <1>3 DEF LineOf

LEMMA LineWritten ==
  ASSUME Ordered, Paced, LineInv, NEW c \in Conn, Write(c)
  PROVE  LineInv'
<1>1. /\ phase[c] \in {"poll", "receive"} /\ written[c] < Len(Script[c])
      /\ Len(done[c]) = written[c]
      /\ written' = [written EXCEPT ![c] = @ + 1]
      /\ input' = [input EXCEPT ![c] = @ \o Text(Script[c][written'[c]])]
      /\ UNCHANGED <<phase, readbuf, done>>
  BY DEF Write, session
<1>2. /\ written \in [Conn -> Nat] /\ input \in [Conn -> Seq(Char)] /\ Len(Script[c]) \in Nat
      /\ Script[c] \in Seq(Line)
  BY HubAssumption, LenProperties DEF Ordered, LineType, HubAssumption
<1>3. AtRest(c) /\ SoFar(c)
  <2>1. \A m : ~ Halfway(c, m)
    BY <1>1, <1>2 DEF Halfway
  <2> QED
    BY <1>1, <2>1 DEF LineInv, LineOf, Reads
<1>4. PICK l : l = Script[c][written[c] + 1]
  OBVIOUS
<1>5. l \in Line /\ written'[c] = written[c] + 1 /\ written'[c] \in 1 .. Len(Script[c])
  BY <1>1, <1>2, <1>4, ElementOfSeq
<1>6. Text(l) \in Seq(Char) /\ Len(Text(l)) = 3
      /\ \A i \in 1 .. 3 : Text(l)[i] = [line |-> l, part |-> i]
  BY <1>5, TextType DEF Text
<1>7. input'[c] = Text(l)
  BY <1>1, <1>2, <1>3, <1>4, <1>5, <1>6, ConcatEmptySeq DEF AtRest
<1>8. Len(readbuf'[c]) = 0 /\ readbuf'[c] = <<>>
  BY <1>1, <1>3, EmptySeq DEF AtRest
<1>9. Halfway(c, 0)'
  <2>1. Script[c][written'[c]] = l /\ Len(done'[c]) + 1 = written'[c]
    BY <1>1, <1>4, <1>5
  <2>2. /\ Len(input'[c]) = 3 - 0
        /\ \A i \in 1 .. 3 - 0 : input'[c][i] = [line |-> l, part |-> 0 + i]
    <3>1. 3 - 0 = 3 /\ \A i \in 1 .. 3 : 0 + i = i
      OBVIOUS
    <3> QED
      BY <1>6, <1>7, <3>1
  <2>3. \A i \in 1 .. 0 : FALSE
    OBVIOUS
  <2> QED
    BY <1>5, <1>8, <2>1, <2>2, <2>3 DEF Halfway
<1>10. LineOf(c)'
  BY <1>1, <1>3, <1>9 DEF LineOf, SoFar
<1> QED
  BY <1>1, <1>2, <1>10, OthersLines

(* The line that is whole is found, and nothing of it is kept.             *)
LEMMA WholeLine ==
  ASSUME NEW l \in Line, NEW buf \in Seq(Char), Len(buf) = 3,
         \A i \in 1 .. 3 : buf[i] = [line |-> l, part |-> i]
  PROVE  Intact(SubSeq(buf, 1, 2)) /\ SubSeq(buf, 1, 2)[1].line = l /\ Rest(buf, 3) = <<>>
<1>1. Text(l) \in Seq(Char) /\ Len(Text(l)) = 3
      /\ \A i \in 1 .. 3 : Text(l)[i] = [line |-> l, part |-> i]
  BY TextType DEF Text
<1> DEFINE t == SubSeq(buf, 1, 2)
           u == SubSeq(Text(l), 1, 2)
<1>2. /\ t \in Seq(Char) /\ Len(t) = 2 /\ \A i \in 1 .. 2 : t[i] = buf[i]
      /\ u \in Seq(Char) /\ Len(u) = 2 /\ \A i \in 1 .. 2 : u[i] = Text(l)[i]
  BY <1>1, ElementOfSeq, SubSeqProperties, SMT
<1> HIDE DEF t, u
<1>3. \A i \in 1 .. 2 : t[i] = u[i]
  BY <1>1, <1>2
<1>4. t = u
  BY <1>2, <1>3, SeqEqual, SMT
<1>5. t[1].line = l /\ 1 \in DOMAIN t
  BY <1>2, LenProperties, SMT
<1> QED
  BY <1>4, <1>5 DEF t, u, Intact, Rest

LEMMA LineReceived ==
  ASSUME Ordered, LineInv, NEW c \in Conn, Receive(c)
  PROVE  LineInv'
<1>1. PICK k \in 1 .. Len(input[c]) :
        LET old == Len(readbuf[c])
            buf == readbuf[c] \o SubSeq(input[c], 1, k)
        IN /\ input' = [input EXCEPT ![c] = SubSeq(@, k + 1, Len(@))]
           /\ \/ /\ Newline(buf, old) = {}
                 /\ readbuf' = [readbuf EXCEPT ![c] = buf]
                 /\ phase' = [phase EXCEPT ![c] = "poll"]
                 /\ UNCHANGED <<dstPort, done, txFifo>>
              \/ \E i \in Newline(buf, old) :
                   LET t == SubSeq(buf, 1, i - 1)
                   IN IF GivesUp(c, t)
                        THEN /\ phase' = [phase EXCEPT ![c] = "leave"]
                             /\ UNCHANGED <<readbuf, dstPort, done, txFifo>>
                        ELSE /\ \E r \in Readings(c, t) : Obey(c, r)
                             /\ readbuf' = [readbuf EXCEPT ![c] = Rest(buf, i)]
                             /\ phase' = [phase EXCEPT ![c] = "poll"]
  BY DEF Receive
<1> DEFINE old == Len(readbuf[c])
           buf == readbuf[c] \o SubSeq(input[c], 1, k)
           rest == SubSeq(input[c], k + 1, Len(input[c]))
<1>2. phase[c] = "receive" /\ input[c] # <<>> /\ UNCHANGED written
  BY DEF Receive
<1>3. /\ readbuf \in [Conn -> Seq(Char)] /\ input \in [Conn -> Seq(Char)]
      /\ written \in [Conn -> Nat] /\ phase \in [Conn -> Phase]
      /\ DOMAIN done = Conn /\ Script[c] \in Seq(Line)
      /\ \E S : done[c] \in Seq(S)
  BY HubAssumption DEF Ordered, LineType, Owned, OwnerType, QueueType, HubAssumption
<1>4. SoFar(c) /\ \E m \in 0 .. 2 : Halfway(c, m)
  BY <1>2 DEF LineInv, LineOf, Reads, AtRest
<1>5. PICK m \in 0 .. 2 : Halfway(c, m)
  BY <1>4
<1>6. PICK l : l = Script[c][written[c]]
  OBVIOUS
<1>7. /\ l \in Line /\ written[c] \in 1 .. Len(Script[c]) /\ Len(done[c]) + 1 = written[c]
      /\ Len(readbuf[c]) = m /\ Len(input[c]) = 3 - m
      /\ \A i \in 1 .. m : readbuf[c][i] = [line |-> l, part |-> i]
      /\ \A i \in 1 .. 3 - m : input[c][i] = [line |-> l, part |-> m + i]
  BY <1>3, <1>5, <1>6, ElementOfSeq DEF Halfway
<1>8. k \in 1 .. 3 - m
  BY <1>7
<1>9. /\ buf \in Seq(Char) /\ Len(buf) = m + k
      /\ \A i \in 1 .. m + k : buf[i] = [line |-> l, part |-> i]
  <2>1. /\ SubSeq(input[c], 1, k) \in Seq(Char) /\ Len(SubSeq(input[c], 1, k)) = k
        /\ \A i \in 1 .. k : SubSeq(input[c], 1, k)[i] = input[c][i]
    BY <1>3, <1>7, <1>8, ElementOfSeq, SubSeqProperties, SMT
  <2>2. /\ buf \in Seq(Char) /\ Len(buf) = m + k
        /\ \A i \in 1 .. m + k :
             buf[i] = IF i <= m THEN readbuf[c][i] ELSE SubSeq(input[c], 1, k)[i - m]
    BY <1>3, <1>7, <2>1, ConcatProperties
  <2> HIDE DEF buf
  <2>3. ASSUME NEW i \in 1 .. m + k PROVE buf[i] = [line |-> l, part |-> i]
    <3>1. CASE i <= m
      <4>1. i \in 1 .. m
        BY <3>1
      <4>2. readbuf[c][i] = [line |-> l, part |-> i]
        BY <1>7, <4>1
      <4> QED
        BY <2>2, <3>1, <4>2
    <3>2. CASE ~ (i <= m)
      <4>1. i - m \in 1 .. k /\ i - m \in 1 .. 3 - m /\ m + (i - m) = i
        BY <1>8, <3>2
      <4>2. input[c][i - m] = [line |-> l, part |-> m + (i - m)]
        BY <1>7, <4>1
      <4> QED
        BY <2>1, <2>2, <3>2, <4>1, <4>2
    <3> QED
      BY <3>1, <3>2
  <2> QED
    BY <2>2, <2>3
<1>10. /\ rest \in Seq(Char) /\ Len(rest) = 3 - (m + k)
       /\ \A i \in 1 .. 3 - (m + k) : rest[i] = [line |-> l, part |-> m + k + i]
  <2>1. /\ rest \in Seq(Char) /\ Len(rest) = 3 - (m + k)
        /\ \A i \in 1 .. 3 - (m + k) : rest[i] = input[c][k + i]
    <3>1. PICK a, b : a = k + 1 /\ b = 3 - m
      OBVIOUS
    <3>2. /\ a \in Int /\ b \in Int /\ \A i \in a .. b : i \in 1 .. 3 - m
          /\ IF a <= b THEN b - a + 1 = 3 - (m + k) ELSE 0 = 3 - (m + k)
          /\ \A i \in 1 .. 3 - (m + k) : i \in 1 .. b - a + 1 /\ a + i - 1 = k + i
      BY <1>8, <3>1
    <3>3. \A i \in a .. b : input[c][i] \in Char
      BY <1>3, <1>7, <3>2, ElementOfSeq
    <3>4. /\ SubSeq(input[c], a, b) \in Seq(Char)
          /\ Len(SubSeq(input[c], a, b)) = 3 - (m + k)
          /\ \A i \in 1 .. b - a + 1 : SubSeq(input[c], a, b)[i] = input[c][a + i - 1]
      BY <3>2, <3>3, SubSeqProperties
    <3> QED
      BY <1>7, <3>1, <3>2, <3>4
  <2> HIDE DEF rest
  <2>2. ASSUME NEW i \in 1 .. 3 - (m + k) PROVE rest[i] = [line |-> l, part |-> m + k + i]
    <3>1. k + i \in 1 .. 3 - m /\ m + (k + i) = m + k + i
      BY <1>8
    <3> QED
      BY <1>7, <2>1, <3>1
  <2> QED
    BY <2>1, <2>2
<1>11. input' = [input EXCEPT ![c] = rest]
  BY <1>1
<1>12. \/ /\ Newline(buf, old) = {} /\ readbuf' = [readbuf EXCEPT ![c] = buf]
          /\ phase' = [phase EXCEPT ![c] = "poll"] /\ UNCHANGED done
       \/ \E i \in Newline(buf, old) :
            \/ phase' = [phase EXCEPT ![c] = "leave"] /\ UNCHANGED <<readbuf, done>>
            \/ /\ \E r \in Readings(c, SubSeq(buf, 1, i - 1)) : done' = [done EXCEPT ![c] = Append(@, r)]
               /\ readbuf' = [readbuf EXCEPT ![c] = Rest(buf, i)]
               /\ phase' = [phase EXCEPT ![c] = "poll"]
  BY <1>1 DEF Obey
<1>13. old = m
  BY <1>7
<1> HIDE DEF buf, old, rest
<1>14. input'[c] = rest /\ \A d \in Conn : d # c => input'[d] = input[d]
  BY <1>3, <1>11
<1>15. \A i \in Newline(buf, old) : i = 3 /\ m + k = 3
  <2> SUFFICES ASSUME NEW i \in Newline(buf, old) PROVE i = 3 /\ m + k = 3
    OBVIOUS
  <2>1. i \in m + 1 .. m + k /\ buf[i].part = 3
    BY <1>9, <1>13 DEF Newline
  <2>2. i \in 1 .. m + k /\ m + k <= 3
    BY <1>8, <2>1
  <2>3. i = 3
    BY <1>9, <2>1, <2>2
  <2> QED
    BY <1>8, <2>2, <2>3
<1>16. CASE Newline(buf, old) = {} /\ readbuf' = [readbuf EXCEPT ![c] = buf]
            /\ phase' = [phase EXCEPT ![c] = "poll"] /\ UNCHANGED done
  <2>1. m + k # 3
    <3> SUFFICES ASSUME m + k = 3 PROVE 3 \in Newline(buf, old)
      BY <1>16
    <3>1. \A j \in 1 .. 3 : buf[j].part = j
      BY <1>9
    <3>2. 3 \in m + 1 .. Len(buf) /\ \A j \in m + 1 .. 3 - 1 : buf[j].part # 3
      BY <1>8, <1>9, <3>1
    <3> QED
      BY <1>13, <3>1, <3>2 DEF Newline
  <2>2. m + k \in 0 .. 2
    BY <1>8, <2>1
  <2>3. readbuf'[c] = buf /\ done'[c] = done[c] /\ written'[c] = written[c]
    BY <1>2, <1>3, <1>16
  <2>4. PICK n : n = m + k
    OBVIOUS
  <2>5. Halfway(c, n)'
    BY <1>6, <1>7, <1>9, <1>10, <1>14, <2>3, <2>4 DEF Halfway
  <2>6. LineOf(c)'
    BY <1>4, <2>2, <2>3, <2>4, <2>5 DEF LineOf, SoFar
  <2> QED
    BY <1>2, <1>3, <1>14, <1>16, <2>6, OthersLines
<1>17. CASE phase' = [phase EXCEPT ![c] = "leave"] /\ UNCHANGED <<readbuf, done>>
  <2>1. ~ Reads(c)' /\ SoFar(c)'
    BY <1>3, <1>4, <1>17 DEF Reads, SoFar
  <2>2. LineOf(c)'
    BY <2>1 DEF LineOf
  <2> QED
    BY <1>2, <1>3, <1>14, <1>17, <2>2, OthersLines
<1>18. ASSUME NEW i \in Newline(buf, old), NEW r \in Readings(c, SubSeq(buf, 1, i - 1)),
              done' = [done EXCEPT ![c] = Append(@, r)],
              readbuf' = [readbuf EXCEPT ![c] = Rest(buf, i)],
              phase' = [phase EXCEPT ![c] = "poll"]
       PROVE  LineInv'
  <2>1. i = 3 /\ m + k = 3
    BY <1>15, <1>18
  <2>2. /\ Intact(SubSeq(buf, 1, 2)) /\ SubSeq(buf, 1, 2)[1].line = l /\ Rest(buf, 3) = <<>>
    BY <1>7, <1>9, <2>1, WholeLine
  <2>3. r \in Readings(c, SubSeq(buf, 1, 2))
    BY <1>18, <2>1
  <2>4. r.line = l /\ (r.how = "obeyed" \/ r.line.cmd = "send")
    BY <2>2, <2>3 DEF Readings, Refused
  <2>5. PICK S : done[c] \in Seq(S)
    BY <1>3
  <2>6. PICK n \in Nat : n = Len(done[c])
    BY <2>5, LenProperties
  <2>7. /\ done'[c] = Append(done[c], r) /\ Len(done'[c]) = n + 1 /\ done'[c][n + 1] = r
        /\ \A j \in 1 .. n : done'[c][j] = done[c][j]
    <3>1. done'[c] = Append(done[c], r)
      BY <1>3, <1>18
    <3>2. done[c] \in Seq(S \cup {r}) /\ r \in S \cup {r}
      BY <2>5, SMT
    <3> QED
      BY <2>6, <3>1, <3>2, AppendProperties
  <2>8. written'[c] = n + 1 /\ l = Script[c][n + 1]
    BY <1>2, <1>6, <1>7, <2>6
  <2>9. readbuf'[c] = <<>> /\ input'[c] = <<>>
    <3>1. Len(rest) = 0
      BY <1>10, <2>1
    <3> QED
      BY <1>3, <1>10, <1>14, <1>18, <2>1, <2>2, <3>1, EmptySeq
  <2>10. SoFar(c)'
    <3> SUFFICES ASSUME NEW j \in 1 .. n + 1
                 PROVE  /\ done'[c][j].line = Script[c][j]
                        /\ done'[c][j].how = "obeyed" \/ done'[c][j].line.cmd = "send"
      BY <2>7 DEF SoFar
    <3>1. CASE j = n + 1
      BY <2>4, <2>7, <2>8, <3>1
    <3>2. CASE j # n + 1
      <4>1. j \in 1 .. n
        BY <3>2
      <4> QED
        BY <1>4, <2>6, <2>7, <4>1 DEF SoFar
    <3> QED
      BY <3>1, <3>2
  <2>11. LineOf(c)'
    BY <2>7, <2>8, <2>9, <2>10 DEF LineOf, AtRest
  <2>12. \A d \in Conn : d # c => done'[d] = done[d] /\ readbuf'[d] = readbuf[d] /\ phase'[d] = phase[d]
    BY <1>3, <1>18
  <2> QED
    BY <1>2, <1>14, <2>11, <2>12, OthersLines
<1> QED
  BY <1>12, <1>16, <1>17, <1>18

LEMMA NextLines == Ordered /\ Paced /\ LineInv /\ [Next]_vars => LineInv'
<1> SUFFICES ASSUME Ordered, Paced, LineInv, [Next]_vars PROVE LineInv'
  OBVIOUS
<1>1. phase \in [Conn -> Phase]
  BY DEF Ordered, Owned, OwnerType
<1>2. ASSUME NEW c \in Conn, Acceptor(c) PROVE LineInv'
  <2>1. UNCHANGED <<done, written, readbuf, input>>
    BY <1>2 DEF Acceptor, Accept, StartThread, NoThread, client
  <2>2. \A d \in Conn : Reads(d)' => Reads(d)
    BY <1>1, <1>2 DEF Acceptor, Accept, StartThread, NoThread, Reads
  <2> QED
    BY <2>1, <2>2, NothingRead
<1>3. ASSUME NEW c \in Conn, HangUp(c) PROVE LineInv'
  BY <1>3, NothingRead DEF HangUp, session, Reads
<1>4. ASSUME NEW c \in Conn, Poll(c) \/ ReceiveNothing(c) \/ Leave(c) PROVE LineInv'
  <2>1. UNCHANGED <<done, written, readbuf, input>>
    BY <1>4 DEF Poll, ReceiveNothing, Leave, client
  <2>2. \A d \in Conn : Reads(d)' => Reads(d)
    BY <1>1, <1>4 DEF Poll, ReceiveNothing, Leave, Reads
  <2> QED
    BY <2>1, <2>2, NothingRead
<1>5. CASE FromBridge \/ AddPacket \/ GetPacket \/ Stop \/ UNCHANGED vars
  BY <1>5, NothingRead DEF FromBridge, AddPacket, GetPacket, Stop, vars, session, client, Reads
<1> QED
  BY <1>2, <1>3, <1>4, <1>5, LineWritten, LineReceived DEF Next, Client, Session

(* However the bytes of a line are cut up on their way, whoever takes the  *)
(* address over meanwhile, and with any number of clients: the session of  *)
(* a client that leaves the time for each line to be obeyed before it      *)
(* writes the next obeys every line, once and in order.  (The protocol     *)
(* does not make it wait, and the hypothesis is needed: of two lines that  *)
(* come together the second is lost.)                                      *)
THEOREM LinesAreObeyed == ASSUME Paced PROVE Spec => []LinesObeyed
<1>1. Init => LineInv
  <2> SUFFICES ASSUME Init, NEW c \in Conn PROVE LineOf(c)
    BY DEF LineInv
  <2>1. done[c] = <<>> /\ written[c] = 0 /\ readbuf[c] = <<>> /\ input[c] = <<>>
    BY DEF Init
  <2>2. Len(done[c]) = 0
    BY <2>1, EmptySeq
  <2> QED
    BY <2>1, <2>2 DEF LineOf, SoFar, AtRest
<1>2. Spec => []LineInv
  BY <1>1, NextLines, OrderedAlways, Paced, PTL DEF Spec
<1>3. Ordered /\ LineInv => LinesObeyed
  <2> SUFFICES ASSUME Ordered, LineInv, NEW c \in Conn
               PROVE  /\ \A i \in DOMAIN done[c] :
                           /\ done[c][i].line = Script[c][i]
                           /\ done[c][i].how = "obeyed" \/ done[c][i].line.cmd = "send"
                      /\ phase[c] \in {"poll", "receive"} /\ input[c] = <<>>
                           => Len(done[c]) = written[c]
    BY DEF LinesObeyed
  <2>1. DOMAIN done[c] = 1 .. Len(done[c]) /\ SoFar(c)
    BY LenProperties DEF Ordered, QueueType, LineInv, LineOf
  <2>2. ASSUME phase[c] \in {"poll", "receive"}, input[c] = <<>> PROVE Len(done[c]) = written[c]
    <3>1. ASSUME NEW m \in 0 .. 2 PROVE ~ Halfway(c, m)
      <4>1. Len(input[c]) = 0 /\ 3 - m # 0
        BY <2>2, EmptySeq
      <4> QED
        BY <4>1 DEF Halfway
    <3> QED
      BY <2>2, <3>1 DEF LineInv, LineOf, Reads, AtRest
  <2> QED
    BY <2>1, <2>2 DEF SoFar
<1> QED
  BY <1>2, <1>3, OrderedAlways, PTL
=============
