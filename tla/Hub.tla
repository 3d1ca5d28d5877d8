-------------------------------- MODULE Hub --------------------------------
(***************************************************************************)
(* The hub on the ground: pqp_hub.c and the packet queue of                *)
(* pqp_usb_bridge.c.  Tools connect to the TCP port of a PQP address, and  *)
(* the last to connect owns the address.  Each connection has a session    *)
(* thread that obeys the lines its client writes and passes on the packets *)
(* that come from the address; one thread serves the bridge.               *)
(*                                                                         *)
(* What a thread does between two regions under server_mutex touches       *)
(* nothing of the others, and is part of the step of one of the two.       *)
(***************************************************************************)
EXTENDS Integers, Sequences, FiniteSets

CONSTANTS
  Address, Port,
  Conn,        \* connections, each made once
  To,          \* the address each of them is for
  Script,      \* what its client writes: lines [cmd, arg]
  QueueLen,    \* TXRX_QUEUE_LEN and RX_BUFFER_SIZE; one place stays empty
  MaxLine,     \* longest unfinished line
  MaxPackets,  \* bound: packets that come from the bridge
  Paced,       \* a client waits with a line until its last one was obeyed
  None

(* The lines that set priority, flags and time to live are left out.      *)
Line == [cmd : {"port", "send"}, arg : Nat]

ASSUME HubAssumption ==
  /\ Port \subseteq Nat
  /\ To \in [Conn -> Address]
  /\ Script \in [Conn -> Seq(Line)]
  /\ {QueueLen, MaxLine, MaxPackets} \subseteq Nat
  /\ QueueLen > 1
  /\ Paced \in BOOLEAN
  /\ None \notin Conn

VARIABLES
  phase,         \* of the session thread
  reservations,  \* pqp_reservations: who connected last
  rxFifos,       \* whose queue takes the packets of an address
  rxFifo,        \* packets for a session
  txFifo,        \* packets for an address
  input,         \* bytes on their way from the client
  closed,        \* the client has closed the connection
  readbuf,
  dstPort,       \* pqp_dst_port
  ring,          \* rx_buffer of the bridge
  stopFlag,
  uniq,          \* my_uniq of each connection, 0 before it is accepted
  written,       \* lines written by each client
  done,          \* history: what the session made of each line
  sent,          \* history: what was written to the bridge for each address
  came           \* packets that have come from the bridge

session == <<phase, rxFifo, readbuf, dstPort, done>>
client == <<input, closed, written>>
server == <<reservations, rxFifos, txFifo, uniq>>
usb == <<ring, sent, came>>
vars == <<session, client, server, usb, stopFlag>>

Room(q) == Len(q) < QueueLen - 1

-----------------------------------------------------------------------------
(***************************************************************************)
(* Connections.                                                            *)
(***************************************************************************)

(* accept, by the one thread that listens for the address.                 *)
Accept(c) ==
  /\ phase[c] = "none" /\ ~ stopFlag
  /\ \A d \in Conn : To[d] = To[c] => phase[d] # "accepted"
  /\ phase' = [phase EXCEPT ![c] = "accepted"]
  /\ uniq' = [uniq EXCEPT ![c] = Cardinality({ d \in Conn : uniq[d] > 0 }) + 1]
  /\ reservations' = [reservations EXCEPT ![To[c]] = c]
  /\ rxFifos' = [rxFifos EXCEPT ![To[c]] = c]
  /\ UNCHANGED <<rxFifo, readbuf, dstPort, done, client,
                 txFifo, usb, stopFlag>>

StartThread(c) ==
  /\ phase[c] = "accepted"
  /\ phase' = [phase EXCEPT ![c] = "poll"]
  /\ UNCHANGED <<rxFifo, readbuf, dstPort, done, client,
                 server, usb, stopFlag>>

(* pthread_create fails.                                                   *)
NoThread(c) ==
  /\ phase[c] = "accepted"
  /\ phase' = [phase EXCEPT ![c] = "gone"]
  /\ rxFifos' = [rxFifos EXCEPT ![To[c]] = None]
  /\ UNCHANGED <<rxFifo, readbuf, dstPort, done, client,
                 reservations, txFifo, uniq, usb, stopFlag>>

(* A client, that is a tool, writes its lines and hangs up at any time.    *)
Text(l) == [i \in 1 .. 3 |-> [line |-> l, part |-> i]]   \* part 3 is '\n'

Write(c) ==
  /\ phase[c] \in {"poll", "receive"} /\ ~ closed[c]
  /\ written[c] < Len(Script[c])
  /\ Paced => Len(done[c]) = written[c]
  /\ written' = [written EXCEPT ![c] = @ + 1]
  /\ input' = [input EXCEPT ![c] = @ \o Text(Script[c][written'[c]])]
  /\ UNCHANGED <<session, closed, server, usb, stopFlag>>

HangUp(c) ==
  /\ phase[c] \in {"poll", "receive"} /\ ~ closed[c]
  /\ closed' = [closed EXCEPT ![c] = TRUE]
  /\ UNCHANGED <<session, input, written, server, usb, stopFlag>>

-----------------------------------------------------------------------------
(***************************************************************************)
(* The loop of pqp_server_thread_function.                                 *)
(***************************************************************************)

Abandoned(c) == reservations[To[c]] # c \/ rxFifos[To[c]] # c

(* A packet leaves the queue, passed on to the client or dropped for what  *)
(* is in it: a packet is the address it came from.  The connection is      *)
(* found abandoned only together with a packet.                            *)
Taken(q) == IF q = <<>> THEN q ELSE Tail(q)

AbandonsNever(c) == FALSE
Abandons(c) == rxFifo[c] # <<>> /\ Abandoned(c)

Poll(c) ==
  /\ phase[c] = "poll"
  /\ IF stopFlag
       THEN /\ phase' = [phase EXCEPT ![c] = "leave"]
            /\ UNCHANGED rxFifo
       ELSE /\ phase' = [phase EXCEPT ![c] =
                 IF Abandons(c) \/ Len(readbuf[c]) > MaxLine
                   THEN "leave" ELSE "receive"]
            /\ rxFifo' = [rxFifo EXCEPT ![c] = Taken(@)]
  /\ UNCHANGED <<readbuf, dstPort, done, client, server, usb, stopFlag>>

(* Only what recv has just brought is searched for the end of a line.  If  *)
(* there is more behind it, one byte too many is kept.                     *)
Newline(buf, from) ==
  { i \in from + 1 .. Len(buf) : /\ buf[i].part = 3
                                 /\ \A j \in from + 1 .. i - 1 : buf[j].part # 3 }
RestKept(buf, i) == buf
Rest(buf, i) ==
  IF i = Len(buf) THEN <<>>
  ELSE SubSeq(buf, i + 1, Len(buf)) \o << [buf[1] EXCEPT !.part = 0] >>

(* A line that is not one of the client's is an error, or, if its fifth    *)
(* character is not a '=', nothing, or, if a number was cut by that byte   *)
(* and it is a digit or a 0, the same command with another number.         *)
Intact(t) == \E l \in { t[i].line : i \in DOMAIN t } : t = SubSeq(Text(l), 1, 2)
Misread(t) ==
  { [line |-> t[1].line, how |-> "refused"], [line |-> t[1].line, how |-> "ignored"] }
    \cup { [line |-> [t[1].line EXCEPT !.arg = p], how |-> "obeyed"] :
             p \in IF Len(t) > 2 /\ t[1].part = 1 /\ t[1].line.cmd = "port"
                      /\ t[2].part = 0
                   THEN Port ELSE {} }

Refused(c, l) == l.cmd = "send" /\ (dstPort[c] = -1 \/ ~ Room(txFifo[To[c]]))

Readings(c, t) ==
  IF Intact(t)
    THEN {[line |-> t[1].line, how |-> IF Refused(c, t[1].line) THEN "refused"
                                                              ELSE "obeyed"]}
    ELSE Misread(t)

Obey(c, r) ==
  /\ done' = [done EXCEPT ![c] = Append(@, r)]
  /\ dstPort' = [dstPort EXCEPT ![c] =
       IF r.how = "obeyed" /\ r.line.cmd = "port" THEN r.line.arg ELSE @]
  /\ txFifo' = [txFifo EXCEPT ![To[c]] =
       IF r.how = "obeyed" /\ r.line.cmd = "send"
         THEN Append(@, [from |-> c, line |-> Len(done'[c])])
         ELSE @]

(* A packet is only queued for the owner of the address.                   *)
SendsAnyway(c, t) == FALSE
GivesUp(c, t) ==
  Intact(t) /\ t[1].line.cmd = "send" /\ dstPort[c] # -1 /\ Abandoned(c)

Receive(c) ==
  /\ phase[c] = "receive"
  /\ input[c] # <<>>
  /\ \E k \in 1 .. Len(input[c]) :
       LET old == Len(readbuf[c])
           buf == readbuf[c] \o SubSeq(input[c], 1, k)
       IN /\ input' = [input EXCEPT ![c] = SubSeq(@, k + 1, Len(@))]
          /\ \/ /\ Newline(buf, old) = {}
                /\ readbuf' = [readbuf EXCEPT ![c] = buf]
                /\ phase' = [phase EXCEPT ![c] = "poll"]
                /\ UNCHANGED <<dstPort, done, txFifo>>
             \/ \E i \in Newline(buf, old) :
                  LET t == SubSeq(buf, 1, i - 1)
                  IN IF GivesUp(c, t)
                       THEN /\ phase' = [phase EXCEPT ![c] = "leave"]
                            /\ UNCHANGED <<readbuf, dstPort, done, txFifo>>
                       ELSE /\ \E r \in Readings(c, t) : Obey(c, r)
                            /\ readbuf' = [readbuf EXCEPT ![c] = Rest(buf, i)]
                            /\ phase' = [phase EXCEPT ![c] = "poll"]
  /\ UNCHANGED <<rxFifo, closed, written, reservations, rxFifos, uniq,
                 usb, stopFlag>>

AfterNothingAgain(c) == "poll"
AfterNothing(c) == IF closed[c] THEN "leave" ELSE "poll"
ReceiveNothing(c) ==
  /\ phase[c] = "receive"
  /\ input[c] = <<>>
  /\ phase' = [phase EXCEPT ![c] = AfterNothing(c)]
  /\ UNCHANGED <<rxFifo, readbuf, dstPort, done, client,
                 server, usb, stopFlag>>

(* The end of the thread: its queue is freed, so nobody may be left with   *)
(* the address of it.                                                      *)
ForgetAnyway(c, f) == None
ForgetNot(c, f) == f
AfterLeaving(c, f) == IF f = c THEN None ELSE f
Leave(c) ==
  /\ phase[c] = "leave"
  /\ phase' = [phase EXCEPT ![c] = "gone"]
  /\ rxFifos' = [rxFifos EXCEPT ![To[c]] = AfterLeaving(c, @)]
  /\ rxFifo' = [rxFifo EXCEPT ![c] = <<>>]
  /\ UNCHANGED <<readbuf, dstPort, done, client,
                 reservations, txFifo, uniq, usb, stopFlag>>

-----------------------------------------------------------------------------
(***************************************************************************)
(* The bridge.                                                             *)
(***************************************************************************)

(* The thread that reads the bridge has a packet; it is lost when the ring *)
(* is full.                                                                *)
FromBridge ==
  /\ came < MaxPackets /\ ~ stopFlag
  /\ came' = came + 1
  /\ \E a \in Address : ring' = IF Room(ring) THEN Append(ring, a) ELSE ring
  /\ UNCHANGED <<session, client, server, sent, stopFlag>>

(* pqp_usb_bridge_process: hub_raw_add_packet                              *)
AddPacket ==
  /\ ring # <<>> /\ ~ stopFlag
  /\ LET f == rxFifos[Head(ring)]
     IN rxFifo' = IF f # None /\ Room(rxFifo[f])
                    THEN [rxFifo EXCEPT ![f] = Append(@, Head(ring))]
                    ELSE rxFifo
  /\ ring' = Tail(ring)
  /\ UNCHANGED <<phase, readbuf, dstPort, done, client, server,
                 sent, came, stopFlag>>

(* and hub_raw_get_packet, whose packet is written to the bridge.  Which    *)
(* address comes first is a matter of priorities.                          *)
GetPacket ==
  /\ ~ stopFlag
  /\ \E a \in Address :
       /\ txFifo[a] # <<>>
       /\ sent' = [sent EXCEPT ![a] = Append(@, Head(txFifo[a]))]
       /\ txFifo' = [txFifo EXCEPT ![a] = Tail(@)]
  /\ UNCHANGED <<session, client, reservations, rxFifos, uniq, ring, came,
                 stopFlag>>

(* SIGINT, or the bridge cannot be read any more.                          *)
Stop ==
  /\ ~ stopFlag
  /\ stopFlag' = TRUE
  /\ UNCHANGED <<session, client, server, usb>>

-----------------------------------------------------------------------------
Init ==
  /\ phase = [c \in Conn |-> "none"]
  /\ reservations = [a \in Address |-> None]
  /\ rxFifos = [a \in Address |-> None]
  /\ rxFifo = [c \in Conn |-> <<>>]
  /\ txFifo = [a \in Address |-> <<>>]
  /\ input = [c \in Conn |-> <<>>]
  /\ closed = [c \in Conn |-> FALSE]
  /\ readbuf = [c \in Conn |-> <<>>]
  /\ dstPort = [c \in Conn |-> -1]
  /\ ring = <<>>
  /\ stopFlag = FALSE
  /\ uniq = [c \in Conn |-> 0]
  /\ written = [c \in Conn |-> 0]
  /\ done = [c \in Conn |-> <<>>]
  /\ sent = [a \in Address |-> <<>>]
  /\ came = 0

Session(c) == Poll(c) \/ Receive(c) \/ ReceiveNothing(c) \/ Leave(c)
Acceptor(c) == Accept(c) \/ StartThread(c) \/ NoThread(c)
Client(c) == Write(c) \/ HangUp(c)

Next ==
  \/ \E c \in Conn : Acceptor(c) \/ Client(c) \/ Session(c)
  \/ FromBridge \/ AddPacket \/ GetPacket
  \/ Stop

(* The thread of each session runs.  Nobody has to connect, to write or to *)
(* hang up, nothing has to come from the bridge, and what is said of the   *)
(* end of a session does not need the thread that serves the bridge.       *)
Thread(c) == StartThread(c) \/ NoThread(c) \/ Session(c)
Fairness == \A c \in Conn : WF_vars(Thread(c))

Spec == Init /\ [][Next]_vars /\ Fairness

-----------------------------------------------------------------------------
(***************************************************************************)
(* Properties.                                                             *)
(***************************************************************************)

(* Every variable keeps to the values the code can give it, and no queue   *)
(* takes more than it has places for.                                      *)
TypeOK ==
  /\ \A c \in Conn :
       /\ phase[c] \in {"none", "accepted", "poll", "receive", "leave", "gone"}
       /\ rxFifo[c] \in Seq(Address) /\ Len(rxFifo[c]) < QueueLen
       /\ dstPort[c] \in Nat \cup {-1}
       /\ written[c] \in 0 .. Len(Script[c])
       /\ uniq[c] \in Nat
  /\ \A a \in Address :
       /\ {reservations[a], rxFifos[a]} \subseteq Conn \cup {None}
       /\ Len(txFifo[a]) < QueueLen
  /\ ring \in Seq(Address) /\ Len(ring) < QueueLen
  /\ came \in 0 .. MaxPackets
  /\ stopFlag \in BOOLEAN

(* The bridge never adds a packet to the queue of a session that is gone:  *)
(* taken over or not, it takes the address of its queue away before it     *)
(* frees it, and no other's.                                               *)
QueueOfALiveSession ==
  \A a \in Address : rxFifos[a] # None => phase[rxFifos[a]] \notin {"none", "gone"}

(* The last to connect keeps the address until it leaves, whatever the     *)
(* sessions it took it from do on their way out.                           *)
OwnerKeepsAddress ==
  \A a \in Address :
    reservations[a] # None /\ phase[reservations[a]] \in {"poll", "receive"}
      => rxFifos[a] = reservations[a]

(* Packets for an address leave in the order in which its clients wrote    *)
(* them, each once, and after the first of a new owner there is none of    *)
(* an older one.                                                           *)
Before(p, q) ==
  uniq[p.from] < uniq[q.from] \/ (p.from = q.from /\ p.line < q.line)
TakeOverIsFinal ==
  \A a \in Address :
    LET all == sent[a] \o txFifo[a]
    IN \A i, j \in DOMAIN all : i < j => Before(all[i], all[j])

(* A session obeys the lines of its client, all of them, in order, however *)
(* the bytes are cut up on their way; only a packet may be refused.        *)
LinesObeyed ==
  \A c \in Conn :
    /\ \A i \in DOMAIN done[c] :
         /\ done[c][i].line = Script[c][i]
         /\ done[c][i].how = "obeyed" \/ done[c][i].line.cmd = "send"
    /\ phase[c] \in {"poll", "receive"} /\ input[c] = <<>>
         => Len(done[c]) = written[c]

(* The thread of a client that has hung up ends.                           *)
HungUpEnds ==
  \A c \in Conn : closed[c] ~> phase[c] = "gone"

(* A connection that was taken over ends when a packet is waiting for it.  *)
TakenOverEnds ==
  \A c \in Conn :
    phase[c] \notin {"none", "gone"} /\ rxFifo[c] # <<>> /\ Abandoned(c)
      ~> phase[c] = "gone"

=============================================================================
