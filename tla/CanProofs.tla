------------------------------ MODULE CanProofs ------------------------------
(***************************************************************************)
(* The board on the CAN bus, for every size of queue, ring and FIFO and    *)
(* any number of fragments, frames, faults and restarts.  Five layers:     *)
(*                                                                         *)
(* What each function of the driver changes (Only) and what it leaves      *)
(* alone; a later function is put together from these facts.               *)
(*                                                                         *)
(* Base: the queue is in order, what is to be reported, what the           *)
(* transmitter is doing and the lines that are watched agree (Duties), and *)
(* nothing that was withdrawn is queued or loaded.  It knows nothing of    *)
(* the bus.                                                                *)
(*                                                                         *)
(* FlowOK: the fields on their way from the bus to the parser.  The        *)
(* parser lags behind, so what it makes of a field depends on how many     *)
(* fields are in the FIFO and the shift register (Pipe), and which headers *)
(* among them are this board's.  Frames of other boards come out in the    *)
(* order they went in, and a header of this board is met by a parser that  *)
(* knows it (Recognised, Loaded).                                          *)
(*                                                                         *)
(* RingOK: the ring between the handler's head and LibPQP's tail.          *)
(*                                                                         *)
(* WakeOK: while no bits are lost, the fields come in the grammar of a     *)
(* frame and the parser is where that grammar lets it be (Grammar, Fits),  *)
(* so that one of the lines that are enabled will be raised: the handler   *)
(* comes back to a fragment that waits.                                    *)
(*                                                                         *)
(* The interrupt handles all that the FIFO holds in a loop; what holds     *)
(* after i of the fields is found by induction over i (CountUp, LoopRuns). *)
(***************************************************************************)
EXTENDS Can, WellFoundedInduction, TLAPS

Lines == {"MAYTX", "MATCHED", "ACKDONE", "TXPENDING"}

Fields ==
  {"on", "queue", "tx", "report", "parse", "msg", "irq", "inte", "key", "sm", "load",
   "slow", "sync", "isr", "held", "rx", "stall", "slots", "head", "tail", "rxLost",
   "bufferLost", "heard", "confirmed"}

Driver(d) == DOMAIN d = Fields

IsASequence(s) == \E S : s \in Seq(S)

(* e is d but for the fields in S.                                         *)
Only(d, e, S) == Driver(d) /\ Driver(e) /\ \A f \in Fields \ S : e[f] = d[f]

-----------------------------------------------------------------------------
(***************************************************************************)
(* What the functions of the driver change.                                *)
(***************************************************************************)
LEMMA Composed ==
  ASSUME NEW d, NEW e, NEW g, NEW S, NEW T, Only(d, e, S), Only(e, g, T)
  PROVE  Only(d, g, S \cup T)
BY DEF Only

LEMMA IrqSetDoes ==
  ASSUME NEW d, Driver(d), NEW lines
  PROVE  Only(d, IrqSet(d, lines), {"inte"}) /\ IrqSet(d, lines).inte = lines
BY DEF IrqSet, Only, Driver, Fields

LEMMA MatchDoes ==
  ASSUME NEW d, Driver(d), NEW key
  PROVE  Only(d, Match(d, key), {"key"}) /\ Match(d, key).key = key
BY DEF Match, Only, Driver, Fields

LEMMA SmSetupDoes ==
  ASSUME NEW d, Driver(d)
  PROVE  LET e == SmSetup(d)
         IN /\ Only(d, e, {"irq", "stall", "key", "sync", "isr", "rx", "sm"})
            /\ e.irq = {"TXPENDING"} /\ e.stall = FALSE /\ e.key = NoKey
            /\ e.sync = "lost" /\ e.isr = <<>> /\ e.rx = <<>>
            /\ e.sm \in {"stuck", "conflict", "off"}
BY DEF SmSetup, Only, Driver, Fields

LEMMA InjectAckDoes ==
  ASSUME NEW d, Driver(d)
  PROVE  LET e == InjectAck(d)
         IN /\ Only(d, e, {"irq", "key", "sm"})
            /\ e.irq = d.irq \ {"MATCHED", "ACKDONE"}
            /\ e.key = Key("crc", d.msg) /\ e.sm = "inject"
BY DEF InjectAck, Match, TxReset, Only, Driver, Fields

LEMMA TxScheduleDoes ==
  ASSUME NEW d, Driver(d)
  PROVE  LET e == TxSchedule(d)
         IN /\ Only(d, e, {"tx", "irq", "sm", "load"})
            /\ \/ d.tx = "QUEUED" /\ ~TxDidFail(d) /\ e = d
               \/ /\ ~(d.tx = "QUEUED" /\ ~TxDidFail(d))
                  /\ d.queue = <<>> /\ e.tx = "IDLE" /\ e.irq = d.irq \ {"TXPENDING"}
                  /\ e.sm = d.sm /\ e.load = d.load
               \/ /\ ~(d.tx = "QUEUED" /\ ~TxDidFail(d))
                  /\ d.queue # <<>> /\ e.tx = "QUEUED" /\ e.irq = d.irq \ {"MATCHED", "ACKDONE"}
                  /\ e.sm = "send" /\ e.load = Head(d.queue)
<1> DEFINE e == TxSchedule(d)
<1>1. CASE d.tx = "QUEUED" /\ ~TxDidFail(d)
  <2>1. e = d
    BY <1>1 DEF TxSchedule
  <2> QED BY <1>1, <2>1 DEF Only
<1>2. CASE ~(d.tx = "QUEUED" /\ ~TxDidFail(d)) /\ d.queue = <<>>
  <2>1. e = [d EXCEPT !.tx = "IDLE", !.irq = @ \ {"TXPENDING"}]
    BY <1>2 DEF TxSchedule
  <2> HIDE DEF e
  <2>2. /\ Only(d, e, {"tx", "irq", "sm", "load"}) /\ e.tx = "IDLE"
        /\ e.irq = d.irq \ {"TXPENDING"} /\ e.sm = d.sm /\ e.load = d.load
    BY <2>1 DEF Only, Driver, Fields
  <2> QED BY <1>2, <2>2 DEF e
<1>3. CASE ~(d.tx = "QUEUED" /\ ~TxDidFail(d)) /\ d.queue # <<>>
  <2>1. e = [TxSend(d, Head(d.queue)) EXCEPT !.tx = "QUEUED"]
    BY <1>3 DEF TxSchedule
  <2> HIDE DEF e
  <2>2. /\ Only(d, e, {"tx", "irq", "sm", "load"}) /\ e.tx = "QUEUED"
        /\ e.irq = d.irq \ {"MATCHED", "ACKDONE"} /\ e.sm = "send"
        /\ e.load = Head(d.queue)
    BY <2>1 DEF TxSend, TxReset, Only, Driver, Fields
  <2> QED BY <1>3, <2>2 DEF e
<1> QED BY <1>1, <1>2, <1>3

LEMMA CallbackRxDoes ==
  ASSUME NEW d, Driver(d)
  PROVE  LET e == CallbackRx(d)
         IN /\ Only(d, e, {"heard", "bufferLost", "slots", "head"})
            /\ e.heard = Append(d.heard, d.msg)
            /\ IF Full(d)
               THEN e.bufferLost = TRUE /\ e.slots = d.slots /\ e.head = d.head
               ELSE /\ e.bufferLost = d.bufferLost /\ e.head = Next1(d.head)
                    /\ e.slots = [d.slots EXCEPT ![d.head] = d.msg]
BY DEF CallbackRx, Only, Driver, Fields

LEMMA CallbackTxDoes ==
  ASSUME NEW d, Driver(d)
  PROVE  LET e == CallbackTx(d)
         IN /\ Only(d, e, {"confirmed", "queue"})
            /\ e.confirmed = Append(d.confirmed, Head(d.queue)) /\ e.queue = Tail(d.queue)
BY DEF CallbackTx, Pulled, Only, Driver, Fields

(* What the end of a frame tells LibPQP.                                   *)
Told(d, e) ==
  \/ /\ d.report = "TX_EOF" /\ Only(d, e, {"report", "key", "slow", "confirmed", "queue"})
     /\ e.confirmed = Append(d.confirmed, Head(d.queue)) /\ e.queue = Tail(d.queue)
     /\ e.slow = FALSE
  \/ /\ d.report = "RX_EOF"
     /\ Only(d, e, {"report", "key", "slow", "heard", "bufferLost", "slots", "head"})
     /\ e.heard = Append(d.heard, d.msg) /\ e.slow = FALSE
     /\ IF Full(d)
        THEN e.bufferLost = TRUE /\ e.slots = d.slots /\ e.head = d.head
        ELSE /\ e.bufferLost = d.bufferLost /\ e.head = Next1(d.head)
             /\ e.slots = [d.slots EXCEPT ![d.head] = d.msg]
  \/ d.report \notin {"TX_EOF", "RX_EOF"} /\ Only(d, e, {"report", "key"})

LEMMA HandleEofDoes ==
  ASSUME NEW d, Driver(d)
  PROVE  Told(d, HandleEof(d)) /\ HandleEof(d).report = "IDLE" /\ HandleEof(d).key = NoKey
<1> DEFINE s == [d EXCEPT !.slow = FALSE]
           e == HandleEof(d)
<1>1. Only(d, s, {"slow"}) /\ s.slow = FALSE
  BY DEF Only, Driver, Fields
<1> HIDE DEF s
<1>2. Driver(s) /\ Full(s) = Full(d)
  BY <1>1 DEF Only, Fields, Full
<1>3. ASSUME NEW t, Driver(t)
      PROVE  LET r == Match(Reported(t), NoKey)
             IN Only(t, r, {"report", "key"}) /\ r.report = "IDLE" /\ r.key = NoKey
  BY <1>3 DEF Match, Reported, Only, Driver, Fields
<1>4. CASE d.report = "TX_EOF"
  <2> DEFINE t == CallbackTx(s)
  <2>1. e = Match(Reported(t), NoKey)
    BY <1>4 DEF HandleEof, s
  <2>2. Only(s, t, {"confirmed", "queue"})
        /\ t.confirmed = Append(s.confirmed, Head(s.queue)) /\ t.queue = Tail(s.queue)
    BY <1>2, CallbackTxDoes
  <2> HIDE DEF t, e
  <2>3. Only(t, e, {"report", "key"}) /\ e.report = "IDLE" /\ e.key = NoKey
    BY <1>3, <2>1, <2>2 DEF Only
  <2>4. Told(d, e)
    BY <1>1, <1>4, <2>2, <2>3 DEF Told, Only, Fields
  <2> QED BY <2>3, <2>4 DEF e
<1>5. CASE d.report = "RX_EOF"
  <2> DEFINE t == CallbackRx(s)
  <2>1. e = Match(Reported(t), NoKey)
    BY <1>5 DEF HandleEof, s
  <2>2. /\ Only(s, t, {"heard", "bufferLost", "slots", "head"})
        /\ t.heard = Append(s.heard, s.msg)
        /\ IF Full(s)
           THEN t.bufferLost = TRUE /\ t.slots = s.slots /\ t.head = s.head
           ELSE /\ t.bufferLost = s.bufferLost /\ t.head = Next1(s.head)
                /\ t.slots = [s.slots EXCEPT ![s.head] = s.msg]
    BY <1>2, CallbackRxDoes
  <2> HIDE DEF t, e
  <2>3. Only(t, e, {"report", "key"}) /\ e.report = "IDLE" /\ e.key = NoKey
    BY <1>3, <2>1, <2>2 DEF Only
  <2>4. s.heard = d.heard /\ s.msg = d.msg /\ s.slots = d.slots /\ s.head = d.head
        /\ s.bufferLost = d.bufferLost
    BY <1>1 DEF Only, Fields
  <2>5. e.heard = t.heard /\ e.slots = t.slots /\ e.head = t.head /\ e.bufferLost = t.bufferLost
        /\ e.slow = t.slow /\ t.slow = s.slow
    BY <2>2, <2>3 DEF Only, Fields
  <2>6. Only(d, e, {"report", "key", "slow", "heard", "bufferLost", "slots", "head"})
    BY <1>1, <2>2, <2>3 DEF Only
  <2>7. Told(d, e)
    BY <1>1, <1>2, <1>5, <2>2, <2>4, <2>5, <2>6 DEF Told
  <2> QED BY <2>3, <2>7 DEF e
<1>6. CASE d.report \notin {"TX_EOF", "RX_EOF"}
  <2>1. e = Match(Reported(d), NoKey)
    BY <1>6 DEF HandleEof
  <2> HIDE DEF e
  <2>2. Only(d, e, {"report", "key"}) /\ e.report = "IDLE" /\ e.key = NoKey
    BY <1>3, <2>1
  <2>3. Told(d, e)
    BY <1>6, <2>2 DEF Told
  <2> QED BY <2>2, <2>3 DEF e
<1> QED BY <1>4, <1>5, <1>6

LEMMA WithEofFlagDoes ==
  ASSUME NEW d, Driver(d)
  PROVE  /\ Only(d, WithEofFlag(d), {"report"})
         /\ WithEofFlag(d).report = CASE d.report = "RX_ACK" -> "RX_EOF"
                                      [] d.report = "TX_ACK" -> "TX_EOF"
                                      [] OTHER -> d.report
BY DEF WithEofFlag, Only, Driver, Fields

LEMMA NoteDiscardingDoes ==
  ASSUME NEW d, Driver(d)
  PROVE  LET e == NoteDiscarding(d)
         IN /\ Only(d, e, {"report", "slow", "key", "inte"})
            /\ e.report = "IDLE" /\ e.slow = TRUE /\ e.inte = {"MAYTX", "TXPENDING"}
            /\ e.key = IF d.report = "IDLE" THEN d.key ELSE NoKey
BY DEF NoteDiscarding, IrqSet, Only, Driver, Fields

(* The parser gives up a frame, and resets the hardware if bits were lost. *)
LEMMA GoDiscardDoes ==
  ASSUME NEW d, Driver(d)
  PROVE  LET e == GoDiscard(d)
         IN /\ e.report = "IDLE" /\ e.slow = TRUE /\ e.parse = "DISCARD"
            /\ e.inte = {"MAYTX", "TXPENDING"}
            /\ \/ d.stall /\ Only(d, e, {"report", "slow", "key", "inte", "parse", "rxLost",
                                   "irq", "stall", "sync", "isr", "rx", "sm"})
                  /\ e.irq = {"TXPENDING"} /\ e.stall = FALSE /\ e.key = NoKey
                  /\ e.sync = "lost" /\ e.isr = <<>> /\ e.rx = <<>>
                  /\ e.sm \in {"stuck", "conflict", "off"}
               \/ ~d.stall /\ Only(d, e, {"report", "slow", "key", "inte", "parse"})
                  /\ e.key = IF d.report = "IDLE" THEN d.key ELSE NoKey
<1> DEFINE s == SmSetup(d)
           t == [s EXCEPT !.rxLost = TRUE]
           v == [(IF d.stall THEN t ELSE d) EXCEPT !.parse = "DISCARD"]
           e == GoDiscard(d)
<1>1. e = NoteDiscarding(v)
  BY DEF GoDiscard
<1>2. /\ Only(d, s, {"irq", "stall", "key", "sync", "isr", "rx", "sm"})
      /\ s.irq = {"TXPENDING"} /\ s.stall = FALSE /\ s.key = NoKey
      /\ s.sync = "lost" /\ s.isr = <<>> /\ s.rx = <<>>
      /\ s.sm \in {"stuck", "conflict", "off"}
  BY SmSetupDoes
<1> HIDE DEF s, e
<1>3. Only(s, t, {"rxLost"})
  BY <1>2 DEF Only, Driver, Fields
<1> HIDE DEF t
<1>4. CASE d.stall
  <2>1. Only(t, v, {"parse"}) /\ v.parse = "DISCARD"
    BY <1>3, <1>4 DEF Only, Driver, Fields
  <2> HIDE DEF v
  <2>2. /\ Only(v, e, {"report", "slow", "key", "inte"})
        /\ e.report = "IDLE" /\ e.slow = TRUE /\ e.inte = {"MAYTX", "TXPENDING"}
        /\ e.key = IF v.report = "IDLE" THEN v.key ELSE NoKey
    BY <1>1, <2>1, NoteDiscardingDoes DEF Only
  <2>3. Only(d, e, {"report", "slow", "key", "inte", "parse", "rxLost",
                    "irq", "stall", "sync", "isr", "rx", "sm"})
    BY <1>2, <1>3, <2>1, <2>2 DEF Only
  <2>4. e.irq = s.irq /\ e.stall = s.stall /\ v.key = s.key /\ e.sync = s.sync
        /\ e.isr = s.isr /\ e.rx = s.rx /\ e.sm = s.sm /\ e.parse = v.parse
    BY <1>3, <2>1, <2>2 DEF Only, Fields
  <2> QED BY <1>2, <1>4, <2>1, <2>2, <2>3, <2>4 DEF e
<1>5. CASE ~d.stall
  <2>1. Only(d, v, {"parse"}) /\ v.parse = "DISCARD"
    BY <1>5 DEF Only, Driver, Fields
  <2> HIDE DEF v
  <2>2. /\ Only(v, e, {"report", "slow", "key", "inte"})
        /\ e.report = "IDLE" /\ e.slow = TRUE /\ e.inte = {"MAYTX", "TXPENDING"}
        /\ e.key = IF v.report = "IDLE" THEN v.key ELSE NoKey
    BY <1>1, <2>1, NoteDiscardingDoes DEF Only
  <2>3. Only(d, e, {"report", "slow", "key", "inte", "parse"})
    BY <2>1, <2>2 DEF Only
  <2>4. v.key = d.key /\ v.report = d.report /\ e.parse = v.parse
    BY <2>1, <2>2 DEF Only, Fields
  <2> QED BY <1>5, <2>1, <2>2, <2>3, <2>4 DEF e
<1> QED BY <1>4, <1>5

-----------------------------------------------------------------------------
(***************************************************************************)
(* The queue: n fragments have been sent, those in W were withdrawn.       *)
(***************************************************************************)
Kinds(d) ==
  /\ d.on \in BOOLEAN
  /\ d.tx \in {"IDLE", "QUEUED", "ACKING_RX", "CONFIRM_TX"}
  /\ d.report \in {"IDLE", "RX_ACK", "TX_ACK", "RX_EOF", "TX_EOF"}
  /\ d.parse \in {"START", "HEADER", "CRC", "ACK", "EOF0", "EOF1", "DISCARD"}
  /\ d.inte \subseteq Lines

(* Numbers come in the order of sending, first confirmed, then queued.     *)
Ordered(d, n) ==
  /\ d.queue \in Seq(1 .. n) /\ Len(d.queue) <= QueueSize
  /\ d.confirmed \in Seq(1 .. n)
  /\ Increasing(d.queue) /\ Increasing(d.confirmed)
  /\ \A i \in 1 .. Len(d.confirmed), j \in 1 .. Len(d.queue) : d.confirmed[i] < d.queue[j]

Wanted(d, W) ==
  /\ d.on => \A j \in 1 .. Len(d.queue) : d.queue[j] \notin W
  /\ d.sm = "send" => d.load \notin W

QueueInv(d, n, W) ==
  /\ Driver(d) /\ Kinds(d) /\ Ordered(d, n) /\ Wanted(d, W)
  /\ d.tx = "QUEUED" => d.queue # <<>>

(* What the parser waits for, what is to be reported and the lines that    *)
(* are watched agree: an own frame is only to be confirmed while one is    *)
(* queued and nothing may load the transmitter, and while a header is      *)
(* received no line but MAYTX can make the transmitter give up its frame.  *)
Duties(d) ==
  /\ d.report \in {"TX_ACK", "TX_EOF"} =>
       d.tx = "CONFIRM_TX" /\ d.queue # <<>> /\ d.inte \subseteq {"MAYTX", "MATCHED"}
  /\ d.parse \in {"START", "HEADER", "DISCARD"} => d.report = "IDLE"
  /\ d.parse = "HEADER" =>
       d.inte \subseteq {"MAYTX", "TXPENDING"} /\ ("TXPENDING" \in d.inte => d.tx = "IDLE")

DriverInv(d, n, W) == QueueInv(d, n, W) /\ Duties(d)

LEMMA Emptied ==
  ASSUME NEW S, NEW s \in Seq(S), s # <<>>
  PROVE  /\ Head(s) = s[1] /\ Head(s) \in S /\ Len(s) \in Nat /\ Len(s) >= 1
         /\ Tail(s) \in Seq(S) /\ Len(Tail(s)) = Len(s) - 1
         /\ \A i \in 1 .. Len(s) - 1 : Tail(s)[i] = s[i + 1]
OBVIOUS

LEMMA Appended ==
  ASSUME NEW S, NEW s \in Seq(S), NEW m \in S
  PROVE  /\ Append(s, m) \in Seq(S) /\ Len(s) \in Nat /\ Len(Append(s, m)) = Len(s) + 1
         /\ Append(s, m)[Len(s) + 1] = m
         /\ \A i \in 1 .. Len(s) : Append(s, m)[i] = s[i] /\ s[i] \in S
OBVIOUS

LEMMA AppendSorted ==
  ASSUME NEW n \in Nat, NEW s \in Seq(1 .. n), Increasing(s), NEW m \in 1 .. n,
         \A i \in 1 .. Len(s) : s[i] < m
  PROVE  Increasing(Append(s, m)) /\ Append(s, m) \in Seq(1 .. n)
<1>1. /\ Append(s, m) \in Seq(1 .. n) /\ Len(Append(s, m)) = Len(s) + 1
      /\ Append(s, m)[Len(s) + 1] = m
      /\ \A i \in 1 .. Len(s) : Append(s, m)[i] = s[i]
  BY Appended
<1> DEFINE t == Append(s, m)
<1> HIDE DEF t
<1>2. Len(s) \in Nat
  OBVIOUS
<1>3. ASSUME NEW i \in 1 .. Len(t), NEW j \in 1 .. Len(t), i < j
      PROVE  t[i] < t[j]
  <2>1. i \in 1 .. Len(s) /\ t[i] = s[i]
    BY <1>1, <1>2, <1>3 DEF t
  <2>2. CASE j = Len(s) + 1
    BY <1>1, <2>1, <2>2 DEF t
  <2>3. CASE j # Len(s) + 1
    <3>1. j \in 1 .. Len(s) /\ t[j] = s[j]
      BY <1>1, <1>2, <2>3 DEF t
    <3> QED BY <1>3, <2>1, <3>1 DEF Increasing
  <2> QED BY <2>2, <2>3
<1>4. Increasing(t)
  BY <1>3 DEF Increasing
<1> QED BY <1>1, <1>4 DEF t

LEMMA TailSorted ==
  ASSUME NEW n \in Nat, NEW s \in Seq(1 .. n), s # <<>>, Increasing(s)
  PROVE  Increasing(Tail(s)) /\ \A i \in 1 .. Len(Tail(s)) : Head(s) < Tail(s)[i]
<1>1. /\ Head(s) = s[1] /\ Len(s) \in Nat /\ Len(s) >= 1
      /\ Len(Tail(s)) = Len(s) - 1
      /\ \A i \in 1 .. Len(s) - 1 : Tail(s)[i] = s[i + 1]
  BY Emptied
<1> DEFINE t == Tail(s)
<1> HIDE DEF t
<1>2. ASSUME NEW i \in 1 .. Len(t), NEW j \in 1 .. Len(t), i < j PROVE t[i] < t[j]
  <2>1. t[i] = s[i + 1] /\ t[j] = s[j + 1] /\ i + 1 \in 1 .. Len(s) /\ j + 1 \in 1 .. Len(s)
        /\ i + 1 < j + 1
    BY <1>1, <1>2 DEF t
  <2> QED BY <2>1 DEF Increasing
<1>3. ASSUME NEW i \in 1 .. Len(t) PROVE Head(s) < t[i]
  <2>1. t[i] = s[i + 1] /\ i + 1 \in 1 .. Len(s) /\ 1 \in 1 .. Len(s) /\ 1 < i + 1
    BY <1>1 DEF t
  <2> QED BY <1>1, <2>1 DEF Increasing
<1> QED BY <1>2, <1>3 DEF t, Increasing

LEMMA MovedOn ==
  ASSUME NEW n \in Nat, NEW q \in Seq(1 .. n), NEW c \in Seq(1 .. n), q # <<>>,
         Increasing(q), Increasing(c),
         \A i \in 1 .. Len(c), j \in 1 .. Len(q) : c[i] < q[j]
  PROVE  LET h == Head(q) IN
         /\ Increasing(Tail(q)) /\ Tail(q) \in Seq(1 .. n) /\ Len(Tail(q)) = Len(q) - 1
         /\ Increasing(Append(c, h)) /\ Append(c, h) \in Seq(1 .. n)
         /\ \A i \in 1 .. Len(Append(c, h)), j \in 1 .. Len(Tail(q)) : Append(c, h)[i] < Tail(q)[j]
<1> DEFINE h == Head(q)
           t == Tail(q)
           a == Append(c, h)
<1>1. /\ h = q[1] /\ h \in 1 .. n /\ Len(q) \in Nat /\ Len(q) >= 1
      /\ t \in Seq(1 .. n) /\ Len(t) = Len(q) - 1
  BY Emptied
<1>2. Increasing(t) /\ \A i \in 1 .. Len(t) : h < t[i]
  BY TailSorted
<1>3. \A i \in 1 .. Len(c) : c[i] < h
  BY <1>1
<1> HIDE DEF h, t
<1>4. Increasing(a) /\ a \in Seq(1 .. n)
  BY <1>1, <1>3, AppendSorted
<1>5. /\ Len(a) = Len(c) + 1 /\ Len(c) \in Nat /\ a[Len(c) + 1] = h
      /\ \A i \in 1 .. Len(c) : a[i] = c[i] /\ c[i] \in 1 .. n
  BY <1>1, Appended
<1> HIDE DEF a
<1>6. ASSUME NEW i \in 1 .. Len(a), NEW j \in 1 .. Len(t) PROVE a[i] < t[j]
  <2>1. h < t[j]
    BY <1>2
  <2>3. t[j] \in 1 .. n
    <3>1. t \in Seq(1 .. n)
      BY <1>1
    <3> QED BY <3>1
  <2>2. a[i] = h \/ (a[i] = c[i] /\ c[i] \in 1 .. n /\ c[i] < h)
    BY <1>3, <1>5
  <2>4. h \in 1 .. n
    BY <1>1
  <2> QED BY <2>1, <2>2, <2>3, <2>4
<1> QED BY <1>1, <1>2, <1>4, <1>6 DEF h, t, a

(* The first fragment of the queue is confirmed.                           *)
LEMMA Confirmed ==
  ASSUME NEW d, NEW e, NEW n \in Nat, Ordered(d, n), d.queue # <<>>,
         e.confirmed = Append(d.confirmed, Head(d.queue)), e.queue = Tail(d.queue)
  PROVE  Ordered(e, n)
<1>1. /\ Increasing(e.queue) /\ e.queue \in Seq(1 .. n) /\ Len(e.queue) = Len(d.queue) - 1
      /\ Increasing(e.confirmed) /\ e.confirmed \in Seq(1 .. n)
      /\ \A i \in 1 .. Len(e.confirmed), j \in 1 .. Len(e.queue) : e.confirmed[i] < e.queue[j]
  BY MovedOn DEF Ordered
<1>2. Len(e.queue) <= QueueSize
  <2>1. Len(d.queue) \in Nat /\ Len(d.queue) <= QueueSize /\ QueueSize \in Nat
    BY CanAssumption DEF Ordered
  <2> QED BY <1>1, <2>1
<1> QED BY <1>1, <1>2 DEF Ordered

-----------------------------------------------------------------------------
(* What leaves the queue alone.                                            *)
LEMMA QueueKept ==
  ASSUME NEW d, NEW e, NEW n, NEW W, NEW S, QueueInv(d, n, W), Only(d, e, S),
         S \cap {"queue", "confirmed", "on"} = {}, Kinds(e),
         e.tx = "QUEUED" => d.queue # <<>>,
         e.sm = "send" => d.sm = "send" /\ e.load = d.load
  PROVE  QueueInv(e, n, W)
<1>1. e.queue = d.queue /\ e.confirmed = d.confirmed /\ e.on = d.on /\ Driver(e)
  BY DEF Only, Fields
<1> QED BY <1>1 DEF QueueInv, Ordered, Wanted

LEMMA TxScheduleKeeps ==
  ASSUME NEW d, NEW n, NEW W, QueueInv(d, n, W), d.on
  PROVE  QueueInv(TxSchedule(d), n, W) /\ TxSchedule(d).tx \in {"IDLE", "QUEUED"}
<1> DEFINE e == TxSchedule(d)
<1>1. /\ Only(d, e, {"tx", "irq", "sm", "load"})
      /\ \/ d.tx = "QUEUED" /\ e = d
         \/ d.queue = <<>> /\ e.tx = "IDLE" /\ e.sm = d.sm /\ e.load = d.load
         \/ d.queue # <<>> /\ e.tx = "QUEUED" /\ e.sm = "send" /\ e.load = Head(d.queue)
  BY TxScheduleDoes DEF QueueInv
<1> HIDE DEF e
<1>2. /\ e.queue = d.queue /\ e.confirmed = d.confirmed /\ e.on = d.on /\ Driver(e)
      /\ e.report = d.report /\ e.parse = d.parse /\ e.inte = d.inte
  BY <1>1 DEF Only, Fields
<1>3. Kinds(e) /\ e.tx \in {"IDLE", "QUEUED"}
  BY <1>1, <1>2 DEF Kinds, QueueInv
<1>4. Ordered(e, n) /\ (e.tx = "QUEUED" => e.queue # <<>>)
  BY <1>1, <1>2 DEF Ordered, QueueInv
<1>5. ASSUME d.queue # <<>> PROVE Head(d.queue) \notin W
  <2>1. Head(d.queue) = d.queue[1] /\ 1 \in 1 .. Len(d.queue)
    BY <1>5 DEF QueueInv, Ordered
  <2> QED BY <2>1 DEF QueueInv, Wanted
<1>6. Wanted(e, W)
  BY <1>1, <1>2, <1>5 DEF Wanted, QueueInv
<1> QED BY <1>2, <1>3, <1>4, <1>6 DEF QueueInv, e

LEMMA HandleEofKeeps ==
  ASSUME NEW d, NEW n \in Nat, NEW W, QueueInv(d, n, W),
         d.report = "TX_EOF" => d.tx # "QUEUED" /\ d.queue # <<>>
  PROVE  QueueInv(HandleEof(d), n, W)
<1> DEFINE e == HandleEof(d)
<1>1. Told(d, e) /\ e.report = "IDLE"
  BY HandleEofDoes DEF QueueInv
<1> HIDE DEF e
<1>2. /\ e.on = d.on /\ e.sm = d.sm /\ e.load = d.load /\ e.tx = d.tx /\ e.inte = d.inte
      /\ e.parse = d.parse /\ Driver(e)
  BY <1>1 DEF Told, Only, Fields
<1>3. Kinds(e)
  BY <1>1, <1>2 DEF Kinds, QueueInv
<1>4. CASE d.report = "TX_EOF"
  <2>1. e.confirmed = Append(d.confirmed, Head(d.queue)) /\ e.queue = Tail(d.queue)
    BY <1>1, <1>4 DEF Told
  <2>2. Ordered(e, n)
    BY <1>4, <2>1, Confirmed DEF QueueInv
  <2>3. /\ Len(Tail(d.queue)) = Len(d.queue) - 1 /\ Len(d.queue) \in Nat
        /\ \A i \in 1 .. Len(d.queue) - 1 : Tail(d.queue)[i] = d.queue[i + 1]
    BY <1>4, Emptied DEF QueueInv, Ordered
  <2>4. \A j \in 1 .. Len(e.queue) : \E k \in 1 .. Len(d.queue) : e.queue[j] = d.queue[k]
    <3>1. \A j \in 1 .. Len(e.queue) : j + 1 \in 1 .. Len(d.queue) /\ e.queue[j] = d.queue[j + 1]
      BY <2>1, <2>3
    <3> QED BY <3>1
  <2>5. Wanted(e, W)
    BY <1>2, <2>4 DEF QueueInv, Wanted
  <2> QED BY <1>2, <1>3, <1>4, <2>2, <2>5 DEF QueueInv, e
<1>5. CASE d.report # "TX_EOF"
  <2>1. Only(d, e, {"report", "key", "slow", "heard", "bufferLost", "slots", "head"})
    BY <1>1, <1>5 DEF Told, Only
  <2>2. QueueInv(e, n, W)
    BY <1>2, <1>3, <2>1, QueueKept DEF QueueInv
  <2> QED BY <2>2 DEF e
<1> QED BY <1>4, <1>5

-----------------------------------------------------------------------------
(***************************************************************************)
(* The lines of the interrupt.                                             *)
(***************************************************************************)
LEMMA WatchedLines ==
  ASSUME NEW d PROVE CheckTxPending(d) \subseteq {"TXPENDING"}
                     /\ ("TXPENDING" \in CheckTxPending(d) => d.tx = "IDLE")
BY DEF CheckTxPending

(* A line is handled by loading the transmitter, and watching others.      *)
LEMMA Rescheduled ==
  ASSUME NEW d, NEW n, NEW W, QueueInv(d, n, W), d.on, NEW lines, lines \subseteq Lines,
         d.report \notin {"TX_ACK", "TX_EOF"},
         d.parse \in {"START", "HEADER", "DISCARD"} => d.report = "IDLE",
         d.parse = "HEADER" => lines \subseteq {"MAYTX"}
  PROVE  LET s == TxSchedule(d)
         IN DriverInv(IrqSet(s, lines \cup CheckTxPending(s)), n, W)
<1> DEFINE s == TxSchedule(d)
           watched == lines \cup CheckTxPending(s)
           e == IrqSet(s, watched)
<1>1. Only(d, s, {"tx", "irq", "sm", "load"})
  BY TxScheduleDoes DEF QueueInv
<1>2. QueueInv(s, n, W) /\ s.tx \in {"IDLE", "QUEUED"}
  BY TxScheduleKeeps
<1>3. CheckTxPending(s) \subseteq {"TXPENDING"} /\ ("TXPENDING" \in CheckTxPending(s) => s.tx = "IDLE")
  BY WatchedLines
<1>4. Only(s, e, {"inte"}) /\ e.inte = watched
  BY <1>2, IrqSetDoes DEF QueueInv
<1>5. watched \subseteq Lines
  BY <1>3 DEF Lines
<1> HIDE DEF s, e
<1>6. /\ e.report = d.report /\ e.parse = d.parse /\ e.tx = s.tx /\ e.sm = s.sm /\ e.load = s.load
      /\ e.on = s.on /\ s.report = d.report /\ s.parse = d.parse
  BY <1>1, <1>4 DEF Only, Fields
<1>7. Kinds(e)
  BY <1>2, <1>4, <1>5, <1>6 DEF Kinds, QueueInv
<1>8. QueueInv(e, n, W)
  BY <1>2, <1>4, <1>6, <1>7, QueueKept DEF QueueInv
<1>9. Duties(e)
  BY <1>3, <1>4, <1>6 DEF Duties
<1> QED BY <1>8, <1>9 DEF DriverInv, s, e

LEMMA LineAckDoneKeeps ==
  ASSUME NEW d, NEW n, NEW W, DriverInv(d, n, W), d.on, "ACKDONE" \in d.inte
  PROVE  DriverInv(LineAckDone(d), n, W)
<1> DEFINE m == Match(d, Key("rxeof", d.msg))
<1>1. Only(d, m, {"key"})
  BY MatchDoes DEF DriverInv, QueueInv
<1>2. LineAckDone(d) = LET s == TxSchedule(m) IN IrqSet(s, {"MAYTX", "MATCHED"} \cup CheckTxPending(s))
  BY DEF LineAckDone
<1> HIDE DEF m
<1>3. /\ m.on = d.on /\ m.tx = d.tx /\ m.report = d.report /\ m.parse = d.parse
      /\ m.inte = d.inte /\ m.sm = d.sm /\ m.load = d.load
  BY <1>1 DEF Only, Fields
<1>4. Kinds(m)
  BY <1>3 DEF Kinds, DriverInv, QueueInv
<1>5. QueueInv(m, n, W)
  BY <1>1, <1>3, <1>4, QueueKept DEF DriverInv, QueueInv
<1>6. m.report \notin {"TX_ACK", "TX_EOF"} /\ m.parse # "HEADER"
      /\ (m.parse \in {"START", "HEADER", "DISCARD"} => m.report = "IDLE")
  BY <1>3 DEF DriverInv, Duties
<1>7. {"MAYTX", "MATCHED"} \subseteq Lines
  BY DEF Lines
<1> HIDE DEF DriverInv
<1>8. LET s == TxSchedule(m) IN DriverInv(IrqSet(s, {"MAYTX", "MATCHED"} \cup CheckTxPending(s)), n, W)
  BY <1>3, <1>5, <1>6, <1>7, Rescheduled
<1> QED BY <1>2, <1>8

(* The end of the frame is handled if one is to be reported.               *)
LEMMA EndedKeeps ==
  ASSUME NEW d, NEW n \in Nat, NEW W, QueueInv(d, n, W), d.on,
         d.report \in {"TX_ACK", "TX_EOF"} => d.tx = "CONFIRM_TX" /\ d.queue # <<>>
  PROVE  LET s == TxSchedule(IF d.report = "IDLE" THEN d ELSE HandleEof(d))
         IN DriverInv(IrqSet(s, CheckTxPending(s)), n, W)
<1> DEFINE h == IF d.report = "IDLE" THEN d ELSE HandleEof(d)
<1>1. QueueInv(h, n, W) /\ h.on = d.on /\ h.report = "IDLE"
  <2>1. CASE d.report = "IDLE"
    BY <2>1
  <2>2. CASE d.report # "IDLE"
    <3>1. QueueInv(HandleEof(d), n, W)
      BY HandleEofKeeps
    <3>2. Told(d, HandleEof(d)) /\ HandleEof(d).report = "IDLE"
      BY HandleEofDoes DEF QueueInv
    <3>3. HandleEof(d).on = d.on
      BY <3>2 DEF Told, Only, Fields
    <3> QED BY <2>2, <3>1, <3>2, <3>3
  <2> QED BY <2>1, <2>2
<1> HIDE DEF h
<1>2. LET s == TxSchedule(h) IN DriverInv(IrqSet(s, {} \cup CheckTxPending(s)), n, W)
  BY <1>1, Rescheduled
<1>3. {} \cup CheckTxPending(TxSchedule(h)) = CheckTxPending(TxSchedule(h))
  OBVIOUS
<1> QED BY <1>2, <1>3 DEF h

LEMMA LineMatchedKeeps ==
  ASSUME NEW d, NEW n \in Nat, NEW W, DriverInv(d, n, W), d.on
  PROVE  DriverInv(LineMatched(d), n, W)
<1> DEFINE f == IF d.report = "IDLE" THEN d ELSE WithEofFlag(d)
<1>1. /\ Only(d, WithEofFlag(d), {"report"})
      /\ WithEofFlag(d).report = CASE d.report = "RX_ACK" -> "RX_EOF"
                                   [] d.report = "TX_ACK" -> "TX_EOF"
                                   [] OTHER -> d.report
  BY WithEofFlagDoes DEF DriverInv, QueueInv
<1>2. Kinds(d) /\ Driver(d)
  BY DEF DriverInv, QueueInv
<1>3. /\ Only(d, f, {"report"})
      /\ f.report \in {"IDLE", "RX_ACK", "TX_ACK", "RX_EOF", "TX_EOF"}
      /\ f.report = "IDLE" <=> d.report = "IDLE"
      /\ f.report \in {"TX_ACK", "TX_EOF"} => d.report \in {"TX_ACK", "TX_EOF"}
  <2>1. CASE d.report = "IDLE"
    BY <1>2, <2>1 DEF Only
  <2>2. CASE d.report # "IDLE"
    BY <1>1, <1>2, <2>2 DEF Kinds
  <2> QED BY <2>1, <2>2
<1>4. LineMatched(d) = LET s == TxSchedule(IF f.report = "IDLE" THEN f ELSE HandleEof(f))
                       IN IrqSet(s, CheckTxPending(s))
  <2>1. CASE d.report = "IDLE"
    BY <2>1 DEF LineMatched
  <2>2. CASE d.report # "IDLE"
    <3>1. f = WithEofFlag(d) /\ f.report # "IDLE"
      BY <1>3, <2>2
    <3> HIDE DEF f
    <3> QED BY <2>2, <3>1 DEF LineMatched
  <2> QED BY <2>1, <2>2
<1> HIDE DEF f
<1>5. /\ f.on = d.on /\ f.tx = d.tx /\ f.parse = d.parse /\ f.inte = d.inte /\ f.sm = d.sm
      /\ f.load = d.load /\ f.queue = d.queue
  BY <1>3 DEF Only, Fields
<1>6. Kinds(f)
  BY <1>2, <1>3, <1>5 DEF Kinds
<1>7. QueueInv(f, n, W)
  BY <1>3, <1>5, <1>6, QueueKept DEF DriverInv, QueueInv
<1>8. f.report \in {"TX_ACK", "TX_EOF"} => f.tx = "CONFIRM_TX" /\ f.queue # <<>>
  BY <1>3, <1>5 DEF DriverInv, Duties
<1>9. LET s == TxSchedule(IF f.report = "IDLE" THEN f ELSE HandleEof(f))
      IN DriverInv(IrqSet(s, CheckTxPending(s)), n, W)
  BY <1>5, <1>7, <1>8, EndedKeeps
<1> QED BY <1>4, <1>9

LEMMA LineMayTxKeeps ==
  ASSUME NEW d, NEW n \in Nat, NEW W, DriverInv(d, n, W), d.on
  PROVE  DriverInv(LineMayTx(d), n, W)
<1>1. QueueInv(d, n, W) /\ (d.report \in {"TX_ACK", "TX_EOF"} => d.tx = "CONFIRM_TX" /\ d.queue # <<>>)
  BY DEF DriverInv, Duties
<1>2. LET s == TxSchedule(IF d.report = "IDLE" THEN d ELSE HandleEof(d))
      IN DriverInv(IrqSet(s, CheckTxPending(s)), n, W)
  BY <1>1, EndedKeeps
<1> QED BY <1>2 DEF LineMayTx

LEMMA LineTxPendingKeeps ==
  ASSUME NEW d, NEW n \in Nat, NEW W, DriverInv(d, n, W), d.on, "TXPENDING" \in d.inte
  PROVE  DriverInv(LineTxPending(d), n, W)
<1>1. QueueInv(d, n, W) /\ Duties(d) /\ Driver(d) /\ Kinds(d)
  BY DEF DriverInv, QueueInv
<1>2. d.report \notin {"TX_ACK", "TX_EOF"}
  BY <1>1 DEF Duties
<1>3. CASE d.inte = {"MAYTX", "TXPENDING"} /\ d.report = "RX_ACK"
  <2> DEFINE a == [d EXCEPT !.tx = "ACKING_RX"]
             i == InjectAck(a)
             e == IrqSet(i, {"MAYTX", "ACKDONE"})
  <2>1. LineTxPending(d) = e
    BY <1>3 DEF LineTxPending
  <2>2. Only(d, a, {"tx"}) /\ a.tx = "ACKING_RX"
    BY <1>1 DEF Only, Driver, Fields
  <2> HIDE DEF a
  <2>3. Only(a, i, {"irq", "key", "sm"}) /\ i.sm = "inject"
    BY <2>2, InjectAckDoes DEF Only
  <2> HIDE DEF i
  <2>4. Only(i, e, {"inte"}) /\ e.inte = {"MAYTX", "ACKDONE"}
    BY <2>3, IrqSetDoes DEF Only
  <2> HIDE DEF e
  <2>5. Only(d, e, {"tx", "irq", "key", "sm", "inte"})
    BY <2>2, <2>3, <2>4 DEF Only
  <2>6. e.tx = "ACKING_RX" /\ e.sm = "inject" /\ e.on = d.on /\ e.report = d.report /\ e.parse = d.parse
    BY <2>2, <2>3, <2>4 DEF Only, Fields
  <2>7. Kinds(e)
    BY <1>1, <2>4, <2>6 DEF Kinds, Lines
  <2>8. QueueInv(e, n, W)
    BY <1>1, <2>5, <2>6, <2>7, QueueKept
  <2>9. Duties(e)
    BY <1>1, <1>3, <2>6 DEF Duties
  <2> QED BY <2>1, <2>8, <2>9 DEF DriverInv
<1>4. CASE ~(d.inte = {"MAYTX", "TXPENDING"} /\ d.report = "RX_ACK")
  <2> DEFINE lines == d.inte \ {"TXPENDING"}
  <2>1. LineTxPending(d) = LET s == TxSchedule(d) IN IrqSet(s, lines \cup CheckTxPending(s))
    BY <1>4 DEF LineTxPending
  <2>2. lines \subseteq Lines /\ (d.parse = "HEADER" => lines \subseteq {"MAYTX"})
        /\ (d.parse \in {"START", "HEADER", "DISCARD"} => d.report = "IDLE")
    BY <1>1 DEF Kinds, Duties
  <2> HIDE DEF lines
  <2>3. LET s == TxSchedule(d) IN DriverInv(IrqSet(s, lines \cup CheckTxPending(s)), n, W)
    BY <1>1, <1>2, <2>2, Rescheduled
  <2> QED BY <2>1, <2>3
<1> QED BY <1>3, <1>4

-----------------------------------------------------------------------------
(***************************************************************************)
(* The fields of a frame.                                                  *)
(***************************************************************************)
LEMMA GoDiscardKeeps ==
  ASSUME NEW d, NEW n, NEW W, QueueInv(d, n, W)
  PROVE  DriverInv(GoDiscard(d), n, W)
<1> DEFINE e == GoDiscard(d)
           S == {"report", "slow", "key", "inte", "parse", "rxLost",
                 "irq", "stall", "sync", "isr", "rx", "sm"}
<1>1. /\ e.report = "IDLE" /\ e.parse = "DISCARD" /\ e.inte = {"MAYTX", "TXPENDING"}
      /\ Only(d, e, S)
      /\ e.sm = "send" => d.sm = "send"
  <2>1. Driver(d)
    BY DEF QueueInv
  <2>2. \/ Only(d, e, S) /\ e.sm \in {"stuck", "conflict", "off"}
        \/ Only(d, e, {"report", "slow", "key", "inte", "parse"})
    BY <2>1, GoDiscardDoes
  <2>3. e.report = "IDLE" /\ e.parse = "DISCARD" /\ e.inte = {"MAYTX", "TXPENDING"}
    BY <2>1, GoDiscardDoes
  <2> HIDE DEF e
  <2> QED BY <2>2, <2>3 DEF Only, Fields
<1> HIDE DEF e
<1>2. e.on = d.on /\ e.tx = d.tx /\ e.load = d.load
  BY <1>1 DEF Only, Fields
<1>3. Kinds(e)
  BY <1>1, <1>2 DEF Kinds, QueueInv, Lines
<1>4. QueueInv(e, n, W)
  BY <1>1, <1>2, <1>3, QueueKept DEF QueueInv
<1>5. Duties(e)
  BY <1>1 DEF Duties
<1> QED BY <1>4, <1>5 DEF DriverInv, e

(* Only what the parser waits for, what is to be reported and the message  *)
(* change.                                                                 *)
LEMMA ParserKeeps ==
  ASSUME NEW d, NEW e, NEW n, NEW W, QueueInv(d, n, W),
         Only(d, e, {"parse", "report", "inte", "msg", "key", "irq"}), Kinds(e), Duties(e)
  PROVE  DriverInv(e, n, W)
<1>1. e.tx = d.tx /\ e.sm = d.sm /\ e.load = d.load
  BY DEF Only, Fields
<1>2. QueueInv(e, n, W)
  BY <1>1, QueueKept DEF QueueInv
<1> QED BY <1>2 DEF DriverInv

LEMMA MessageStartKeeps ==
  ASSUME NEW d, NEW n, NEW W, DriverInv(d, n, W), d.parse = "START"
  PROVE  DriverInv(MessageStart(d), n, W)
<1> DEFINE e == MessageStart(d)
<1>1. Driver(d) /\ Kinds(d) /\ QueueInv(d, n, W) /\ Duties(d)
  BY DEF DriverInv, QueueInv
<1>2. Only(d, e, {"parse", "inte"}) /\ e.parse = "HEADER" /\ e.inte = {"MAYTX"}
  BY <1>1 DEF MessageStart, IrqSet, Only, Driver, Fields
<1> HIDE DEF e
<1>3. e.on = d.on /\ e.tx = d.tx /\ e.report = d.report
  BY <1>2 DEF Only, Fields
<1>4. d.report = "IDLE"
  BY <1>1 DEF Duties
<1>5. Kinds(e) /\ Duties(e)
  BY <1>1, <1>2, <1>3, <1>4 DEF Kinds, Duties, Lines
<1>6. Only(d, e, {"parse", "report", "inte", "msg", "key", "irq"})
  BY <1>2 DEF Only
<1> QED BY <1>1, <1>5, <1>6, ParserKeeps DEF e

LEMMA ParsedDoes ==
  ASSUME NEW d, Driver(d), NEW f
  PROVE  Only(d, Parsed(d, f), {"msg"}) /\ Parsed(d, f).msg = f
BY DEF Parsed, Only, Driver, Fields

(* A header is accepted as that of this board's frame, or as another's.    *)
Accepted(d, e) ==
  /\ e.parse = "CRC"
  /\ \/ LocalMessage(d) = "local" /\ d.tx = "QUEUED" /\ Only(d, e, {"tx", "report", "key", "parse"})
        /\ e.tx = "CONFIRM_TX" /\ e.report = "TX_ACK" /\ e.key = Key("txeof", d.msg)
     \/ LocalMessage(d) = "other" /\ Only(d, e, {"inte", "report", "irq", "parse"})
        /\ e.report = "RX_ACK" /\ e.inte = {"MAYTX", "TXPENDING"}
        /\ e.irq = d.irq \cup {"TXPENDING"}

LEMMA GoCrcDoes ==
  ASSUME NEW d, Driver(d)
  PROVE  \/ LocalMessage(d) = "clash" /\ GoCrc(d) = GoDiscard(d)
         \/ Accepted(d, GoCrc(d))
<1> DEFINE c == NoteCrcStart(d)
           e == GoCrc(d)
<1>1. LocalMessage(d) \in {"clash", "local", "other"}
      /\ (LocalMessage(d) = "local" => d.tx = "QUEUED")
  BY DEF LocalMessage
<1>2. CASE LocalMessage(d) = "clash"
  BY <1>2 DEF GoCrc
<1>3. CASE LocalMessage(d) = "local"
  <2>1. c = Match([d EXCEPT !.tx = "CONFIRM_TX", !.report = "TX_ACK"], Key("txeof", d.msg))
        /\ e = [c EXCEPT !.parse = "CRC"]
    BY <1>3 DEF NoteCrcStart, GoCrc
  <2> HIDE DEF c, e
  <2>2. /\ Only(d, c, {"tx", "report", "key"}) /\ c.tx = "CONFIRM_TX" /\ c.report = "TX_ACK"
        /\ c.key = Key("txeof", d.msg)
    BY <2>1 DEF Match, Only, Driver, Fields
  <2>3. Only(c, e, {"parse"}) /\ e.parse = "CRC"
    BY <2>1, <2>2 DEF Only, Driver, Fields
  <2>4. e.tx = c.tx /\ e.report = c.report /\ e.key = c.key
    BY <2>3 DEF Only, Fields
  <2>5. Only(d, e, {"tx", "report", "key", "parse"})
    BY <2>2, <2>3 DEF Only
  <2> QED BY <1>1, <1>3, <2>2, <2>3, <2>4, <2>5 DEF Accepted, e
<1>4. CASE LocalMessage(d) = "other"
  <2>1. c = IrqSet([d EXCEPT !.report = "RX_ACK", !.irq = @ \cup {"TXPENDING"}],
                   {"MAYTX", "TXPENDING"})
        /\ e = [c EXCEPT !.parse = "CRC"]
    BY <1>4 DEF NoteCrcStart, GoCrc
  <2> HIDE DEF c, e
  <2>2. /\ Only(d, c, {"report", "irq", "inte"}) /\ c.report = "RX_ACK"
        /\ c.inte = {"MAYTX", "TXPENDING"} /\ c.irq = d.irq \cup {"TXPENDING"}
    BY <2>1 DEF IrqSet, Only, Driver, Fields
  <2>3. Only(c, e, {"parse"}) /\ e.parse = "CRC"
    BY <2>1, <2>2 DEF Only, Driver, Fields
  <2>4. e.inte = c.inte /\ e.report = c.report /\ e.irq = c.irq
    BY <2>3 DEF Only, Fields
  <2>5. Only(d, e, {"inte", "report", "irq", "parse"})
    BY <2>2, <2>3 DEF Only
  <2> QED BY <1>4, <2>2, <2>3, <2>4, <2>5 DEF Accepted, e
<1> QED BY <1>1, <1>2, <1>3, <1>4

LEMMA GoCrcKeeps ==
  ASSUME NEW d, NEW n, NEW W, DriverInv(d, n, W), d.parse = "HEADER", NEW f
  PROVE  DriverInv(GoCrc(Parsed(d, f)), n, W)
<1> DEFINE p == Parsed(d, f)
           e == GoCrc(p)
<1>1. Driver(d) /\ Kinds(d) /\ QueueInv(d, n, W) /\ Duties(d)
  BY DEF DriverInv, QueueInv
<1>2. Only(d, p, {"msg"})
  BY <1>1, ParsedDoes
<1>3. Driver(p) /\ p.tx = d.tx /\ p.on = d.on /\ p.report = d.report /\ p.parse = d.parse
      /\ p.inte = d.inte /\ p.sm = d.sm /\ p.load = d.load /\ p.queue = d.queue
  BY <1>2 DEF Only, Fields
<1>4. Kinds(p)
  BY <1>1, <1>3 DEF Kinds
<1>5. QueueInv(p, n, W)
  BY <1>1, <1>2, <1>3, <1>4, QueueKept DEF QueueInv
<1>6. e = GoDiscard(p) \/ Accepted(p, e)
  BY <1>3, GoCrcDoes
<1> HIDE DEF p, e
<1>7. CASE e = GoDiscard(p)
  BY <1>5, <1>7, GoDiscardKeeps DEF p, e
<1>8. CASE Accepted(p, e) /\ e.report = "TX_ACK"
  <2>1. /\ Only(p, e, {"tx", "report", "key", "parse"}) /\ p.tx = "QUEUED"
        /\ e.tx = "CONFIRM_TX" /\ e.parse = "CRC"
    BY <1>8 DEF Accepted
  <2>2. e.on = p.on /\ e.inte = p.inte /\ e.sm = p.sm /\ e.load = p.load /\ e.queue = p.queue
    BY <2>1 DEF Only, Fields
  <2>3. Kinds(e)
    BY <1>4, <1>8, <2>1, <2>2 DEF Kinds
  <2>4. QueueInv(e, n, W)
    BY <1>5, <2>1, <2>2, <2>3, QueueKept
  <2>5. d.inte \subseteq {"MAYTX"} /\ d.queue # <<>>
    BY <1>1, <1>3, <2>1 DEF Duties, QueueInv
  <2>6. Duties(e)
    BY <1>3, <2>1, <2>2, <2>5 DEF Duties
  <2> QED BY <2>4, <2>6 DEF DriverInv, p, e
<1>9. CASE Accepted(p, e) /\ e.report # "TX_ACK"
  <2>1. /\ Only(p, e, {"inte", "report", "irq", "parse"})
        /\ e.report = "RX_ACK" /\ e.inte = {"MAYTX", "TXPENDING"} /\ e.parse = "CRC"
    BY <1>9 DEF Accepted
  <2>2. e.on = p.on /\ e.tx = p.tx
    BY <2>1 DEF Only, Fields
  <2>3. Kinds(e) /\ Duties(e)
    BY <1>4, <2>1, <2>2 DEF Kinds, Duties, Lines
  <2>4. Only(p, e, {"parse", "report", "inte", "msg", "key", "irq"})
    BY <2>1 DEF Only
  <2> QED BY <1>5, <2>3, <2>4, ParserKeeps DEF p, e
<1> QED BY <1>6, <1>7, <1>8, <1>9

LEMMA UpdateCrcKeeps ==
  ASSUME NEW d, NEW n, NEW W, DriverInv(d, n, W), d.parse = "CRC", NEW good
  PROVE  DriverInv(UpdateCrc(d, good), n, W)
<1>1. Driver(d) /\ Kinds(d) /\ QueueInv(d, n, W) /\ Duties(d)
  BY DEF DriverInv, QueueInv
<1>2. CASE good
  <2> DEFINE c == NoteCrcSuccess(d)
             e == UpdateCrc(d, good)
  <2>1. e = [c EXCEPT !.parse = "ACK"]
    BY <1>2 DEF UpdateCrc
  <2>2. \/ c = d /\ d.report # "TX_ACK"
        \/ d.report = "TX_ACK" /\ c = IrqSet(d, {"MAYTX", "MATCHED"})
    BY DEF NoteCrcSuccess
  <2> HIDE DEF c, e
  <2>3. /\ Only(d, c, {"inte"})
        /\ \/ c.inte = d.inte /\ d.report # "TX_ACK"
           \/ c.inte = {"MAYTX", "MATCHED"}
    <3>1. CASE c = d /\ d.report # "TX_ACK"
      BY <1>1, <3>1 DEF Only
    <3>2. CASE d.report = "TX_ACK" /\ c = IrqSet(d, {"MAYTX", "MATCHED"})
      BY <1>1, <3>2, IrqSetDoes
    <3> QED BY <2>2, <3>1, <3>2
  <2>4. Only(c, e, {"parse"}) /\ e.parse = "ACK"
    BY <2>1, <2>3 DEF Only, Driver, Fields
  <2>5. Only(d, e, {"parse", "inte"})
    BY <2>3, <2>4 DEF Only
  <2>6. e.inte = c.inte /\ e.on = d.on /\ e.tx = d.tx /\ e.report = d.report /\ e.queue = d.queue
    BY <2>3, <2>4 DEF Only, Fields
  <2>7. Kinds(e)
    BY <1>1, <2>3, <2>4, <2>6 DEF Kinds, Lines
  <2>8. Duties(e)
    BY <1>1, <2>3, <2>4, <2>6 DEF Duties
  <2>9. Only(d, e, {"parse", "report", "inte", "msg", "key", "irq"})
    BY <2>5 DEF Only
  <2> QED BY <1>1, <2>7, <2>8, <2>9, ParserKeeps DEF e
<1>3. CASE ~good
  <2>1. UpdateCrc(d, good) = GoDiscard(d)
    BY <1>3 DEF UpdateCrc
  <2> QED BY <1>1, <2>1, GoDiscardKeeps
<1> QED BY <1>2, <1>3

LEMMA UpdateAckDoes ==
  ASSUME NEW d, Driver(d)
  PROVE  LET e == UpdateAck(d, TRUE)
         IN /\ Only(d, e, {"report", "parse"}) /\ e.parse = "EOF0"
            /\ e.report = CASE d.report = "RX_ACK" -> "RX_EOF"
                            [] d.report = "TX_ACK" -> "TX_EOF"
                            [] OTHER -> d.report
<1> DEFINE w == WithEofFlag(d)
           e == UpdateAck(d, TRUE)
<1>1. e = [w EXCEPT !.parse = "EOF0"]
  BY DEF UpdateAck
<1>2. /\ Only(d, w, {"report"})
      /\ w.report = CASE d.report = "RX_ACK" -> "RX_EOF"
                      [] d.report = "TX_ACK" -> "TX_EOF"
                      [] OTHER -> d.report
  BY WithEofFlagDoes
<1> HIDE DEF w, e
<1>3. Only(w, e, {"parse"}) /\ e.parse = "EOF0"
  BY <1>1, <1>2 DEF Only, Driver, Fields
<1>4. e.report = w.report
  BY <1>3 DEF Only, Fields
<1>5. Only(d, e, {"report", "parse"})
  BY <1>2, <1>3 DEF Only
<1> QED BY <1>2, <1>3, <1>4, <1>5 DEF e

LEMMA UpdateAckKeeps ==
  ASSUME NEW d, NEW n, NEW W, DriverInv(d, n, W), d.parse = "ACK", NEW good
  PROVE  DriverInv(UpdateAck(d, good), n, W)
<1>1. Driver(d) /\ Kinds(d) /\ QueueInv(d, n, W) /\ Duties(d)
  BY DEF DriverInv, QueueInv
<1>2. CASE good
  <2> DEFINE e == UpdateAck(d, TRUE)
  <2>1. UpdateAck(d, good) = e
    BY <1>2 DEF UpdateAck
  <2>2. /\ Only(d, e, {"report", "parse"}) /\ e.parse = "EOF0"
        /\ e.report = CASE d.report = "RX_ACK" -> "RX_EOF"
                        [] d.report = "TX_ACK" -> "TX_EOF"
                        [] OTHER -> d.report
    BY <1>1, UpdateAckDoes
  <2> HIDE DEF e
  <2>3. e.on = d.on /\ e.tx = d.tx /\ e.inte = d.inte /\ e.queue = d.queue
    BY <2>2 DEF Only, Fields
  <2>4. /\ e.report \in {"IDLE", "RX_ACK", "TX_ACK", "RX_EOF", "TX_EOF"}
        /\ e.report \in {"TX_ACK", "TX_EOF"} => d.report \in {"TX_ACK", "TX_EOF"}
    BY <1>1, <2>2 DEF Kinds
  <2>5. Kinds(e) /\ Duties(e)
    BY <1>1, <2>2, <2>3, <2>4 DEF Kinds, Duties
  <2>6. Only(d, e, {"parse", "report", "inte", "msg", "key", "irq"})
    BY <2>2 DEF Only
  <2> QED BY <1>1, <2>1, <2>5, <2>6, ParserKeeps
<1>3. CASE ~good
  <2>1. UpdateAck(d, good) = GoDiscard(d)
    BY <1>3 DEF UpdateAck
  <2> QED BY <1>1, <2>1, GoDiscardKeeps
<1> QED BY <1>2, <1>3

LEMMA UpdateEof0Keeps ==
  ASSUME NEW d, NEW n, NEW W, DriverInv(d, n, W), d.parse = "EOF0"
  PROVE  DriverInv(UpdateEof0(d), n, W)
<1>1. Driver(d) /\ Kinds(d) /\ QueueInv(d, n, W) /\ Duties(d)
  BY DEF DriverInv, QueueInv
<1>2. CASE d.stall
  <2>1. UpdateEof0(d) = GoDiscard(d)
    BY <1>2 DEF UpdateEof0
  <2> QED BY <1>1, <2>1, GoDiscardKeeps
<1>3. CASE ~d.stall
  <2> DEFINE e == UpdateEof0(d)
  <2>1. e = [d EXCEPT !.parse = "EOF1"]
    BY <1>3 DEF UpdateEof0
  <2> HIDE DEF e
  <2>2. Only(d, e, {"parse"}) /\ e.parse = "EOF1"
    BY <1>1, <2>1 DEF Only, Driver, Fields
  <2>3. e.on = d.on /\ e.tx = d.tx /\ e.report = d.report /\ e.inte = d.inte /\ e.queue = d.queue
    BY <2>2 DEF Only, Fields
  <2>4. Kinds(e) /\ Duties(e)
    BY <1>1, <2>2, <2>3 DEF Kinds, Duties
  <2>5. Only(d, e, {"parse", "report", "inte", "msg", "key", "irq"})
    BY <2>2 DEF Only
  <2> QED BY <1>1, <2>4, <2>5, ParserKeeps DEF e
<1> QED BY <1>2, <1>3

(* The parser ends a frame undisturbed.                                    *)
LEMMA EofSuccessKeeps ==
  ASSUME NEW d, NEW n \in Nat, NEW W, DriverInv(d, n, W)
  PROVE  LET s == EofSuccess(d)
         IN /\ QueueInv(s, n, W) /\ s.report = "IDLE"
            /\ \/ d.report = "IDLE" /\ s = d
               \/ /\ d.report # "IDLE" /\ Only(HandleEof(d), s, {"inte"})
                  /\ s.inte = {"TXPENDING"}
<1> DEFINE h == HandleEof(d)
           s == EofSuccess(d)
<1>1. QueueInv(d, n, W) /\ Duties(d) /\ Driver(d)
  BY DEF DriverInv, QueueInv
<1>2. CASE d.report = "IDLE"
  BY <1>1, <1>2 DEF EofSuccess
<1>3. CASE d.report # "IDLE"
  <2>1. s = IrqSet(h, {"TXPENDING"})
    BY <1>3 DEF EofSuccess
  <2>2. QueueInv(h, n, W)
    <3>1. d.report = "TX_EOF" => d.tx # "QUEUED" /\ d.queue # <<>>
      BY <1>1 DEF Duties
    <3> QED BY <1>1, <3>1, HandleEofKeeps
  <2>3. h.report = "IDLE"
    BY <1>1, HandleEofDoes
  <2>4. Driver(h) /\ Kinds(h)
    BY <2>2 DEF QueueInv
  <2> HIDE DEF h, s
  <2>5. Only(h, s, {"inte"}) /\ s.inte = {"TXPENDING"}
    BY <2>1, <2>4, IrqSetDoes
  <2>6. s.on = h.on /\ s.tx = h.tx /\ s.report = h.report /\ s.parse = h.parse
        /\ s.sm = h.sm /\ s.load = h.load
    BY <2>5 DEF Only, Fields
  <2>7. Kinds(s)
    BY <2>4, <2>5, <2>6 DEF Kinds, Lines
  <2>8. QueueInv(s, n, W)
    BY <2>2, <2>5, <2>6, <2>7, QueueKept DEF QueueInv
  <2> QED BY <1>3, <2>3, <2>5, <2>6, <2>8 DEF h, s
<1> QED BY <1>2, <1>3

(* The parser is ready for the next frame.                                 *)
LEMMA ReadyKeeps ==
  ASSUME NEW d, NEW n, NEW W, QueueInv(d, n, W), d.report = "IDLE"
  PROVE  DriverInv([d EXCEPT !.parse = "START"], n, W)
<1> DEFINE e == [d EXCEPT !.parse = "START"]
<1>1. Driver(d) /\ Kinds(d)
  BY DEF QueueInv
<1>2. Only(d, e, {"parse"}) /\ e.parse = "START"
  BY <1>1 DEF Only, Driver, Fields
<1> HIDE DEF e
<1>3. e.on = d.on /\ e.tx = d.tx /\ e.report = d.report /\ e.inte = d.inte
  BY <1>2 DEF Only, Fields
<1>4. Kinds(e) /\ Duties(e)
  BY <1>1, <1>2, <1>3 DEF Kinds, Duties
<1>5. Only(d, e, {"parse", "report", "inte", "msg", "key", "irq"})
  BY <1>2 DEF Only
<1> QED BY <1>4, <1>5, ParserKeeps DEF e

LEMMA UpdateEof1Keeps ==
  ASSUME NEW d, NEW n \in Nat, NEW W, DriverInv(d, n, W), NEW first
  PROVE  DriverInv(UpdateEof1(d, first), n, W)
<1> DEFINE s == EofSuccess(d)
<1>1. QueueInv(s, n, W) /\ s.report = "IDLE" /\ QueueInv(d, n, W)
  BY EofSuccessKeeps DEF DriverInv
<1>2. UpdateEof1(d, first) \in {[s EXCEPT !.parse = "START"], GoDiscard(s), GoDiscard(d)}
  BY DEF UpdateEof1
<1> HIDE DEF s
<1>3. DriverInv([s EXCEPT !.parse = "START"], n, W)
  BY <1>1, ReadyKeeps
<1>4. DriverInv(GoDiscard(s), n, W) /\ DriverInv(GoDiscard(d), n, W)
  BY <1>1, GoDiscardKeeps
<1> QED BY <1>2, <1>3, <1>4

LEMMA LinePassiveDoes ==
  ASSUME NEW d, Driver(d)
  PROVE  LET g == GoDiscard(d)
             e == LinePassive(d)
         IN Only(g, e, {"parse"}) /\ e.parse = IF d.stall THEN "DISCARD" ELSE "START"
<1> DEFINE g == GoDiscard(d)
           e == LinePassive(d)
<1>1. g.parse = "DISCARD" /\ Driver(g)
  BY GoDiscardDoes DEF Only
<1>2. e = [g EXCEPT !.parse = IF d.stall THEN @ ELSE "START"]
  BY DEF LinePassive
<1> HIDE DEF g, e
<1>3. Only(g, e, {"parse"}) /\ e.parse = IF d.stall THEN "DISCARD" ELSE "START"
  BY <1>1, <1>2 DEF Only, Driver, Fields
<1> QED BY <1>3 DEF g, e

LEMMA LinePassiveKeeps ==
  ASSUME NEW d, NEW n, NEW W, DriverInv(d, n, W)
  PROVE  DriverInv(LinePassive(d), n, W)
<1> DEFINE g == GoDiscard(d)
           e == LinePassive(d)
<1>1. DriverInv(g, n, W) /\ Driver(d)
  BY GoDiscardKeeps DEF DriverInv, QueueInv
<1>2. Only(g, e, {"parse"}) /\ e.parse \in {"DISCARD", "START"} /\ g.parse = "DISCARD"
  BY <1>1, LinePassiveDoes, GoDiscardDoes
<1> HIDE DEF g, e
<1>3. e.on = g.on /\ e.tx = g.tx /\ e.report = g.report /\ e.inte = g.inte
  BY <1>2 DEF Only, Fields
<1>4. Kinds(e) /\ Duties(e)
  BY <1>1, <1>2, <1>3 DEF DriverInv, QueueInv, Kinds, Duties
<1>5. Only(g, e, {"parse", "report", "inte", "msg", "key", "irq"})
  BY <1>2 DEF Only
<1> QED BY <1>1, <1>4, <1>5, ParserKeeps DEF DriverInv, e

(* The line was quiet for so long that the hardware is reset.              *)
LEMMA LineQuietDoes ==
  ASSUME NEW d, Driver(d)
  PROVE  LET e == LineQuiet(d)
         IN /\ Only(d, e, {"report", "slow", "key", "inte", "parse",
                           "irq", "stall", "sync", "isr", "rx", "sm"})
            /\ e.report = "IDLE" /\ e.slow = TRUE /\ e.parse = "DISCARD"
            /\ e.inte = {"MAYTX", "TXPENDING"}
            /\ e.irq = {"TXPENDING"} /\ e.stall = FALSE /\ e.key = NoKey
            /\ e.sync = "lost" /\ e.isr = <<>> /\ e.rx = <<>>
            /\ e.sm \in {"stuck", "conflict", "off"}
<1> DEFINE s == SmSetup(d)
           e == LineQuiet(d)
<1>1. /\ Only(d, s, {"irq", "stall", "key", "sync", "isr", "rx", "sm"})
      /\ s.irq = {"TXPENDING"} /\ s.stall = FALSE /\ s.key = NoKey
      /\ s.sync = "lost" /\ s.isr = <<>> /\ s.rx = <<>>
      /\ s.sm \in {"stuck", "conflict", "off"}
  BY SmSetupDoes
<1>2. e = GoDiscard(s)
  BY DEF LineQuiet
<1> HIDE DEF s
<1>3. /\ e.report = "IDLE" /\ e.slow = TRUE /\ e.parse = "DISCARD"
      /\ e.inte = {"MAYTX", "TXPENDING"}
      /\ Only(s, e, {"report", "slow", "key", "inte", "parse"})
      /\ e.key = IF s.report = "IDLE" THEN s.key ELSE NoKey
  <2>1. Driver(s)
    BY <1>1 DEF Only
  <2>2. ~s.stall
    BY <1>1
  <2>3. /\ GoDiscard(s).report = "IDLE" /\ GoDiscard(s).slow = TRUE
        /\ GoDiscard(s).parse = "DISCARD" /\ GoDiscard(s).inte = {"MAYTX", "TXPENDING"}
        /\ Only(s, GoDiscard(s), {"report", "slow", "key", "inte", "parse"})
        /\ GoDiscard(s).key = IF s.report = "IDLE" THEN s.key ELSE NoKey
    BY <2>1, <2>2, GoDiscardDoes, Zenon
  <2> QED BY <1>2, <2>3
<1> HIDE DEF e
<1>4. Only(d, e, {"report", "slow", "key", "inte", "parse",
                  "irq", "stall", "sync", "isr", "rx", "sm"})
  BY <1>1, <1>3 DEF Only
<1>5. e.irq = s.irq /\ e.stall = s.stall /\ e.sync = s.sync /\ e.isr = s.isr
      /\ e.rx = s.rx /\ e.sm = s.sm
  BY <1>3 DEF Only, Fields
<1> QED BY <1>1, <1>3, <1>4, <1>5 DEF e

LEMMA LineQuietKeeps ==
  ASSUME NEW d, NEW n, NEW W, DriverInv(d, n, W)
  PROVE  DriverInv(LineQuiet(d), n, W)
<1> DEFINE e == LineQuiet(d)
           S == {"report", "slow", "key", "inte", "parse",
                 "irq", "stall", "sync", "isr", "rx", "sm"}
<1>1. QueueInv(d, n, W) /\ Kinds(d) /\ Driver(d)
  BY DEF DriverInv, QueueInv
<1>2. /\ Only(d, e, S) /\ e.report = "IDLE" /\ e.parse = "DISCARD"
      /\ e.inte = {"MAYTX", "TXPENDING"} /\ e.sm # "send"
  BY <1>1, LineQuietDoes
<1> HIDE DEF e
<1>3. e.on = d.on /\ e.tx = d.tx
  BY <1>2 DEF Only, Fields
<1>4. Kinds(e) /\ Duties(e)
  BY <1>1, <1>2, <1>3 DEF Kinds, Duties, Lines
<1>5. QueueInv(e, n, W)
  BY <1>1, <1>2, <1>3, <1>4, QueueKept DEF QueueInv
<1> QED BY <1>4, <1>5 DEF DriverInv, e

(* What the parser does with a field.                                      *)
Parses(d, f, e) ==
  \/ f.is = "part" /\ e = d
  \/ f.is = "passive" /\ e = LinePassive(d)
  \/ f.is = "quiet" /\ e = LineQuiet(d)
  \/ f.is = "sof" /\ d.parse = "START" /\ e = MessageStart(d)
  \/ f.is = "header" /\ d.parse = "HEADER" /\ e = GoCrc(Parsed(d, f.frame))
  \/ f.is = "crc" /\ d.parse = "CRC" /\ e = UpdateCrc(d, f.good)
  \/ f.is = "ack" /\ d.parse = "ACK" /\ e = UpdateAck(d, f.good)
  \/ f.is = "eof0" /\ d.parse = "EOF0" /\ e = UpdateEof0(d)
  \/ f.is = "eof1" /\ d.parse = "EOF1" /\ e = UpdateEof1(d, f.first)
  \/ f.is = "eof1" /\ d.parse = "DISCARD" /\ f.first = "none" /\ e = LinePassive(d)
  \/ /\ f.is \notin {"part", "passive", "quiet"}
     /\ f.is = "sof" => d.parse # "START"
     /\ f.is = "header" => d.parse # "HEADER"
     /\ f.is = "crc" => d.parse # "CRC"
     /\ f.is = "ack" => d.parse # "ACK"
     /\ f.is = "eof0" => d.parse # "EOF0"
     /\ f.is = "eof1" => d.parse # "EOF1" /\ ~(d.parse = "DISCARD" /\ f.first = "none")
     /\ e = GoDiscard(d)

LEMMA ProcessRxDoes ==
  ASSUME NEW d, NEW f PROVE Parses(d, f, ProcessRx(d, f))
BY DEF ProcessRx, Parses

LEMMA ProcessRxKeeps ==
  ASSUME NEW d, NEW n \in Nat, NEW W, DriverInv(d, n, W), NEW f
  PROVE  DriverInv(ProcessRx(d, f), n, W)
<1> DEFINE e == ProcessRx(d, f)
<1>1. Parses(d, f, e)
  BY ProcessRxDoes
<1> HIDE DEF e
<1>2. QueueInv(d, n, W)
  BY DEF DriverInv
<1>3. DriverInv(GoDiscard(d), n, W) /\ DriverInv(LinePassive(d), n, W)
      /\ DriverInv(LineQuiet(d), n, W)
  BY <1>2, GoDiscardKeeps, LinePassiveKeeps, LineQuietKeeps
<1>4. d.parse = "START" => DriverInv(MessageStart(d), n, W)
  BY MessageStartKeeps
<1>5. d.parse = "HEADER" => DriverInv(GoCrc(Parsed(d, f.frame)), n, W)
  BY GoCrcKeeps
<1>6. d.parse = "CRC" => DriverInv(UpdateCrc(d, f.good), n, W)
  BY UpdateCrcKeeps
<1>7. d.parse = "ACK" => DriverInv(UpdateAck(d, f.good), n, W)
  BY UpdateAckKeeps
<1>8. d.parse = "EOF0" => DriverInv(UpdateEof0(d), n, W)
  BY UpdateEof0Keeps
<1>9. DriverInv(UpdateEof1(d, f.first), n, W)
  BY UpdateEof1Keeps
<1> HIDE DEF DriverInv
<1> QED BY <1>1, <1>3, <1>4, <1>5, <1>6, <1>7, <1>8, <1>9 DEF Parses, e

-----------------------------------------------------------------------------
(***************************************************************************)
(* The loop of the interrupt: u[i] is the driver after i fields.           *)
(***************************************************************************)
LEMMA Least ==
  ASSUME NEW T, T \subseteq Nat, T # {}
  PROVE  \E n \in T : \A m \in T : n <= m
<1> DEFINE R == { p \in Nat \X Nat : p[1] < p[2] }
<1>1. IsWellFoundedOn(R, Nat)
  BY NatLessThanWellFounded, Zenon DEF OpToRel
<1>2. \A x, y \in Nat : <<x, y>> \in R <=> x < y
  OBVIOUS
<1> HIDE DEF R
<1>3. PICK x \in T : \A y \in T : ~ (<<y, x>> \in R)
  BY <1>1, WFMin
<1>4. ASSUME NEW y \in T PROVE x <= y
  <2>1. x \in Nat /\ y \in Nat
    OBVIOUS
  <2>2. ~ (y < x)
    BY <1>2, <1>3, <2>1
  <2> QED BY <2>1, <2>2
<1> QED BY <1>4

LEMMA CountUp ==
  ASSUME NEW n \in Nat, NEW T, 0 \in T, \A i \in 1 .. n : i - 1 \in T => i \in T
  PROVE  \A i \in 0 .. n : i \in T
<1> DEFINE Missing == { i \in 0 .. n : i \notin T }
<1> SUFFICES ASSUME Missing # {} PROVE FALSE
  OBVIOUS
<1>1. Missing \subseteq Nat
  OBVIOUS
<1> HIDE DEF Missing
<1>2. PICK i \in Missing : \A j \in Missing : i <= j
  BY <1>1, Least
<1> USE DEF Missing
<1>3. i \in 1 .. n /\ i - 1 \in 0 .. n /\ ~ (i <= i - 1)
  OBVIOUS
<1>4. i - 1 \in T
  BY <1>2, <1>3
<1> QED BY <1>3, <1>4

(* The driver goes through the fields of s.                                *)
Runs(d, s, k, u) ==
  u = [i \in 0 .. k |-> IF i = 0 THEN d ELSE Processed(u[i - 1], s[i])]

LEMMA LoopRuns ==
  ASSUME NEW d, NEW s, NEW n \in Nat
  PROVE  \E u : Runs(d, s, n, u)
<1> DEFINE T == { k \in 0 .. n : \E u : Runs(d, s, k, u) }
<1>1. 0 \in T
  <2> DEFINE u == [i \in 0 .. 0 |-> d]
  <2>1. u = [i \in 0 .. 0 |-> IF i = 0 THEN d ELSE Processed(u[i - 1], s[i])]
    OBVIOUS
  <2>2. Runs(d, s, 0, u)
    BY <2>1 DEF Runs
  <2> QED BY <2>2
<1>2. ASSUME NEW k \in 1 .. n, k - 1 \in T PROVE k \in T
  <2>1. PICK u : Runs(d, s, k - 1, u)
    BY <1>2
  <2> DEFINE v == [i \in 0 .. k |-> IF i = k THEN Processed(u[k - 1], s[k]) ELSE u[i]]
  <2>2. \A i \in 0 .. k - 1 : u[i] = IF i = 0 THEN d ELSE Processed(u[i - 1], s[i])
    BY <2>1 DEF Runs
  <2>3. ASSUME NEW i \in 0 .. k PROVE v[i] = IF i = 0 THEN d ELSE Processed(v[i - 1], s[i])
    <3>1. CASE i = k
      <4>1. k - 1 \in 0 .. k /\ k - 1 # k /\ k \in 0 .. k /\ k # 0
        OBVIOUS
      <4>2. v[k - 1] = u[k - 1] /\ v[k] = Processed(u[k - 1], s[k])
        BY <4>1
      <4> QED BY <3>1, <4>1, <4>2
    <3>2. CASE i # k
      <4>1. i \in 0 .. k - 1 /\ v[i] = u[i]
        BY <3>2
      <4>2. CASE i = 0
        BY <2>2, <4>1, <4>2
      <4>3. CASE i # 0
        <5>1. v[i - 1] = u[i - 1]
          BY <4>1, <4>3
        <5> QED BY <2>2, <4>1, <4>3, <5>1
      <4> QED BY <4>2, <4>3
    <3> QED BY <3>1, <3>2
  <2>4. v = [i \in 0 .. k |-> v[i]]
    OBVIOUS
  <2> HIDE DEF v
  <2>5. Runs(d, s, k, v)
    BY <2>3, <2>4 DEF Runs
  <2> QED BY <2>5
<1> HIDE DEF T
<1>3. \A i \in 0 .. n : i \in T
  BY <1>1, <1>2, CountUp
<1>4. n \in T
  BY <1>3
<1> QED BY <1>4 DEF T

Flushed(d) == [d EXCEPT !.rx = <<>>]

LEMMA FlushedDoes ==
  ASSUME NEW d, Driver(d) PROVE Only(d, Flushed(d), {"rx"}) /\ Flushed(d).rx = <<>>
BY DEF Flushed, Only, Driver, Fields

(* What an interrupt for received bits comes to.                           *)
LEMMA IrqRxDataRuns ==
  ASSUME IrqRxData, IsASequence(cd.rx)
  PROVE  \E u : /\ cd' = u[Len(cd.rx)] /\ u[0] = Flushed(cd)
                /\ \A i \in 1 .. Len(cd.rx) : u[i] = Processed(u[i - 1], cd.rx[i])
<1> DEFINE d == Flushed(cd)
           s == cd.rx
           n == Len(s)
           w == CHOOSE u : Runs(d, s, n, u)
<1>1. n \in Nat
  BY DEF IsASequence
<1>2. Runs(d, s, n, w)
  BY <1>1, LoopRuns
<1>3. cd' = w[n]
  BY DEF IrqRxData, Runs, Flushed
<1> HIDE DEF d, s, n, w
<1>4. \A i \in 0 .. n : w[i] = IF i = 0 THEN d ELSE Processed(w[i - 1], s[i])
  BY <1>2 DEF Runs
<1>5. w[0] = d /\ \A i \in 1 .. n : w[i] = Processed(w[i - 1], s[i])
  BY <1>1, <1>4
<1> QED BY <1>3, <1>5 DEF d, s, n

LEMMA IrqRxDataKeeps ==
  ASSUME IrqRxData, IsASequence(cd.rx), NEW n \in Nat, NEW W, DriverInv(cd, n, W)
  PROVE  DriverInv(cd', n, W)
<1>1. PICK u : /\ cd' = u[Len(cd.rx)] /\ u[0] = Flushed(cd)
               /\ \A i \in 1 .. Len(cd.rx) : u[i] = Processed(u[i - 1], cd.rx[i])
  BY IrqRxDataRuns
<1>2. DriverInv(Flushed(cd), n, W)
  <2>1. Only(cd, Flushed(cd), {"rx"})
    BY FlushedDoes DEF DriverInv, QueueInv
  <2> DEFINE e == Flushed(cd)
  <2> HIDE DEF e
  <2>2. /\ e.on = cd.on /\ e.tx = cd.tx /\ e.report = cd.report /\ e.parse = cd.parse
        /\ e.inte = cd.inte /\ e.queue = cd.queue /\ e.sm = cd.sm /\ e.load = cd.load
    BY <2>1 DEF Only, Fields, e
  <2>3. Kinds(e) /\ Duties(e)
    BY <2>2 DEF DriverInv, QueueInv, Kinds, Duties
  <2>4. QueueInv(e, n, W)
    BY <2>1, <2>2, <2>3, QueueKept DEF DriverInv, QueueInv, e
  <2> QED BY <2>3, <2>4 DEF DriverInv, e
<1> DEFINE k == Len(cd.rx)
           T == { i \in 0 .. k : DriverInv(u[i], n, W) }
<1>3. k \in Nat
  BY DEF IsASequence
<1>4. 0 \in T
  BY <1>1, <1>2, <1>3
<1>5. ASSUME NEW i \in 1 .. k, i - 1 \in T PROVE i \in T
  <2>1. DriverInv(u[i - 1], n, W)
    BY <1>5
  <2>2. u[i] = Processed(u[i - 1], cd.rx[i])
    BY <1>1
  <2>3. DriverInv(ProcessRx(u[i - 1], cd.rx[i]), n, W)
    BY <2>1, ProcessRxKeeps
  <2>4. DriverInv(u[i], n, W)
    BY <2>1, <2>2, <2>3 DEF Processed
  <2>5. i \in 0 .. k
    BY <1>3
  <2> QED BY <2>4, <2>5
<1> HIDE DEF T
<1>6. \A i \in 0 .. k : i \in T
  BY <1>3, <1>4, <1>5, CountUp
<1>7. k \in T
  BY <1>3, <1>6
<1> QED BY <1>1, <1>7 DEF T

-----------------------------------------------------------------------------
(***************************************************************************)
(* The receiving machine gets a field.                                     *)
(***************************************************************************)
LEMMA PutDoes ==
  ASSUME NEW d, Driver(d), NEW f, NEW total
  PROVE  LET e == Put(d, f, total)
         IN /\ Only(d, e, {"isr", "held", "rx"})
            /\ \/ /\ d.sync = "lost" \/ (d.stall /\ d.rx # <<>>)
                  /\ e = d
               \/ /\ ~(d.sync = "lost" \/ (d.stall /\ d.rx # <<>>))
                  /\ \/ total < 10 /\ e.rx = d.rx /\ e.isr = Append(d.isr, f) /\ e.held = total
                     \/ /\ ~(total < 10) /\ total % 10 = 0
                        /\ e.rx = Append(d.rx \o d.isr, f) /\ e.isr = <<>> /\ e.held = 0
                     \/ /\ ~(total < 10) /\ total % 10 # 0
                        /\ e.rx = d.rx \o d.isr /\ e.isr = <<f>> /\ e.held = total % 10
<1> DEFINE e == Put(d, f, total)
           lost == d.sync = "lost" \/ (d.stall /\ d.rx # <<>>)
<1>1. CASE lost
  <2>1. e = d
    BY <1>1 DEF Put
  <2> QED BY <1>1, <2>1 DEF Only
<1>2. CASE ~lost /\ total < 10
  <2>1. e = [d EXCEPT !.isr = Append(@, f), !.held = total]
    BY <1>2 DEF Put
  <2> HIDE DEF e
  <2>2. Only(d, e, {"isr", "held", "rx"}) /\ e.rx = d.rx /\ e.isr = Append(d.isr, f) /\ e.held = total
    BY <2>1 DEF Only, Driver, Fields
  <2> QED BY <1>2, <2>2 DEF e
<1>3. CASE ~lost /\ ~(total < 10) /\ total % 10 = 0
  <2>1. e = [d EXCEPT !.rx = Append(@ \o d.isr, f), !.isr = <<>>, !.held = 0]
    BY <1>3 DEF Put
  <2> HIDE DEF e
  <2>2. Only(d, e, {"isr", "held", "rx"}) /\ e.rx = Append(d.rx \o d.isr, f) /\ e.isr = <<>> /\ e.held = 0
    BY <2>1 DEF Only, Driver, Fields
  <2> QED BY <1>3, <2>2 DEF e
<1>4. CASE ~lost /\ ~(total < 10) /\ total % 10 # 0
  <2>1. e = [d EXCEPT !.rx = @ \o d.isr, !.isr = <<f>>, !.held = total % 10]
    BY <1>4 DEF Put
  <2> HIDE DEF e
  <2>2. Only(d, e, {"isr", "held", "rx"}) /\ e.rx = d.rx \o d.isr /\ e.isr = <<f>> /\ e.held = total % 10
    BY <2>1 DEF Only, Driver, Fields
  <2> QED BY <1>4, <2>2 DEF e
<1> QED BY <1>1, <1>2, <1>3, <1>4

-----------------------------------------------------------------------------
(***************************************************************************)
(* What the interrupt does to the ring and to the receiving machine.       *)
(***************************************************************************)
Receiving(d) == d.report \in {"RX_ACK", "RX_EOF"}

(* The message is told as received, and put in the ring if there is room.  *)
Hears(d, e) ==
  /\ Receiving(d) /\ ~Receiving(e)
  /\ e.heard = Append(d.heard, d.msg)
  /\ IF Full(d)
     THEN e.bufferLost = TRUE /\ e.slots = d.slots /\ e.head = d.head
     ELSE /\ e.bufferLost = d.bufferLost /\ e.head = Next1(d.head)
          /\ e.slots = [d.slots EXCEPT ![d.head] = d.msg]

HearsNothing(d, e) ==
  /\ e.heard = d.heard /\ e.bufferLost = d.bufferLost /\ e.slots = d.slots /\ e.head = d.head

Rings(d, e) == e.tail = d.tail /\ e.on = d.on /\ (HearsNothing(d, e) \/ Hears(d, e))

(* The hardware is set up anew, and what it held is lost.                  *)
Reset(e) ==
  /\ e.sync = "lost" /\ e.rx = <<>> /\ e.isr = <<>> /\ ~e.stall
  /\ e.sm \in {"stuck", "conflict", "off"} /\ e.irq = {"TXPENDING"}
  /\ e.parse = "DISCARD" /\ e.report = "IDLE" /\ e.key = NoKey

Streams(d, e) ==
  e.sync = d.sync /\ e.rx = d.rx /\ e.isr = d.isr /\ e.stall = d.stall /\ e.held = d.held

LEMMA Unheard ==
  ASSUME NEW d, NEW e, NEW S, Only(d, e, S),
         S \cap {"heard", "bufferLost", "slots", "head", "tail", "on"} = {}
  PROVE  Rings(d, e) /\ HearsNothing(d, e) /\ e.tail = d.tail /\ e.on = d.on
BY DEF Only, Fields, Rings, HearsNothing

LEMMA Unmoved ==
  ASSUME NEW d, NEW e, NEW S, Only(d, e, S),
         S \cap {"sync", "rx", "isr", "stall", "held"} = {}
  PROVE  Streams(d, e)
BY DEF Only, Fields, Streams

LEMMA HandleEofTells ==
  ASSUME NEW d, Driver(d)
  PROVE  LET e == HandleEof(d)
         IN /\ Rings(d, e) /\ Streams(d, e) /\ e.irq = d.irq /\ e.msg = d.msg
            /\ d.report = "RX_EOF" => Hears(d, e)
            /\ d.report # "RX_EOF" => HearsNothing(d, e)
<1> DEFINE e == HandleEof(d)
<1>1. Told(d, e) /\ e.report = "IDLE"
  BY HandleEofDoes
<1> HIDE DEF e
<1>2. CASE d.report = "RX_EOF"
  <2>1. Only(d, e, {"report", "key", "slow", "heard", "bufferLost", "slots", "head"})
    BY <1>1, <1>2 DEF Told
  <2>2. e.tail = d.tail /\ e.on = d.on /\ e.irq = d.irq /\ e.msg = d.msg
    BY <2>1 DEF Only, Fields
  <2>3. Streams(d, e)
    BY <2>1, Unmoved
  <2>4. Hears(d, e)
    BY <1>1, <1>2 DEF Told, Hears, Receiving
  <2> QED BY <1>2, <2>2, <2>3, <2>4 DEF Rings, e
<1>3. CASE d.report # "RX_EOF"
  <2>1. Only(d, e, {"report", "key", "slow", "confirmed", "queue"})
    BY <1>1, <1>3 DEF Told, Only
  <2>2. e.irq = d.irq /\ e.msg = d.msg
    BY <2>1 DEF Only, Fields
  <2>3. Streams(d, e)
    BY <2>1, Unmoved
  <2>4. Rings(d, e) /\ HearsNothing(d, e)
    BY <2>1, Unheard
  <2> QED BY <1>3, <2>2, <2>3, <2>4 DEF e
<1> QED BY <1>2, <1>3

LEMMA GoDiscardStreams ==
  ASSUME NEW d, Driver(d)
  PROVE  LET e == GoDiscard(d)
         IN /\ HearsNothing(d, e) /\ e.tail = d.tail /\ e.on = d.on /\ e.report = "IDLE" /\ e.parse = "DISCARD"
            /\ e.msg = d.msg /\ e.held = d.held
            /\ \/ d.stall /\ Reset(e)
               \/ ~d.stall /\ Streams(d, e) /\ e.irq = d.irq
<1> DEFINE e == GoDiscard(d)
<1>1. /\ e.report = "IDLE" /\ e.parse = "DISCARD"
      /\ \/ d.stall /\ Only(d, e, {"report", "slow", "key", "inte", "parse", "rxLost",
                             "irq", "stall", "sync", "isr", "rx", "sm"})
            /\ e.irq = {"TXPENDING"} /\ e.stall = FALSE /\ e.key = NoKey
            /\ e.sync = "lost" /\ e.isr = <<>> /\ e.rx = <<>>
            /\ e.sm \in {"stuck", "conflict", "off"}
         \/ ~d.stall /\ Only(d, e, {"report", "slow", "key", "inte", "parse"})
  BY GoDiscardDoes
<1> HIDE DEF e
<1>2. Only(d, e, {"report", "slow", "key", "inte", "parse", "rxLost",
                  "irq", "stall", "sync", "isr", "rx", "sm"})
  BY <1>1 DEF Only
<1>3. HearsNothing(d, e) /\ e.tail = d.tail /\ e.on = d.on
  BY <1>2, Unheard
<1>4. e.msg = d.msg /\ e.held = d.held
  BY <1>2 DEF Only, Fields
<1>5. CASE d.stall
  BY <1>1, <1>3, <1>4, <1>5 DEF Reset, e
<1>6. CASE ~d.stall
  <2>1. Only(d, e, {"report", "slow", "key", "inte", "parse"})
    BY <1>1, <1>6
  <2>2. Streams(d, e)
    BY <2>1, Unmoved
  <2>3. e.irq = d.irq
    BY <2>1 DEF Only, Fields
  <2> QED BY <1>1, <1>3, <1>4, <1>6, <2>2, <2>3 DEF e
<1> QED BY <1>5, <1>6

(* Only the header sets the message; the lines that are raised are those   *)
(* of before, and TXPENDING.                                               *)
Receives(d, f, e) ==
  /\ Driver(e) /\ Rings(d, e) /\ e.held = d.held
  /\ \/ (d.stall \/ f.is = "quiet") /\ Reset(e)
     \/ Streams(d, e) /\ e.irq \subseteq d.irq \cup {"TXPENDING"}
  /\ f.is # "header" => e.msg = d.msg

LEMMA ReceivesOnly ==
  ASSUME NEW d, NEW f, NEW e,
         Only(d, e, {"tx", "report", "key", "parse", "inte", "irq", "msg"}),
         e.irq \subseteq d.irq \cup {"TXPENDING"}, f.is # "header" => e.msg = d.msg
  PROVE  Receives(d, f, e) /\ HearsNothing(d, e)
<1>1. Streams(d, e)
  BY Unmoved
<1>2. Rings(d, e) /\ HearsNothing(d, e)
  BY Unheard
<1> QED BY <1>1, <1>2 DEF Receives, Only, Streams

LEMMA ReceivesDiscard ==
  ASSUME NEW d, Driver(d), NEW f
  PROVE  Receives(d, f, GoDiscard(d))
<1> DEFINE e == GoDiscard(d)
<1>1. Driver(e)
  BY GoDiscardDoes DEF Only
<1>2. /\ HearsNothing(d, e) /\ e.tail = d.tail /\ e.on = d.on /\ e.msg = d.msg /\ e.held = d.held
      /\ \/ d.stall /\ Reset(e)
         \/ ~d.stall /\ Streams(d, e) /\ e.irq = d.irq
  BY GoDiscardStreams
<1> HIDE DEF e
<1>3. Rings(d, e)
  BY <1>2 DEF Rings
<1>4. \/ d.stall /\ Reset(e)
      \/ Streams(d, e) /\ e.irq \subseteq d.irq \cup {"TXPENDING"}
  BY <1>2
<1>5. Receives(d, f, e)
  BY <1>1, <1>2, <1>3, <1>4 DEF Receives
<1> QED BY <1>5 DEF e

LEMMA EofSuccessDoes ==
  ASSUME NEW d, Driver(d)
  PROVE  LET s == EofSuccess(d)
         IN /\ Driver(s) /\ s.report = "IDLE" /\ Rings(d, s) /\ Streams(d, s)
            /\ s.irq = d.irq /\ s.msg = d.msg /\ s.parse = d.parse
            /\ d.report = "RX_EOF" => Hears(d, s)
            /\ d.report # "RX_EOF" => HearsNothing(d, s)
<1> DEFINE h == HandleEof(d)
           s == EofSuccess(d)
<1>1. CASE d.report = "IDLE"
  <2>1. s = d
    BY <1>1 DEF EofSuccess
  <2> QED BY <1>1, <2>1 DEF Rings, Streams, HearsNothing
<1>2. CASE d.report # "IDLE"
  <2>1. s = IrqSet(h, {"TXPENDING"})
    BY <1>2 DEF EofSuccess
  <2>2. /\ Rings(d, h) /\ Streams(d, h) /\ h.irq = d.irq /\ h.msg = d.msg
        /\ d.report = "RX_EOF" => Hears(d, h)
        /\ d.report # "RX_EOF" => HearsNothing(d, h)
    BY HandleEofTells
  <2>3. h.report = "IDLE" /\ Told(d, h)
    BY HandleEofDoes
  <2>4. Driver(h) /\ h.parse = d.parse
    BY <2>3 DEF Told, Only, Fields
  <2> HIDE DEF h, s
  <2>5. Only(h, s, {"inte"})
    BY <2>1, <2>4, IrqSetDoes
  <2>6. HearsNothing(h, s) /\ s.tail = h.tail /\ s.on = h.on
    BY <2>5, Unheard
  <2>7. Streams(h, s)
    BY <2>5, Unmoved
  <2>8. s.report = h.report /\ s.irq = h.irq /\ s.msg = h.msg /\ s.parse = h.parse /\ Driver(s)
    BY <2>5 DEF Only, Fields
  <2>9. Streams(d, s)
    BY <2>2, <2>7 DEF Streams
  <2>10. /\ d.report = "RX_EOF" => Hears(d, s)
         /\ d.report # "RX_EOF" => HearsNothing(d, s)
    BY <2>2, <2>3, <2>6, <2>8 DEF Hears, HearsNothing, Receiving
  <2>11. Rings(d, s)
    BY <2>2, <2>6, <2>10 DEF Rings
  <2> QED BY <2>2, <2>3, <2>4, <2>8, <2>9, <2>10, <2>11 DEF s
<1> QED BY <1>1, <1>2

LEMMA UpdateEof1Receives ==
  ASSUME NEW d, Driver(d), NEW f, NEW first, f.is # "header"
  PROVE  Receives(d, f, UpdateEof1(d, first))
<1> DEFINE s == EofSuccess(d)
           e == UpdateEof1(d, first)
           g == GoDiscard(s)
           r == [s EXCEPT !.parse = "START"]
<1>1. Driver(s) /\ s.report = "IDLE" /\ Rings(d, s) /\ Streams(d, s) /\ s.irq = d.irq /\ s.msg = d.msg
  BY EofSuccessDoes
<1>2. e \in {r, g, GoDiscard(d)}
  BY DEF UpdateEof1
<1> HIDE DEF s, e
<1>3. Receives(d, f, r)
  <2>1. Only(s, r, {"parse"})
    BY <1>1 DEF Only, Driver, Fields
  <2> HIDE DEF r
  <2>2. HearsNothing(s, r) /\ r.tail = s.tail /\ r.on = s.on
    BY <2>1, Unheard
  <2>3. Streams(s, r)
    BY <2>1, Unmoved
  <2>4. r.irq = s.irq /\ r.msg = s.msg /\ Driver(r) /\ r.report = s.report
    BY <2>1 DEF Only, Fields
  <2>5. Streams(d, r)
    BY <1>1, <2>3 DEF Streams
  <2>6. Rings(d, r)
    BY <1>1, <2>2, <2>4 DEF Rings, Hears, HearsNothing, Receiving
  <2> QED BY <1>1, <2>4, <2>5, <2>6 DEF Receives, Streams
<1>4. Receives(d, f, g)
  <2>1. Driver(g)
    BY <1>1, GoDiscardDoes DEF Only
  <2>2. /\ HearsNothing(s, g) /\ g.tail = s.tail /\ g.on = s.on /\ g.report = "IDLE"
        /\ g.msg = s.msg /\ g.held = s.held
        /\ \/ s.stall /\ Reset(g)
           \/ ~s.stall /\ Streams(s, g) /\ g.irq = s.irq
    BY <1>1, GoDiscardStreams
  <2> HIDE DEF g
  <2>3. Rings(d, g)
    BY <1>1, <2>2 DEF Rings, Hears, HearsNothing, Receiving
  <2>4. \/ d.stall /\ Reset(g)
        \/ Streams(d, g) /\ g.irq = d.irq
    BY <1>1, <2>2 DEF Streams
  <2>5. g.held = d.held
    BY <1>1, <2>2 DEF Streams
  <2> QED BY <1>1, <2>1, <2>2, <2>3, <2>4, <2>5 DEF Receives
<1>5. Receives(d, f, GoDiscard(d))
  BY ReceivesDiscard
<1> QED BY <1>2, <1>3, <1>4, <1>5 DEF e

LEMMA ProcessRxReceives ==
  ASSUME NEW d, Driver(d), NEW f
  PROVE  Receives(d, f, ProcessRx(d, f))
<1> DEFINE e == ProcessRx(d, f)
<1>1. Parses(d, f, e)
  BY ProcessRxDoes
<1> HIDE DEF e
<1>2. Receives(d, f, GoDiscard(d))
  BY ReceivesDiscard
<1>3. CASE e = d
  <2>1. Only(d, e, {"tx", "report", "key", "parse", "inte", "irq", "msg"})
    BY <1>3 DEF Only
  <2> QED BY <1>3, <2>1, ReceivesOnly DEF e
<1>4. CASE e = LinePassive(d)
  <2> DEFINE g == GoDiscard(d)
  <2>1. Only(g, e, {"parse"}) /\ e.parse = IF d.stall THEN "DISCARD" ELSE "START"
    BY <1>4, LinePassiveDoes
  <2>2. /\ HearsNothing(d, g) /\ g.tail = d.tail /\ g.on = d.on /\ g.msg = d.msg
        /\ g.held = d.held
        /\ \/ d.stall /\ Reset(g)
           \/ ~d.stall /\ Streams(d, g) /\ g.irq = d.irq
    BY GoDiscardStreams
  <2> HIDE DEF g
  <2>3. HearsNothing(g, e) /\ e.tail = g.tail /\ e.on = g.on
    BY <2>1, Unheard
  <2>4. Streams(g, e)
    BY <2>1, Unmoved
  <2>5. Driver(e) /\ e.msg = g.msg /\ e.irq = g.irq /\ e.held = g.held /\ e.sm = g.sm
        /\ e.report = g.report /\ e.key = g.key
    BY <2>1 DEF Only, Fields
  <2>6. Rings(d, e)
    BY <2>2, <2>3 DEF Rings, HearsNothing
  <2>7. \/ d.stall /\ Reset(e)
        \/ Streams(d, e) /\ e.irq \subseteq d.irq \cup {"TXPENDING"}
    BY <2>1, <2>2, <2>4, <2>5 DEF Reset, Streams
  <2>8. Receives(d, f, e)
    BY <2>2, <2>5, <2>6, <2>7 DEF Receives
  <2> QED BY <2>8 DEF e
<1>12. CASE f.is = "quiet" /\ e = LineQuiet(d)
  <2>1. /\ Only(d, e, {"report", "slow", "key", "inte", "parse",
                       "irq", "stall", "sync", "isr", "rx", "sm"})
        /\ Reset(e)
    BY <1>12, LineQuietDoes DEF Reset
  <2>2. Rings(d, e)
    BY <2>1, Unheard
  <2>3. Driver(e) /\ e.msg = d.msg /\ e.held = d.held
    BY <2>1 DEF Only, Fields
  <2>4. Receives(d, f, e)
    BY <1>12, <2>1, <2>2, <2>3 DEF Receives
  <2> QED BY <2>4 DEF e
<1>5. CASE e = MessageStart(d)
  <2>1. Only(d, e, {"parse", "inte"}) /\ e.irq = d.irq /\ e.msg = d.msg
    BY <1>5 DEF MessageStart, IrqSet, Only, Driver, Fields
  <2>2. Only(d, e, {"tx", "report", "key", "parse", "inte", "irq", "msg"})
    BY <2>1 DEF Only
  <2> QED BY <2>1, <2>2, ReceivesOnly DEF e
<1>6. CASE f.is = "header" /\ e = GoCrc(Parsed(d, f.frame))
  <2> DEFINE p == Parsed(d, f.frame)
  <2>1. Only(d, p, {"msg"})
    BY ParsedDoes
  <2>2. Driver(p)
    BY <2>1 DEF Only
  <2>3. p.irq = d.irq /\ p.stall = d.stall
    BY <2>1 DEF Only, Fields
  <2>4. e = GoDiscard(p) \/ Accepted(p, e)
    BY <1>6, <2>2, GoCrcDoes
  <2> HIDE DEF p
  <2>5. CASE Accepted(p, e)
    <3>1. Only(p, e, {"tx", "report", "key", "parse", "inte", "irq", "msg"})
      BY <2>5 DEF Accepted, Only
    <3>2. e.irq \subseteq d.irq \cup {"TXPENDING"}
      <4>1. e.irq = p.irq \/ e.irq = p.irq \cup {"TXPENDING"}
        BY <2>5 DEF Accepted, Only, Fields
      <4> QED BY <2>3, <4>1
    <3>3. Only(d, e, {"tx", "report", "key", "parse", "inte", "irq", "msg"})
      BY <2>1, <3>1 DEF Only
    <3> QED BY <1>6, <3>2, <3>3, ReceivesOnly DEF e
  <2>6. CASE e = GoDiscard(p)
    <3>1. Receives(p, f, e)
      BY <2>2, <2>6, ReceivesDiscard
    <3>2. HearsNothing(d, p) /\ p.tail = d.tail /\ p.on = d.on
      BY <2>1, Unheard
    <3>3. HearsNothing(p, e) /\ e.tail = p.tail /\ e.on = p.on
      BY <2>2, <2>6, GoDiscardStreams
    <3>4. Streams(d, p)
      BY <2>1, Unmoved
    <3>5. Rings(d, e)
      BY <3>2, <3>3 DEF Rings, HearsNothing
    <3>6. /\ e.held = d.held
          /\ \/ (d.stall \/ f.is = "quiet") /\ Reset(e)
             \/ Streams(d, e) /\ e.irq \subseteq d.irq \cup {"TXPENDING"}
      BY <2>3, <3>1, <3>4 DEF Receives, Streams
    <3> QED BY <1>6, <3>1, <3>5, <3>6 DEF Receives, e
  <2> QED BY <2>4, <2>5, <2>6
<1>7. CASE f.is # "header" /\ e = UpdateCrc(d, f.good)
  <2>1. CASE f.good
    <3> DEFINE c == NoteCrcSuccess(d)
    <3>1. e = [c EXCEPT !.parse = "ACK"]
      BY <1>7, <2>1 DEF UpdateCrc
    <3>2. Only(d, c, {"inte"})
      <4>1. c = d \/ c = IrqSet(d, {"MAYTX", "MATCHED"})
        BY DEF NoteCrcSuccess
      <4>2. Only(d, d, {"inte"}) /\ Only(d, IrqSet(d, {"MAYTX", "MATCHED"}), {"inte"})
        BY IrqSetDoes DEF Only
      <4> QED BY <4>1, <4>2
    <3> HIDE DEF c
    <3>3. Only(c, e, {"parse"})
      BY <3>1, <3>2 DEF Only, Driver, Fields
    <3>4. Only(d, e, {"tx", "report", "key", "parse", "inte", "irq", "msg"})
      BY <3>2, <3>3 DEF Only
    <3>5. e.irq = d.irq /\ e.msg = d.msg
      BY <3>2, <3>3 DEF Only, Fields
    <3> QED BY <3>4, <3>5, ReceivesOnly DEF e
  <2>2. CASE ~f.good
    <3>1. e = GoDiscard(d)
      BY <1>7, <2>2 DEF UpdateCrc
    <3> QED BY <1>2, <3>1 DEF e
  <2> QED BY <2>1, <2>2
<1>8. CASE f.is # "header" /\ e = UpdateAck(d, f.good)
  <2>1. CASE f.good
    <3> DEFINE a == UpdateAck(d, TRUE)
    <3>1. e = a
      BY <1>8, <2>1 DEF UpdateAck
    <3>2. Only(d, a, {"report", "parse"})
      BY UpdateAckDoes
    <3> HIDE DEF a
    <3>3. Only(d, e, {"tx", "report", "key", "parse", "inte", "irq", "msg"})
      BY <3>1, <3>2 DEF Only
    <3>4. e.irq = d.irq /\ e.msg = d.msg
      BY <3>1, <3>2 DEF Only, Fields
    <3> QED BY <3>3, <3>4, ReceivesOnly DEF e
  <2>2. CASE ~f.good
    <3>1. e = GoDiscard(d)
      BY <1>8, <2>2 DEF UpdateAck
    <3> QED BY <1>2, <3>1 DEF e
  <2> QED BY <2>1, <2>2
<1>9. CASE e = UpdateEof0(d)
  <2>1. CASE d.stall
    <3>1. e = GoDiscard(d)
      BY <1>9, <2>1 DEF UpdateEof0
    <3> QED BY <1>2, <3>1 DEF e
  <2>2. CASE ~d.stall
    <3>1. e = [d EXCEPT !.parse = "EOF1"]
      BY <1>9, <2>2 DEF UpdateEof0
    <3>2. Only(d, e, {"parse"}) /\ e.irq = d.irq /\ e.msg = d.msg
      BY <3>1 DEF Only, Driver, Fields
    <3>3. Only(d, e, {"tx", "report", "key", "parse", "inte", "irq", "msg"})
      BY <3>2 DEF Only
    <3> QED BY <3>2, <3>3, ReceivesOnly DEF e
  <2> QED BY <2>1, <2>2
<1>10. CASE f.is # "header" /\ e = UpdateEof1(d, f.first)
  BY <1>10, UpdateEof1Receives DEF e
<1>11. CASE e = GoDiscard(d)
  BY <1>2, <1>11 DEF e
<1> QED BY <1>1, <1>3, <1>4, <1>5, <1>6, <1>7, <1>8, <1>9, <1>10, <1>11, <1>12 DEF Parses, e

-----------------------------------------------------------------------------
(***************************************************************************)
(* Steps: the lines of the interrupt.                                      *)
(***************************************************************************)
(* One line is handled.                                                    *)
Handled(l, d, e) ==
  \/ l = "ACKDONE" /\ e = LineAckDone(d)
  \/ l = "MATCHED" /\ e = LineMatched(d)
  \/ l = "MAYTX" /\ e = LineMayTx(d)
  \/ l = "TXPENDING" /\ e = LineTxPending(d)

IrqLine(l) ==
  /\ cd.on /\ cd.rx = <<>> /\ l \in cd.irq /\ l \in cd.inte
  /\ Handled(l, cd, cd') /\ Untouched

LEMMA IrqIs ==
  ASSUME Irq PROVE IrqRxData \/ \E l \in Lines : IrqLine(l)
<1>1. CASE IrqAckDone
  <2>1. IrqLine("ACKDONE")
    BY <1>1 DEF IrqAckDone, Line, IrqLine, Handled
  <2> QED BY <2>1 DEF Lines
<1>2. CASE IrqMatched
  <2>1. IrqLine("MATCHED")
    BY <1>2 DEF IrqMatched, Line, IrqLine, Handled
  <2> QED BY <2>1 DEF Lines
<1>3. CASE IrqMayTx
  <2>1. IrqLine("MAYTX")
    BY <1>3 DEF IrqMayTx, Line, IrqLine, Handled
  <2> QED BY <2>1 DEF Lines
<1>4. CASE IrqTxPending
  <2>1. IrqLine("TXPENDING")
    BY <1>4 DEF IrqTxPending, Line, IrqLine, Handled
  <2> QED BY <2>1 DEF Lines
<1> QED BY <1>1, <1>2, <1>3, <1>4 DEF Irq

LEMMA HandledKeeps ==
  ASSUME NEW d, NEW e, NEW n \in Nat, NEW W, NEW l, DriverInv(d, n, W), d.on,
         l \in d.inte, Handled(l, d, e)
  PROVE  DriverInv(e, n, W)
<1>1. "ACKDONE" \in d.inte => DriverInv(LineAckDone(d), n, W)
  BY LineAckDoneKeeps
<1>2. DriverInv(LineMatched(d), n, W) /\ DriverInv(LineMayTx(d), n, W)
  BY LineMatchedKeeps, LineMayTxKeeps
<1>3. "TXPENDING" \in d.inte => DriverInv(LineTxPending(d), n, W)
  BY LineTxPendingKeeps
<1> HIDE DEF DriverInv
<1> QED BY <1>1, <1>2, <1>3 DEF Handled

(* What a line leaves alone, and what it tells.                            *)
Line1(d, e) ==
  /\ Driver(e) /\ Rings(d, e) /\ Streams(d, e)
  /\ e.msg = d.msg /\ e.parse = d.parse /\ e.irq \subseteq d.irq

LEMMA Scheduled ==
  ASSUME NEW d, NEW h, NEW lines, Line1(d, h), Receiving(h) => Receiving(d)
  PROVE  LET s == TxSchedule(h) IN Line1(d, IrqSet(s, lines \cup CheckTxPending(s)))
<1> DEFINE s == TxSchedule(h)
           watched == lines \cup CheckTxPending(s)
           e == IrqSet(s, watched)
<1>1. /\ Only(h, s, {"tx", "irq", "sm", "load"})
      /\ \/ s = h
         \/ s.irq = h.irq \ {"TXPENDING"}
         \/ s.irq = h.irq \ {"MATCHED", "ACKDONE"}
  BY TxScheduleDoes DEF Line1
<1>2. s.irq \subseteq h.irq
  BY <1>1
<1>3. Only(s, e, {"inte"})
  <2>1. Driver(s)
    BY <1>1 DEF Only
  <2> QED BY <2>1, IrqSetDoes
<1> HIDE DEF e, s
<1>4. Only(h, e, {"tx", "irq", "sm", "load", "inte"})
  BY <1>1, <1>3 DEF Only
<1>5. e.irq = s.irq /\ e.msg = h.msg /\ e.parse = h.parse /\ e.report = h.report /\ Driver(e)
  BY <1>3, <1>4 DEF Only, Fields
<1>6. HearsNothing(h, e) /\ e.tail = h.tail /\ e.on = h.on
  BY <1>4, Unheard
<1>7. Streams(h, e)
  BY <1>4, Unmoved
<1>8. Rings(d, e)
  BY <1>5, <1>6 DEF Line1, Rings, Hears, HearsNothing, Receiving
<1>9. Streams(d, e)
  BY <1>7 DEF Line1, Streams
<1>10. e.irq \subseteq d.irq /\ e.msg = d.msg /\ e.parse = d.parse
  BY <1>2, <1>5 DEF Line1
<1>11. Line1(d, e)
  BY <1>5, <1>8, <1>9, <1>10 DEF Line1
<1> QED BY <1>11 DEF e, s

LEMMA LineSelf ==
  ASSUME NEW d, NEW e, NEW S, Only(d, e, S),
         S \cap {"heard", "bufferLost", "slots", "head", "tail", "on", "sync", "rx", "isr", "stall",
                 "held", "msg", "parse"} = {},
         e.irq \subseteq d.irq
  PROVE  Line1(d, e) /\ HearsNothing(d, e)
<1>1. Rings(d, e) /\ HearsNothing(d, e)
  BY Unheard
<1>2. Streams(d, e)
  BY Unmoved
<1>3. e.msg = d.msg /\ e.parse = d.parse /\ Driver(e)
  BY DEF Only, Fields
<1> QED BY <1>1, <1>2, <1>3 DEF Line1

(* The end of a frame, after any change of what is to be reported that     *)
(* does not begin to receive.                                              *)
LEMMA EndedTells ==
  ASSUME NEW d, NEW f, Only(d, f, {"report"}), Receiving(f) => Receiving(d)
  PROVE  LET s == TxSchedule(IF f.report = "IDLE" THEN f ELSE HandleEof(f))
         IN Line1(d, IrqSet(s, CheckTxPending(s)))
<1> DEFINE h == IF f.report = "IDLE" THEN f ELSE HandleEof(f)
<1>1. Driver(f) /\ f.irq = d.irq /\ f.msg = d.msg
  BY DEF Only, Fields
<1>2. Line1(d, f)
  BY <1>1, LineSelf
<1>3. Line1(d, h) /\ ~Receiving(h)
  <2>1. CASE f.report = "IDLE"
    BY <1>2, <2>1 DEF Receiving
  <2>2. CASE f.report # "IDLE"
    <3>1. /\ Rings(f, h) /\ Streams(f, h) /\ h.irq = f.irq /\ h.msg = f.msg
          /\ f.report = "RX_EOF" => Hears(f, h)
          /\ f.report # "RX_EOF" => HearsNothing(f, h)
      BY <1>1, <2>2, HandleEofTells
    <3>2. h.report = "IDLE" /\ Told(f, h)
      BY <1>1, <2>2, HandleEofDoes
    <3>3. Driver(h) /\ h.parse = f.parse
      BY <3>2 DEF Told, Only, Fields
    <3> HIDE DEF h
    <3>4. HearsNothing(d, f) /\ f.tail = d.tail /\ f.on = d.on
      BY Unheard
    <3>5. Hears(f, h) => Hears(d, h)
      BY <1>1, <3>4 DEF Hears, HearsNothing, Receiving, Full
    <3>6. Rings(d, h)
      BY <3>1, <3>4, <3>5 DEF Rings, HearsNothing
    <3>7. Streams(d, h)
      BY <1>2, <3>1 DEF Line1, Streams
    <3>8. h.irq \subseteq d.irq /\ h.msg = d.msg /\ h.parse = d.parse
      BY <1>2, <3>1, <3>3 DEF Line1
    <3> QED BY <3>2, <3>3, <3>6, <3>7, <3>8 DEF Line1, Receiving
  <2> QED BY <2>1, <2>2
<1> HIDE DEF h
<1>4. LET s == TxSchedule(h) IN Line1(d, IrqSet(s, {} \cup CheckTxPending(s)))
  BY <1>3, Scheduled
<1>5. {} \cup CheckTxPending(TxSchedule(h)) = CheckTxPending(TxSchedule(h))
  OBVIOUS
<1> QED BY <1>4, <1>5 DEF h

LEMMA HandledTells ==
  ASSUME NEW d, NEW e, NEW l, Driver(d), Handled(l, d, e)
  PROVE  Line1(d, e)
<1>1. CASE e = LineAckDone(d)
  <2> DEFINE m == Match(d, Key("rxeof", d.msg))
  <2>1. Only(d, m, {"key"})
    BY MatchDoes
  <2>2. e = LET s == TxSchedule(m) IN IrqSet(s, {"MAYTX", "MATCHED"} \cup CheckTxPending(s))
    BY <1>1 DEF LineAckDone
  <2> HIDE DEF m
  <2>3. m.report = d.report /\ m.irq = d.irq
    BY <2>1 DEF Only, Fields
  <2>4. Line1(d, m) /\ (Receiving(m) => Receiving(d))
    BY <2>1, <2>3, LineSelf DEF Receiving
  <2>5. LET s == TxSchedule(m) IN Line1(d, IrqSet(s, {"MAYTX", "MATCHED"} \cup CheckTxPending(s)))
    BY <2>4, Scheduled
  <2> QED BY <2>2, <2>5
<1>2. CASE e = LineMatched(d)
  <2> DEFINE f == IF d.report = "IDLE" THEN d ELSE WithEofFlag(d)
  <2>1. /\ Only(d, WithEofFlag(d), {"report"})
        /\ WithEofFlag(d).report = CASE d.report = "RX_ACK" -> "RX_EOF"
                                     [] d.report = "TX_ACK" -> "TX_EOF"
                                     [] OTHER -> d.report
    BY WithEofFlagDoes
  <2>2. /\ Only(d, f, {"report"}) /\ (Receiving(f) => Receiving(d))
        /\ f.report = "IDLE" <=> d.report = "IDLE"
    <3>1. CASE d.report = "IDLE"
      BY <3>1 DEF Only
    <3>2. CASE d.report = "RX_ACK"
      BY <2>1, <3>2 DEF Receiving
    <3>3. CASE d.report = "TX_ACK"
      BY <2>1, <3>3 DEF Receiving
    <3>4. CASE d.report \notin {"IDLE", "RX_ACK", "TX_ACK"}
      BY <2>1, <3>4 DEF Receiving
    <3> QED BY <3>1, <3>2, <3>3, <3>4
  <2>3. e = LET s == TxSchedule(IF f.report = "IDLE" THEN f ELSE HandleEof(f))
            IN IrqSet(s, CheckTxPending(s))
    <3>1. CASE d.report = "IDLE"
      BY <1>2, <3>1 DEF LineMatched
    <3>2. CASE d.report # "IDLE"
      <4>1. f = WithEofFlag(d) /\ f.report # "IDLE"
        BY <2>2, <3>2
      <4> HIDE DEF f
      <4> QED BY <1>2, <3>2, <4>1 DEF LineMatched
    <3> QED BY <3>1, <3>2
  <2> HIDE DEF f
  <2>4. LET s == TxSchedule(IF f.report = "IDLE" THEN f ELSE HandleEof(f))
        IN Line1(d, IrqSet(s, CheckTxPending(s)))
    BY <2>2, EndedTells
  <2> QED BY <2>3, <2>4
<1>3. CASE e = LineMayTx(d)
  <2>1. Only(d, d, {"report"})
    BY DEF Only
  <2>2. LET s == TxSchedule(IF d.report = "IDLE" THEN d ELSE HandleEof(d))
        IN Line1(d, IrqSet(s, CheckTxPending(s)))
    BY <2>1, EndedTells
  <2> QED BY <1>3, <2>2 DEF LineMayTx
<1>4. CASE e = LineTxPending(d)
  <2>1. CASE d.inte = {"MAYTX", "TXPENDING"} /\ d.report = "RX_ACK"
    <3> DEFINE a == [d EXCEPT !.tx = "ACKING_RX"]
               i == InjectAck(a)
    <3>1. e = IrqSet(i, {"MAYTX", "ACKDONE"})
      BY <1>4, <2>1 DEF LineTxPending
    <3>2. Only(d, a, {"tx"})
      BY DEF Only, Driver, Fields
    <3> HIDE DEF a
    <3>3. Only(a, i, {"irq", "key", "sm"}) /\ i.irq = a.irq \ {"MATCHED", "ACKDONE"}
      BY <3>2, InjectAckDoes DEF Only
    <3> HIDE DEF i
    <3>4. Only(i, e, {"inte"})
      BY <3>1, <3>3, IrqSetDoes DEF Only
    <3>5. Only(d, e, {"tx", "irq", "key", "sm", "inte"})
      BY <3>2, <3>3, <3>4 DEF Only
    <3>6. e.irq = i.irq /\ a.irq = d.irq
      BY <3>2, <3>4 DEF Only, Fields
    <3>7. e.irq \subseteq d.irq
      BY <3>3, <3>6
    <3> QED BY <3>5, <3>7, LineSelf
  <2>2. CASE ~(d.inte = {"MAYTX", "TXPENDING"} /\ d.report = "RX_ACK")
    <3>1. e = LET s == TxSchedule(d) IN IrqSet(s, (d.inte \ {"TXPENDING"}) \cup CheckTxPending(s))
      BY <1>4, <2>2 DEF LineTxPending
    <3>2. Only(d, d, {"report"})
      BY DEF Only
    <3>3. Line1(d, d)
      BY <3>2, LineSelf
    <3>4. LET s == TxSchedule(d) IN Line1(d, IrqSet(s, (d.inte \ {"TXPENDING"}) \cup CheckTxPending(s)))
      BY <3>3, Scheduled
    <3> QED BY <3>1, <3>4
  <2> QED BY <2>1, <2>2
<1> QED BY <1>1, <1>2, <1>3, <1>4 DEF Handled

-----------------------------------------------------------------------------
(***************************************************************************)
(* Steps: the bus.                                                         *)
(***************************************************************************)
LEMMA EmitIs ==
  ASSUME NEW d, NEW f PROVE Emit(d, f) = Put(d, f, d.held + Bits(f))
BY DEF Emit

(* A field of a frame passes: the transmitter may react, the receiving     *)
(* machine gets the field.                                                 *)
Passing(c, f, total) ==
  /\ Only(cd, c, {"sm", "irq"}) /\ cd' = Put(c, f, total)
  /\ c.irq \subseteq cd.irq \cup {"MATCHED", "ACKDONE"}
  /\ c.sm = cd.sm \/ c.sm \in {"sent", "acking", "acked", "conflict"}

(* Where the bus goes: on in the same frame, or free at its end.           *)
Going ==
  \/ bus' = Free /\ bus.at \in {"pause", "delimiter"}
  \/ /\ bus'.own = bus.own /\ bus'.n = bus.n /\ bus'.same = bus.same
     /\ bus'.at \in {"check", "crc", "ack", "eof0", "bit5", "bit7", "pause", "flag", "delimiter"}

BusFields == {"own", "n", "same", "clean", "at"}

At == {"header", "check", "crc", "ack", "eof0", "bit5", "bit7", "pause", "flag", "delimiter"}

(* The bus is free, or has a frame on it.                                  *)
BusOK ==
  \/ bus = Free
  \/ /\ DOMAIN bus = BusFields /\ bus.at \in At
     /\ bus.own \in BOOLEAN /\ bus.same \in BOOLEAN /\ bus.clean \in BOOLEAN

LEMMA FreeAt == Free.at = "free"
BY DEF Free

LEMMA Advanced ==
  ASSUME BusOK, bus # Free, NEW at \in At, Advance(at)
  PROVE  /\ DOMAIN bus' = BusFields /\ bus'.at = at
         /\ bus'.own = bus.own /\ bus'.n = bus.n /\ bus'.same = bus.same
         /\ bus'.clean = bus.clean
BY DEF BusOK, Advance, BusFields

(* Bits that are received without a header among them.                     *)
PlainField ==
  \E c, f, total :
    /\ Passing(c, f, total) /\ Going /\ f.is # "header"
    /\ cd.held \in Nat => total \in Nat /\ total >= 1
    /\ cd.held \in Nat /\ cd.held >= 1 /\ bus.at \in {"check", "delimiter"}
         => total >= 10 \/ bus'.at \in {"check", "delimiter"}

LEMMA SameDriver ==
  ASSUME NEW d, Driver(d)
  PROVE  Only(d, d, {"sm", "irq"}) /\ Only(d, d, {})
BY DEF Only

LEMMA MatchedDoes ==
  ASSUME NEW d, Driver(d), NEW end
  PROVE  LET e == Matched(d, end)
         IN /\ Only(d, e, {"sm", "irq"})
            /\ \/ e = d /\ d.key # Key(end, Name(bus))
               \/ /\ d.key = Key(end, Name(bus)) /\ d.sm = "inject"
                  /\ e.sm = "acking" /\ e.irq = d.irq
               \/ /\ d.key = Key(end, Name(bus)) /\ d.sm # "inject"
                  /\ e.sm = d.sm /\ e.irq = d.irq \cup {"MATCHED"}
BY DEF Matched, Only, Driver, Fields

LEMMA BitsAre ==
  /\ Bits(Sof) = 1 /\ Bits(Eof0) = 4 /\ Bits(Flag) = 6
  /\ \A g : Bits(Crc(g)) = 7 /\ Bits(Ack(g)) = 2 /\ Bits(Eof1(g)) = 2
  /\ \A n : Bits(Part(n)) = n /\ Bits(Passive(n)) = n
<1>1. Bits(Sof) = 1 /\ Bits(Eof0) = 4 /\ Bits(Flag) = 6
  BY DEF Bits, Sof, Eof0, Flag
<1>2. \A g : Bits(Crc(g)) = 7
  BY DEF Bits, Crc
<1>3. \A g : Bits(Ack(g)) = 2
  BY DEF Bits, Ack
<1>4. \A g : Bits(Eof1(g)) = 2
  BY DEF Bits, Eof1
<1>5. \A n : Bits(Part(n)) = n
  BY DEF Bits, Part
<1>6. \A n : Bits(Passive(n)) = n
  BY DEF Bits, Passive
<1> QED BY <1>1, <1>2, <1>3, <1>4, <1>5, <1>6

LEMMA FieldKinds ==
  /\ Sof.is = "sof" /\ Eof0.is = "eof0" /\ Flag.is = "flag" /\ Quiet.is = "quiet"
  /\ \A g : Crc(g).is = "crc" /\ Ack(g).is = "ack" /\ Eof1(g).is = "eof1"
  /\ \A n : Part(n).is = "part" /\ Passive(n).is = "passive"
  /\ \A g : Crc(g).good = g /\ Ack(g).good = g /\ Eof1(g).first = g
BY DEF Sof, Eof0, Flag, Crc, Ack, Eof1, Part, Passive, Quiet

LEMMA PlainStep ==
  ASSUME BusOK, Driver(cd), NEW c, NEW f, f.is # "header", Bits(f) \in Nat \ {0},
         Only(cd, c, {"sm", "irq"}), cd' = Emit(c, f),
         c.irq \subseteq cd.irq \cup {"MATCHED", "ACKDONE"},
         c.sm = cd.sm \/ c.sm \in {"sent", "acking", "acked", "conflict"},
         Going,
         bus.at \in {"check", "delimiter"} => Bits(f) >= 9 \/ bus'.at \in {"check", "delimiter"}
  PROVE  PlainField
<1> DEFINE total == c.held + Bits(f)
<1>1. c.held = cd.held
  BY DEF Only, Fields
<1>2. cd' = Put(c, f, total)
  BY EmitIs
<1>3. Passing(c, f, total)
  BY <1>2 DEF Passing
<1>4. cd.held \in Nat => total \in Nat /\ total >= cd.held + Bits(f)
  BY <1>1
<1> HIDE DEF total
<1>5. cd.held \in Nat /\ cd.held >= 1 /\ bus.at \in {"check", "delimiter"}
        => total >= 10 \/ bus'.at \in {"check", "delimiter"}
  <2>1. CASE Bits(f) >= 9
    BY <1>4, <2>1
  <2>2. CASE ~(Bits(f) >= 9)
    BY <2>2
  <2> QED BY <2>1, <2>2
<1> QED BY <1>3, <1>4, <1>5 DEF PlainField

(* The next place on the bus, in the same frame.                           *)
LEMMA GoesTo ==
  ASSUME BusOK, bus # Free, NEW at \in At \ {"header"}, Advance(at)
  PROVE  Going /\ bus'.at = at
<1>1. bus'.at = at /\ bus'.own = bus.own /\ bus'.n = bus.n /\ bus'.same = bus.same
  BY Advanced
<1> QED BY <1>1 DEF Going, At

LEMMA FieldIs ==
  ASSUME Field, BusOK, Driver(cd)
  PROVE  SendHeader \/ PlainField
<1> USE FreeAt, BitsAre, FieldKinds
<1>1. CASE SendEof0
  <2>1. Advance("bit5") /\ bus # Free /\ bus.at = "eof0" /\ cd' = Emit(cd, Eof0)
    BY <1>1 DEF SendEof0
  <2>2. Going /\ bus'.at = "bit5"
    BY <2>1, GoesTo DEF At
  <2> QED BY <2>1, <2>2, SameDriver, PlainStep
<1>2. CASE SendBit5
  <2> DEFINE c == Matched(cd, "rxeof")
  <2>1. Advance("bit7") /\ bus # Free /\ bus.at = "bit5" /\ cd' = Emit(c, Part(2))
    BY <1>2 DEF SendBit5
  <2>2. Going /\ bus'.at = "bit7"
    BY <2>1, GoesTo DEF At
  <2>3. /\ Only(cd, c, {"sm", "irq"}) /\ c.irq \subseteq cd.irq \cup {"MATCHED", "ACKDONE"}
        /\ c.sm = cd.sm \/ c.sm \in {"sent", "acking", "acked", "conflict"}
    BY MatchedDoes
  <2> HIDE DEF c
  <2>4. Bits(Part(2)) \in Nat \ {0}
    OBVIOUS
  <2> QED BY <2>1, <2>2, <2>3, <2>4, PlainStep
<1>3. CASE SendBit7
  <2> DEFINE c == Matched(cd, "txeof")
  <2>1. Advance("pause") /\ bus # Free /\ bus.at = "bit7" /\ cd' = Emit(c, Part(1))
    BY <1>3 DEF SendBit7
  <2>2. Going /\ bus'.at = "pause"
    BY <2>1, GoesTo DEF At
  <2>3. /\ Only(cd, c, {"sm", "irq"}) /\ c.irq \subseteq cd.irq \cup {"MATCHED", "ACKDONE"}
        /\ c.sm = cd.sm \/ c.sm \in {"sent", "acking", "acked", "conflict"}
    BY MatchedDoes
  <2> HIDE DEF c
  <2>4. Bits(Part(1)) \in Nat \ {0}
    OBVIOUS
  <2> QED BY <2>1, <2>2, <2>3, <2>4, PlainStep
<1>4. CASE SendPause
  <2>1. bus' = Free /\ bus.at = "pause" /\ cd' = Emit(cd, Eof1("none"))
    BY <1>4 DEF SendPause
  <2>2. Going
    BY <2>1 DEF Going
  <2> QED BY <2>1, <2>2, SameDriver, PlainStep
<1>5. ASSUME NEW b \in BOOLEAN, SendCrc(b) PROVE PlainField
  <2> DEFINE e == IF bus.own THEN [cd EXCEPT !.sm = "sent"] ELSE cd
             c == IF b THEN Matched(e, "crc") ELSE e
  <2>1. bus' = [bus EXCEPT !.at = "ack", !.clean = @ /\ b] /\ bus # Free /\ bus.at = "crc"
        /\ cd' = Emit(c, Crc(b))
    BY <1>5 DEF SendCrc
  <2>2. bus'.at = "ack" /\ bus'.own = bus.own /\ bus'.n = bus.n /\ bus'.same = bus.same
    BY <2>1 DEF BusOK, BusFields
  <2>3. Going
    BY <2>2 DEF Going
  <2>4. Only(cd, e, {"sm", "irq"}) /\ e.irq = cd.irq /\ (e.sm = cd.sm \/ e.sm = "sent")
    <3>1. LET s == [cd EXCEPT !.sm = "sent"]
          IN Only(cd, s, {"sm", "irq"}) /\ s.irq = cd.irq /\ s.sm = "sent"
      BY DEF Only, Driver, Fields
    <3> QED BY <3>1, SameDriver
  <2> HIDE DEF e
  <2>5. /\ Only(e, Matched(e, "crc"), {"sm", "irq"})
        /\ Matched(e, "crc").irq \subseteq e.irq \cup {"MATCHED"}
        /\ Matched(e, "crc").sm = e.sm \/ Matched(e, "crc").sm = "acking"
    BY <2>4, MatchedDoes DEF Only
  <2>6. /\ Only(e, c, {"sm", "irq"}) /\ c.irq \subseteq e.irq \cup {"MATCHED"}
        /\ c.sm = e.sm \/ c.sm = "acking"
    BY <2>4, <2>5, SameDriver DEF Only
  <2> HIDE DEF c
  <2>7. Only(cd, c, {"sm", "irq"})
    BY <2>4, <2>6 DEF Only
  <2>8. /\ c.irq \subseteq cd.irq \cup {"MATCHED", "ACKDONE"}
        /\ c.sm = cd.sm \/ c.sm \in {"sent", "acking", "acked", "conflict"}
    BY <2>4, <2>6
  <2>9. Bits(Crc(b)) \in Nat \ {0} /\ Crc(b).is # "header"
    OBVIOUS
  <2> QED BY <2>1, <2>3, <2>7, <2>8, <2>9, PlainStep
<1>6. ASSUME NEW b \in BOOLEAN, SendAck(b) PROVE PlainField
  <2> DEFINE acked == b \/ cd.sm = "acking"
             c == IF cd.sm = "acking"
                  THEN [cd EXCEPT !.sm = "acked", !.irq = @ \cup {"ACKDONE"}] ELSE cd
  <2>1. Advance(IF acked THEN "eof0" ELSE "flag") /\ bus # Free /\ bus.at = "ack"
        /\ cd' = Emit(c, Ack(acked))
    BY <1>6 DEF SendAck
  <2>2. Going
    BY <2>1, GoesTo DEF At
  <2>3. /\ Only(cd, c, {"sm", "irq"}) /\ c.irq \subseteq cd.irq \cup {"MATCHED", "ACKDONE"}
        /\ c.sm = cd.sm \/ c.sm \in {"sent", "acking", "acked", "conflict"}
    <3>1. LET s == [cd EXCEPT !.sm = "acked", !.irq = @ \cup {"ACKDONE"}]
          IN Only(cd, s, {"sm", "irq"}) /\ s.irq = cd.irq \cup {"ACKDONE"} /\ s.sm = "acked"
      BY DEF Only, Driver, Fields
    <3> QED BY <3>1, SameDriver
  <2> HIDE DEF c, acked
  <2>4. Bits(Ack(acked)) \in Nat \ {0} /\ Ack(acked).is # "header"
    OBVIOUS
  <2> QED BY <2>1, <2>2, <2>3, <2>4, PlainStep
<1>7. CASE Disturb
  <2> DEFINE inEof1 == bus.at \in {"bit5", "bit7", "pause"}
             field == IF inEof1 THEN Eof1(bus.at) ELSE Flag
             at == IF inEof1 THEN "flag" ELSE "delimiter"
             c == [cd EXCEPT !.sm = IF @ \in {"sending", "acking"} THEN "conflict" ELSE @]
  <2>1. /\ bus.at \in {"header", "check", "crc", "ack", "eof0", "bit5", "bit7", "pause"}
        /\ cd' = Emit(c, field) /\ Advance(at)
    BY <1>7 DEF Disturb
  <2>2. bus # Free /\ at \in At \ {"header"}
    BY <2>1 DEF At
  <2>3. Only(cd, c, {"sm", "irq"}) /\ c.irq = cd.irq /\ (c.sm = cd.sm \/ c.sm = "conflict")
    BY DEF Only, Driver, Fields
  <2>4. Bits(field) \in Nat \ {0} /\ field.is # "header"
    OBVIOUS
  <2>5. bus.at \in {"check", "delimiter"} => at = "delimiter"
    BY <2>1
  <2> HIDE DEF c, field, at
  <2>6. Going /\ bus'.at = at
    BY <2>1, <2>2, GoesTo
  <2> QED BY <2>1, <2>3, <2>4, <2>5, <2>6, PlainStep
<1>8. CASE SendFlag
  <2>1. Advance("delimiter") /\ bus # Free /\ bus.at = "flag" /\ cd' = Emit(cd, Flag)
    BY <1>8 DEF SendFlag
  <2>2. Going /\ bus'.at = "delimiter"
    BY <2>1, GoesTo DEF At
  <2> QED BY <2>1, <2>2, SameDriver, PlainStep
<1>9. CASE SendDelimiter
  <2>1. bus' = Free /\ bus.at = "delimiter" /\ cd' = Emit(cd, Passive(10))
    BY <1>9 DEF SendDelimiter
  <2>2. Going
    BY <2>1 DEF Going
  <2>3. Bits(Passive(10)) \in Nat \ {0} /\ Bits(Passive(10)) >= 9 /\ Passive(10).is # "header"
    OBVIOUS
  <2> QED BY <2>1, <2>2, <2>3, SameDriver, PlainStep
<1>10. CASE SendCheck
  <2>1. Advance("crc") /\ bus # Free /\ bus.at = "check" /\ cd' = Emit(cd, Part(9))
    BY <1>10 DEF SendCheck
  <2>2. Going /\ bus'.at = "crc"
    BY <2>1, GoesTo DEF At
  <2>3. Bits(Part(9)) \in Nat \ {0} /\ Bits(Part(9)) >= 9 /\ Part(9).is # "header"
    OBVIOUS
  <2> QED BY <2>1, <2>2, <2>3, SameDriver, PlainStep
<1> QED BY <1>1, <1>2, <1>3, <1>4, <1>5, <1>6, <1>7, <1>8, <1>9, <1>10 DEF Field

-----------------------------------------------------------------------------
(***************************************************************************)
(* The state: the driver's invariant with what LibPQP and the other boards *)
(* keep.                                                                   *)
(***************************************************************************)
Counted ==
  /\ sent \in Nat /\ foreign \in Nat /\ faults \in Nat /\ restarts \in Nat
  /\ sent + foreign + faults + restarts <= MaxEvents

Places == 0 .. RingSize - 1

(* What does not depend on the contents of the frames.                     *)
Machine(d) ==
  /\ IsASequence(d.rx) /\ IsASequence(d.isr) /\ d.held \in Nat
  /\ d.head \in Places /\ d.tail \in Places

Base ==
  /\ main \in {"idle", "wake", "release"}
  /\ Counted /\ withdrawn \subseteq 1 .. sent
  /\ DriverInv(cd, sent, withdrawn) /\ Machine(cd) /\ BusOK

LEMMA Joined ==
  ASSUME NEW a, NEW b, IsASequence(a), IsASequence(b)
  PROVE  IsASequence(a \o b)
<1>1. PICK S : a \in Seq(S)
  BY DEF IsASequence
<1>2. PICK T : b \in Seq(T)
  BY DEF IsASequence
<1>3. a \in Seq(S \cup T) /\ b \in Seq(S \cup T)
  BY <1>1, <1>2
<1>4. a \o b \in Seq(S \cup T)
  BY <1>3
<1> QED BY <1>4 DEF IsASequence

LEMMA OneMore ==
  ASSUME NEW a, NEW x, IsASequence(a)
  PROVE  IsASequence(Append(a, x)) /\ IsASequence(<<x>>) /\ IsASequence(<<>>)
<1>1. PICK S : a \in Seq(S)
  BY DEF IsASequence
<1>2. a \in Seq(S \cup {x}) /\ x \in S \cup {x}
  BY <1>1
<1>3. Append(a, x) \in Seq(S \cup {x}) /\ <<x>> \in Seq(S \cup {x}) /\ <<>> \in Seq(S \cup {x})
  BY <1>2
<1> QED BY <1>3 DEF IsASequence

LEMMA NextPlace ==
  ASSUME NEW i \in Places
  PROVE  Next1(i) \in Places
BY CanAssumption DEF Next1, Places

LEMMA RingsKeeps ==
  ASSUME NEW d, NEW e, Rings(d, e), d.head \in Places, d.tail \in Places
  PROVE  e.head \in Places /\ e.tail \in Places
BY NextPlace DEF Rings, Hears, HearsNothing

LEMMA StreamsKeeps ==
  ASSUME NEW d, NEW e, Machine(d), Streams(d, e), Rings(d, e)
  PROVE  Machine(e)
BY RingsKeeps DEF Machine, Streams

LEMMA ReceivesKeeps ==
  ASSUME NEW d, NEW f, NEW e, Machine(d), Receives(d, f, e)
  PROVE  Machine(e)
<1>1. e.head \in Places /\ e.tail \in Places /\ e.held \in Nat
  BY RingsKeeps DEF Receives, Machine
<1>2. IsASequence(e.rx) /\ IsASequence(e.isr)
  <2>1. CASE Reset(e)
    <3>1. e.rx = <<>> /\ e.isr = <<>>
      BY <2>1 DEF Reset
    <3> QED BY <3>1, OneMore DEF Machine
  <2>2. CASE Streams(d, e)
    BY <2>2 DEF Streams, Machine
  <2> QED BY <2>1, <2>2 DEF Receives
<1> QED BY <1>1, <1>2 DEF Machine

LEMMA PutKeeps ==
  ASSUME NEW d, Driver(d), Machine(d), NEW f, NEW total \in Nat
  PROVE  Machine(Put(d, f, total))
<1> DEFINE e == Put(d, f, total)
<1>1. /\ Only(d, e, {"isr", "held", "rx"})
      /\ \/ e = d
         \/ e.rx = d.rx /\ e.isr = Append(d.isr, f) /\ e.held = total
         \/ e.rx = Append(d.rx \o d.isr, f) /\ e.isr = <<>> /\ e.held = 0
         \/ e.rx = d.rx \o d.isr /\ e.isr = <<f>> /\ e.held = total % 10
  <2>1. /\ Only(d, e, {"isr", "held", "rx"})
        /\ \/ /\ d.sync = "lost" \/ (d.stall /\ d.rx # <<>>)
              /\ e = d
           \/ /\ ~(d.sync = "lost" \/ (d.stall /\ d.rx # <<>>))
              /\ \/ total < 10 /\ e.rx = d.rx /\ e.isr = Append(d.isr, f) /\ e.held = total
                 \/ /\ ~(total < 10) /\ total % 10 = 0
                    /\ e.rx = Append(d.rx \o d.isr, f) /\ e.isr = <<>> /\ e.held = 0
                 \/ /\ ~(total < 10) /\ total % 10 # 0
                    /\ e.rx = d.rx \o d.isr /\ e.isr = <<f>> /\ e.held = total % 10
    BY PutDoes, Zenon
  <2> HIDE DEF e
  <2> QED BY <2>1
<1> HIDE DEF e
<1>2. e.head = d.head /\ e.tail = d.tail
  BY <1>1 DEF Only, Fields
<1>3. /\ IsASequence(d.rx \o d.isr) /\ IsASequence(Append(d.isr, f))
      /\ IsASequence(Append(d.rx \o d.isr, f)) /\ IsASequence(<<f>>) /\ IsASequence(<<>>)
  BY Joined, OneMore DEF Machine
<1>4. total % 10 \in Nat
  OBVIOUS
<1>5. IsASequence(e.rx) /\ IsASequence(e.isr) /\ e.held \in Nat
  <2>1. 0 \in Nat /\ IsASequence(d.rx) /\ IsASequence(d.isr) /\ d.held \in Nat
    BY DEF Machine
  <2> QED BY <1>1, <1>3, <1>4, <2>1, Zenon
<1> QED BY <1>2, <1>5 DEF Machine, e

(* What neither the queue nor the duties are about.                        *)
LEMMA DriverKept ==
  ASSUME NEW d, NEW e, NEW n, NEW W, NEW S, DriverInv(d, n, W), Only(d, e, S),
         S \cap {"queue", "confirmed", "on", "tx", "report", "parse", "inte", "load"} = {},
         e.sm = "send" => d.sm = "send"
  PROVE  DriverInv(e, n, W)
<1>1. /\ e.queue = d.queue /\ e.tx = d.tx /\ e.report = d.report /\ e.parse = d.parse
      /\ e.inte = d.inte /\ e.on = d.on /\ e.load = d.load
  BY DEF Only, Fields
<1>2. Kinds(e) /\ Duties(e)
  BY <1>1 DEF DriverInv, QueueInv, Kinds, Duties
<1>3. QueueInv(e, n, W)
  BY <1>1, <1>2, QueueKept DEF DriverInv, QueueInv
<1> QED BY <1>2, <1>3 DEF DriverInv

(* The interrupt.                                                          *)
LEMMA LoopMachine ==
  ASSUME IrqRxData, Driver(cd), Machine(cd)
  PROVE  Machine(cd')
<1>1. PICK u : /\ cd' = u[Len(cd.rx)] /\ u[0] = Flushed(cd)
               /\ \A i \in 1 .. Len(cd.rx) : u[i] = Processed(u[i - 1], cd.rx[i])
  BY IrqRxDataRuns DEF Machine
<1> DEFINE k == Len(cd.rx)
           T == { i \in 0 .. k : Driver(u[i]) /\ Machine(u[i]) }
<1>2. k \in Nat
  BY DEF IsASequence, Machine
<1>3. 0 \in T
  <2> DEFINE e == Flushed(cd)
  <2>1. Only(cd, e, {"rx"}) /\ e.rx = <<>>
    BY FlushedDoes
  <2> HIDE DEF e
  <2>2. Driver(e) /\ e.isr = cd.isr /\ e.held = cd.held /\ e.head = cd.head /\ e.tail = cd.tail
    BY <2>1 DEF Only, Fields
  <2>3. Machine(e)
    BY <2>1, <2>2, OneMore DEF Machine
  <2> QED BY <1>1, <1>2, <2>2, <2>3 DEF e
<1>4. ASSUME NEW i \in 1 .. k, i - 1 \in T PROVE i \in T
  <2>1. Driver(u[i - 1]) /\ Machine(u[i - 1])
    BY <1>4
  <2>2. u[i] = Processed(u[i - 1], cd.rx[i])
    BY <1>1
  <2>3. Receives(u[i - 1], cd.rx[i], ProcessRx(u[i - 1], cd.rx[i]))
    BY <2>1, ProcessRxReceives
  <2>4. Driver(ProcessRx(u[i - 1], cd.rx[i])) /\ Machine(ProcessRx(u[i - 1], cd.rx[i]))
    BY <2>1, <2>3, ReceivesKeeps DEF Receives
  <2>5. Driver(u[i]) /\ Machine(u[i])
    BY <2>1, <2>2, <2>4 DEF Processed
  <2>6. i \in 0 .. k
    BY <1>2
  <2> QED BY <2>5, <2>6
<1> HIDE DEF T
<1>5. \A i \in 0 .. k : i \in T
  BY <1>2, <1>3, <1>4, CountUp
<1>6. k \in T
  BY <1>2, <1>5
<1> QED BY <1>1, <1>6 DEF T

LEMMA IrqKeepsBase ==
  ASSUME Base, Irq PROVE Base'
<1>1. Untouched => Counted' /\ BusOK' /\ main' = main /\ withdrawn' = withdrawn /\ sent' = sent
  BY DEF Untouched, Counted, BusOK, Base, counters
<1>2. CASE IrqRxData
  <2>1. DriverInv(cd', sent, withdrawn)
    BY <1>2, IrqRxDataKeeps DEF Base, Machine, Counted
  <2>2. Machine(cd')
    BY <1>2, LoopMachine DEF Base, DriverInv, QueueInv
  <2> QED BY <1>1, <1>2, <2>1, <2>2 DEF Base, IrqRxData
<1>3. ASSUME NEW l \in Lines, IrqLine(l) PROVE Base'
  <2>1. DriverInv(cd', sent, withdrawn)
    BY <1>3, HandledKeeps DEF Base, IrqLine, Counted
  <2>2. Line1(cd, cd')
    BY <1>3, HandledTells DEF IrqLine, Base, DriverInv, QueueInv
  <2>3. Machine(cd')
    BY <2>2, StreamsKeeps DEF Line1, Base
  <2> QED BY <1>1, <1>3, <2>1, <2>3 DEF Base, IrqLine
<1> QED BY <1>2, <1>3, IrqIs

(* The bus and the receiving machine.                                      *)
LEMMA PutKeepsAll ==
  ASSUME NEW d, NEW c, NEW S, NEW f, NEW total \in Nat, NEW n, NEW W,
         DriverInv(d, n, W), Machine(d), Only(d, c, S),
         S \cap {"queue", "confirmed", "on", "tx", "report", "parse", "inte", "load",
                 "rx", "isr", "held", "head", "tail"} = {},
         c.sm = "send" => d.sm = "send"
  PROVE  DriverInv(Put(c, f, total), n, W) /\ Machine(Put(c, f, total))
<1> DEFINE e == Put(c, f, total)
<1>1. Driver(c) /\ DriverInv(c, n, W)
  BY DriverKept DEF Only
<1>2. c.rx = d.rx /\ c.isr = d.isr /\ c.held = d.held /\ c.head = d.head /\ c.tail = d.tail
  BY DEF Only, Fields
<1>3. Machine(c)
  BY <1>2 DEF Machine
<1>4. Machine(e)
  BY <1>1, <1>3, PutKeeps
<1>5. Only(c, e, {"isr", "held", "rx"})
  BY <1>1, PutDoes
<1> HIDE DEF e
<1>6. e.sm = c.sm
  BY <1>5 DEF Only, Fields
<1>7. DriverInv(e, n, W)
  BY <1>1, <1>5, <1>6, DriverKept
<1> QED BY <1>4, <1>7 DEF e

(* A frame begins.                                                         *)
LEMMA BegunDoes ==
  ASSUME NEW d, Driver(d)
  PROVE  \E b : /\ Only(d, b, {"sync", "irq"}) /\ b.sync = "frame" /\ b.irq = d.irq \ {"MAYTX"}
                /\ Begun(d) = Put(b, Sof, b.held + 1)
<1> DEFINE b == [d EXCEPT !.sync = "frame", !.irq = @ \ {"MAYTX"}]
<1>1. Begun(d) = Put(b, Sof, b.held + Bits(Sof))
  BY EmitIs DEF Begun
<1>2. Only(d, b, {"sync", "irq"}) /\ b.sync = "frame" /\ b.irq = d.irq \ {"MAYTX"}
  BY DEF Only, Driver, Fields
<1>3. Bits(Sof) = 1
  BY BitsAre
<1> HIDE DEF b
<1> QED BY <1>1, <1>2, <1>3

LEMMA BegunKeeps ==
  ASSUME NEW d, NEW c, NEW n, NEW W, DriverInv(d, n, W), Machine(d), Only(d, c, {"sm"}),
         c.sm = "send" => d.sm = "send"
  PROVE  DriverInv(Begun(c), n, W) /\ Machine(Begun(c))
<1>1. PICK b : /\ Only(c, b, {"sync", "irq"}) /\ b.sync = "frame" /\ b.irq = c.irq \ {"MAYTX"}
               /\ Begun(c) = Put(b, Sof, b.held + 1)
  BY BegunDoes DEF Only
<1>2. Only(d, b, {"sm", "sync", "irq"}) /\ b.sm = c.sm /\ b.held = d.held
  BY <1>1 DEF Only, Fields
<1>3. b.held + 1 \in Nat
  BY <1>2 DEF Machine
<1> QED BY <1>1, <1>2, <1>3, PutKeepsAll

LEMMA BeginOK ==
  ASSUME NEW own \in BOOLEAN, NEW n, NEW same \in BOOLEAN, Begin(own, n, same)
  PROVE  /\ BusOK' /\ bus'.at = "header" /\ bus' # Free
         /\ bus'.own = own /\ bus'.n = n /\ bus'.same = same
BY DEF BusOK, Begin, BusFields, At, Free

LEMMA OwnFrameDoes ==
  ASSUME OwnFrame, Driver(cd)
  PROVE  \E c : /\ Only(cd, c, {"sm"}) /\ c.sm = "sending" /\ cd' = Begun(c)
<1> DEFINE c == [cd EXCEPT !.sm = "sending"]
<1>1. Only(cd, c, {"sm"}) /\ c.sm = "sending" /\ cd' = Begun(c)
  BY DEF OwnFrame, Only, Driver, Fields
<1> QED BY <1>1

LEMMA OtherFrameDoes ==
  ASSUME NEW same \in BOOLEAN, OtherFrame(same), Driver(cd)
  PROVE  \E c : /\ Only(cd, c, {"sm"}) /\ cd' = Begun(c)
                /\ c.sm = cd.sm \/ c.sm = "conflict"
                /\ cd.sm = "send" /\ "MAYTX" \in cd.irq => c.sm = "conflict"
<1> DEFINE k == [cd EXCEPT !.sm = "conflict"]
           c == IF cd.sm = "send" /\ "MAYTX" \in cd.irq THEN k ELSE cd
<1>1. Only(cd, k, {"sm"}) /\ k.sm = "conflict"
  BY DEF Only, Driver, Fields
<1>2. Only(cd, cd, {"sm"})
  BY DEF Only
<1>3. cd' = Begun(c)
  BY DEF OtherFrame
<1> HIDE DEF k
<1> QED BY <1>1, <1>2, <1>3

LEMMA FramesKeepBase ==
  ASSUME Base, OwnFrame \/ \E same \in BOOLEAN : OtherFrame(same)
  PROVE  Base'
<1>1. Driver(cd)
  BY DEF Base, DriverInv, QueueInv
<1>2. CASE OwnFrame
  <2>1. PICK c : Only(cd, c, {"sm"}) /\ c.sm = "sending" /\ cd' = Begun(c)
    BY <1>1, <1>2, OwnFrameDoes
  <2>2. DriverInv(cd', sent, withdrawn) /\ Machine(cd')
    BY <2>1, BegunKeeps DEF Base
  <2>3. BusOK'
    BY <1>2, BeginOK DEF OwnFrame
  <2>4. Counted' /\ main' = main /\ withdrawn' = withdrawn /\ sent' = sent
    BY <1>2 DEF OwnFrame, counters, Base, Counted
  <2> QED BY <2>2, <2>3, <2>4 DEF Base
<1>3. ASSUME NEW same \in BOOLEAN, OtherFrame(same) PROVE Base'
  <2>1. PICK c : Only(cd, c, {"sm"}) /\ cd' = Begun(c) /\ (c.sm = cd.sm \/ c.sm = "conflict")
    BY <1>1, <1>3, OtherFrameDoes
  <2>2. DriverInv(cd', sent, withdrawn) /\ Machine(cd')
    BY <2>1, BegunKeeps DEF Base
  <2>3. BusOK'
    BY <1>3, BeginOK DEF OtherFrame
  <2>4. Counted' /\ main' = main /\ withdrawn' = withdrawn /\ sent' = sent
    BY <1>3 DEF OtherFrame, Base, Counted, Room
  <2> QED BY <2>2, <2>3, <2>4 DEF Base
<1> QED BY <1>2, <1>3

LEMMA IdleDoes ==
  ASSUME Idle, Driver(cd)
  PROVE  \E i : /\ Only(cd, i, {"sync", "irq"}) /\ i.sync = "idle" /\ i.irq = cd.irq \cup {"MAYTX"}
                /\ \/ cd.sync # "lost" /\ cd' = i
                   \/ cd.sync = "lost" /\ cd' = Put(i, Passive(10), i.held + 10)
<1> DEFINE i == [cd EXCEPT !.sync = "idle", !.irq = @ \cup {"MAYTX"}]
<1>1. cd' = IF cd.sync = "lost" THEN Put(i, Passive(10), i.held + Bits(Passive(10))) ELSE i
  BY DEF Idle, Emit
<1>2. Only(cd, i, {"sync", "irq"}) /\ i.sync = "idle" /\ i.irq = cd.irq \cup {"MAYTX"}
  BY DEF Only, Driver, Fields
<1>3. Bits(Passive(10)) = 10
  BY BitsAre
<1> HIDE DEF i
<1> QED BY <1>1, <1>2, <1>3

LEMMA OverrunDoes ==
  ASSUME Overrun, Driver(cd)
  PROVE  /\ Only(cd, cd', {"stall", "isr"}) /\ cd'.stall = TRUE /\ cd'.isr = <<>>
         /\ ~cd.stall /\ cd.rx # <<>>
BY DEF Overrun, Only, Driver, Fields

LEMMA CounterOverflowDoes ==
  ASSUME CounterOverflow, Driver(cd)
  PROVE  \E i : /\ Only(cd, i, {"sync"}) /\ i.sync = "quiet"
                /\ cd' = Put(i, Passive(10), 10) /\ cd.sync = "idle" /\ bus = Free /\ bus' = Free
<1> DEFINE i == [cd EXCEPT !.sync = "quiet"]
<1>1. Only(cd, i, {"sync"}) /\ i.sync = "quiet"
  BY DEF Only, Driver, Fields
<1>2. cd' = Put(i, Passive(10), 10) /\ cd.sync = "idle" /\ bus = Free /\ bus' = Free
  BY DEF CounterOverflow
<1> HIDE DEF i
<1> QED BY <1>1, <1>2

LEMMA QuietBitsDoes ==
  ASSUME QuietBits
  PROVE  /\ \E r \in 1 .. 10 : cd' = Put(cd, Quiet, r)
         /\ cd.sync = "quiet" /\ bus = Free /\ bus' = Free /\ ~ResetAhead
BY DEF QuietBits, Untouched

(* What the line does while no frame is on it.                             *)
LineStep == Idle \/ Overrun \/ CounterOverflow \/ QuietBits

LEMMA LineKeepsBase ==
  ASSUME Base, LineStep
  PROVE  Base'
<1>1. Driver(cd)
  BY DEF Base, DriverInv, QueueInv
<1>2. CASE Idle
  <2>1. PICK i : /\ Only(cd, i, {"sync", "irq"}) /\ i.sync = "idle"
                 /\ i.irq = cd.irq \cup {"MAYTX"}
                 /\ \/ cd.sync # "lost" /\ cd' = i
                    \/ cd.sync = "lost" /\ cd' = Put(i, Passive(10), i.held + 10)
    BY <1>1, <1>2, IdleDoes
  <2>2. /\ i.sm = cd.sm /\ i.held = cd.held /\ i.rx = cd.rx /\ i.isr = cd.isr
        /\ i.head = cd.head /\ i.tail = cd.tail
    BY <2>1 DEF Only, Fields
  <2>3. i.held + 10 \in Nat
    BY <2>2 DEF Base, Machine
  <2>4. DriverInv(i, sent, withdrawn) /\ Machine(i)
    <3>1. DriverInv(i, sent, withdrawn)
      BY <2>1, <2>2, DriverKept DEF Base
    <3> QED BY <2>2, <3>1 DEF Base, Machine
  <2>5. /\ DriverInv(Put(i, Passive(10), i.held + 10), sent, withdrawn)
        /\ Machine(Put(i, Passive(10), i.held + 10))
    BY <2>1, <2>2, <2>3, PutKeepsAll DEF Base
  <2>6. DriverInv(cd', sent, withdrawn) /\ Machine(cd')
    BY <2>1, <2>4, <2>5
  <2>7. Counted' /\ BusOK' /\ main' = main /\ withdrawn' = withdrawn /\ sent' = sent
    BY <1>2 DEF Idle, Untouched, Counted, BusOK, Base, counters
  <2> QED BY <2>6, <2>7 DEF Base
<1>3. CASE Overrun
  <2>1. Only(cd, cd', {"stall", "isr"}) /\ cd'.isr = <<>>
    BY <1>1, <1>3, OverrunDoes
  <2>2. /\ cd'.sm = cd.sm /\ cd'.held = cd.held /\ cd'.rx = cd.rx
        /\ cd'.head = cd.head /\ cd'.tail = cd.tail
    BY <2>1 DEF Only, Fields
  <2>3. DriverInv(cd', sent, withdrawn)
    BY <2>1, <2>2, DriverKept DEF Base
  <2>4. IsASequence(<<>>)
    BY OneMore DEF Base, Machine
  <2>5. Machine(cd')
    BY <2>1, <2>2, <2>4 DEF Base, Machine
  <2>6. /\ sent' = sent /\ foreign' = foreign /\ restarts' = restarts /\ faults' = faults + 1
        /\ bus' = bus /\ main' = main /\ withdrawn' = withdrawn /\ Room(1)
    BY <1>3 DEF Overrun
  <2>7. Counted' /\ BusOK'
    BY <2>6 DEF Counted, BusOK, Base, Room
  <2> QED BY <2>3, <2>5, <2>6, <2>7 DEF Base
<1>4. CASE CounterOverflow
  <2>1. PICK i : Only(cd, i, {"sync"}) /\ cd' = Put(i, Passive(10), 10)
    BY <1>1, <1>4, CounterOverflowDoes
  <2>2. i.sm = cd.sm /\ 10 \in Nat
    BY <2>1 DEF Only, Fields
  <2>3. DriverInv(cd', sent, withdrawn) /\ Machine(cd')
    BY <2>1, <2>2, PutKeepsAll DEF Base
  <2>4. Counted' /\ BusOK' /\ main' = main /\ withdrawn' = withdrawn /\ sent' = sent
    BY <1>4 DEF CounterOverflow, Counted, BusOK, Base, Room
  <2> QED BY <2>3, <2>4 DEF Base
<1>5. CASE QuietBits
  <2>1. PICK r \in 1 .. 10 : cd' = Put(cd, Quiet, r)
    BY <1>5, QuietBitsDoes
  <2>2. Only(cd, cd, {}) /\ r \in Nat
    BY <1>1, SameDriver
  <2>3. DriverInv(cd', sent, withdrawn) /\ Machine(cd')
    BY <2>1, <2>2, PutKeepsAll DEF Base
  <2>4. Counted' /\ BusOK' /\ main' = main /\ withdrawn' = withdrawn /\ sent' = sent
    BY <1>5 DEF QuietBits, Untouched, Counted, BusOK, Base, counters
  <2> QED BY <2>3, <2>4 DEF Base
<1> QED BY <1>2, <1>3, <1>4, <1>5 DEF LineStep

(* A field passes.                                                         *)
LEMMA HeaderDoes ==
  ASSUME SendHeader, BusOK, Driver(cd)
  PROVE  /\ \E r \in 0 .. 9 : cd' = Put(cd, Header(bus), 20 + r)
         /\ Going /\ bus'.at = "check" /\ bus # Free /\ bus.at = "header" /\ Driven
<1>1. bus # Free /\ bus.at = "header" /\ Driven /\ Advance("check")
  BY FreeAt DEF SendHeader
<1>2. Going /\ bus'.at = "check"
  BY <1>1, GoesTo DEF At
<1> QED BY <1>1, <1>2 DEF SendHeader

LEMMA FieldCounts ==
  ASSUME Field, Counted
  PROVE  Counted' /\ sent' = sent /\ foreign' = foreign /\ restarts' = restarts
         /\ main' = main /\ withdrawn' = withdrawn
<1>1. OnBus
  BY DEF Field, SendHeader, SendCheck, SendCrc, SendAck, SendEof0, SendBit5, SendBit7, SendPause, Disturb,
         SendFlag, SendDelimiter
<1>2. faults' = faults \/ (faults' = faults + 1 /\ Room(1))
  BY DEF Field, SendHeader, SendCheck, SendCrc, SendAck, SendEof0, SendBit5, SendBit7, SendPause, Disturb,
         SendFlag, SendDelimiter, history
<1> QED BY <1>1, <1>2 DEF OnBus, Counted, Room

LEMMA CleanStays ==
  ASSUME Field, BusOK
  PROVE  BusOK'
<1>1. bus # Free
  BY FreeAt DEF Field, SendHeader, SendCheck, SendCrc, SendAck, SendEof0, SendBit5, SendBit7, SendPause,
                Disturb, SendFlag, SendDelimiter
<1>2. \/ bus' = Free
      \/ \E at \in At : Advance(at)
      \/ \E b \in BOOLEAN : bus' = [bus EXCEPT !.at = "ack", !.clean = @ /\ b]
  BY DEF Field, SendHeader, SendCheck, SendCrc, SendAck, SendEof0, SendBit5, SendBit7, SendPause,
         Disturb, SendFlag, SendDelimiter, At
<1>3. ASSUME NEW at \in At, Advance(at) PROVE BusOK'
  BY <1>1, <1>3, Advanced DEF BusOK
<1>4. ASSUME NEW b \in BOOLEAN, bus' = [bus EXCEPT !.at = "ack", !.clean = @ /\ b] PROVE BusOK'
  <2>1. DOMAIN bus = BusFields /\ bus.own \in BOOLEAN /\ bus.same \in BOOLEAN /\ bus.clean \in BOOLEAN
    BY <1>1 DEF BusOK
  <2>2. /\ DOMAIN bus' = BusFields /\ bus'.at = "ack" /\ bus'.own = bus.own
        /\ bus'.same = bus.same /\ bus'.clean = (bus.clean /\ b)
    BY <1>4, <2>1 DEF BusFields
  <2> QED BY <2>1, <2>2 DEF BusOK, At
<1> QED BY <1>2, <1>3, <1>4 DEF BusOK

LEMMA FieldKeepsBase ==
  ASSUME Base, Field PROVE Base'
<1>1. Driver(cd) /\ BusOK
  BY DEF Base, DriverInv, QueueInv
<1>2. DriverInv(cd', sent, withdrawn) /\ Machine(cd')
  <2>1. CASE SendHeader
    <3>1. PICK r \in 0 .. 9 : cd' = Put(cd, Header(bus), 20 + r)
      BY <1>1, <2>1, HeaderDoes
    <3>2. 20 + r \in Nat
      OBVIOUS
    <3>3. Only(cd, cd, {})
      BY <1>1, SameDriver
    <3> QED BY <3>1, <3>2, <3>3, PutKeepsAll DEF Base
  <2>2. CASE PlainField
    <3>1. PICK c, f, total : Passing(c, f, total) /\ (cd.held \in Nat => total \in Nat)
      BY <2>2 DEF PlainField
    <3>2. total \in Nat
      BY <3>1 DEF Base, Machine
    <3> QED BY <3>1, <3>2, PutKeepsAll DEF Passing, Base
  <2> QED BY <1>1, <2>1, <2>2, FieldIs
<1>3. Counted' /\ sent' = sent /\ main' = main /\ withdrawn' = withdrawn
  BY FieldCounts DEF Base
<1>4. BusOK'
  BY CleanStays DEF Base
<1> QED BY <1>2, <1>3, <1>4 DEF Base

-----------------------------------------------------------------------------
(***************************************************************************)
(* Steps: LibPQP's calls.                                                  *)
(***************************************************************************)
LEMMA Wider ==
  ASSUME NEW S, NEW T, S \subseteq T, NEW s \in Seq(S)
  PROVE  s \in Seq(T)
OBVIOUS

LEMMA Members ==
  ASSUME NEW S, NEW s \in Seq(S)
  PROVE  /\ \A i \in 1 .. Len(s) : s[i] \in S
         /\ DOMAIN s = 1 .. Len(s)
OBVIOUS

LEMMA SetOf ==
  ASSUME NEW S, NEW s \in Seq(S)
  PROVE  ToSet(s) \subseteq S
<1>1. DOMAIN s = 1 .. Len(s) /\ \A i \in 1 .. Len(s) : s[i] \in S
  BY Members
<1> QED BY <1>1 DEF ToSet

LEMMA EnqueueDoes ==
  ASSUME Enqueue, Driver(cd)
  PROVE  Only(cd, cd', {"queue"}) /\ cd'.queue = Append(cd.queue, sent + 1)
BY DEF Enqueue, Only, Driver, Fields

LEMMA EnqueueKeepsBase ==
  ASSUME Base, Enqueue
  PROVE  Base'
<1> DEFINE n == sent
<1>1. DriverInv(cd, n, withdrawn) /\ QueueInv(cd, n, withdrawn) /\ Ordered(cd, n) /\ Driver(cd)
      /\ Kinds(cd) /\ Wanted(cd, withdrawn) /\ Duties(cd)
  BY DEF Base, DriverInv, QueueInv
<1>2. n \in Nat /\ withdrawn \subseteq 1 .. n
  BY DEF Base, Counted
<1>3. Only(cd, cd', {"queue"}) /\ cd'.queue = Append(cd.queue, n + 1)
  BY <1>1, EnqueueDoes
<1>4. /\ cd'.on = cd.on /\ cd'.tx = cd.tx /\ cd'.report = cd.report /\ cd'.parse = cd.parse
      /\ cd'.inte = cd.inte /\ cd'.confirmed = cd.confirmed /\ cd'.sm = cd.sm /\ cd'.load = cd.load
      /\ cd'.rx = cd.rx /\ cd'.isr = cd.isr /\ cd'.held = cd.held
      /\ cd'.head = cd.head /\ cd'.tail = cd.tail /\ Driver(cd')
  BY <1>3 DEF Only, Fields
<1>5. Counted' /\ main' = "wake" /\ withdrawn' = withdrawn /\ BusOK' /\ sent' = n + 1
  BY DEF Enqueue, Base, Counted, Room, BusOK
<1> HIDE DEF n
<1>6. cd.queue \in Seq(1 .. n + 1) /\ n + 1 \in Nat /\ n + 1 \in 1 .. n + 1
      /\ cd.queue \in Seq(1 .. n) /\ cd.confirmed \in Seq(1 .. n) /\ cd.confirmed \in Seq(1 .. n + 1)
  <2>1. 1 .. n \subseteq 1 .. n + 1
    BY <1>2
  <2>2. cd.queue \in Seq(1 .. n) /\ cd.confirmed \in Seq(1 .. n)
    BY <1>1 DEF Ordered
  <2>3. cd.queue \in Seq(1 .. n + 1) /\ cd.confirmed \in Seq(1 .. n + 1)
    BY <2>1, <2>2, Wider
  <2> QED BY <1>2, <2>2, <2>3
<1>7. \A i \in 1 .. Len(cd.queue) : cd.queue[i] \in 1 .. n /\ cd.queue[i] < n + 1
  <2>1. \A i \in 1 .. Len(cd.queue) : cd.queue[i] \in 1 .. n
    BY <1>6, Members
  <2> QED BY <1>2, <2>1
<1>8. Increasing(cd'.queue) /\ cd'.queue \in Seq(1 .. n + 1)
  <2>1. Increasing(cd.queue)
    BY <1>1 DEF Ordered
  <2> QED BY <1>3, <1>6, <1>7, <2>1, AppendSorted
<1>9. /\ Len(cd'.queue) = Len(cd.queue) + 1 /\ cd'.queue[Len(cd.queue) + 1] = n + 1
      /\ Len(cd.queue) \in Nat /\ \A i \in 1 .. Len(cd.queue) : cd'.queue[i] = cd.queue[i]
  BY <1>3, <1>6, Appended
<1>10. Len(cd'.queue) <= QueueSize
  BY <1>9, CanAssumption DEF Enqueue, CheckTransmit
<1>11. ASSUME NEW j \in 1 .. Len(cd'.queue)
       PROVE  \/ cd'.queue[j] = n + 1
              \/ j \in 1 .. Len(cd.queue) /\ cd'.queue[j] = cd.queue[j]
  BY <1>9
<1>12. \A i \in 1 .. Len(cd'.confirmed), j \in 1 .. Len(cd'.queue) : cd'.confirmed[i] < cd'.queue[j]
  <2>1. \A i \in 1 .. Len(cd.confirmed) : cd.confirmed[i] \in 1 .. n
    BY <1>6, Members
  <2>2. \A i \in 1 .. Len(cd.confirmed) : cd.confirmed[i] < n + 1
    BY <1>2, <2>1
  <2> QED BY <1>1, <1>4, <1>11, <2>2 DEF Ordered
<1>13. Ordered(cd', n + 1)
  BY <1>1, <1>4, <1>6, <1>8, <1>10, <1>12 DEF Ordered
<1>14. Wanted(cd', withdrawn)
  <2>1. n + 1 \notin withdrawn
    BY <1>2
  <2> QED BY <1>1, <1>4, <1>11, <2>1 DEF Wanted
<1>15. cd'.queue # <<>>
  BY <1>9
<1>16. Kinds(cd') /\ Duties(cd')
  BY <1>1, <1>4, <1>15 DEF Kinds, Duties
<1>17. DriverInv(cd', n + 1, withdrawn)
  BY <1>4, <1>13, <1>14, <1>15, <1>16 DEF DriverInv, QueueInv
<1>18. Machine(cd')
  BY <1>4 DEF Base, Machine
<1> QED BY <1>2, <1>5, <1>17, <1>18 DEF Base

LEMMA WakeUpDoes ==
  ASSUME WakeUp, Driver(cd)
  PROVE  Only(cd, cd', {"irq"}) /\ cd'.irq = cd.irq \cup {"TXPENDING"}
BY DEF WakeUp, Only, Driver, Fields

LEMMA ReleaseDoes ==
  ASSUME Release, Driver(cd)
  PROVE  Only(cd, cd', {"tail"}) /\ cd'.tail = Next1(cd.tail)
BY DEF Release, Only, Driver, Fields

LEMMA CallsKeepBase ==
  ASSUME Base, WakeUp \/ Fetch \/ Release
  PROVE  Base'
<1>1. Driver(cd)
  BY DEF Base, DriverInv, QueueInv
<1>2. CASE WakeUp
  <2>1. Only(cd, cd', {"irq"})
    BY <1>1, <1>2, WakeUpDoes
  <2>2. /\ cd'.sm = cd.sm /\ cd'.held = cd.held /\ cd'.rx = cd.rx /\ cd'.isr = cd.isr
        /\ cd'.head = cd.head /\ cd'.tail = cd.tail
    BY <2>1 DEF Only, Fields
  <2>3. DriverInv(cd', sent, withdrawn) /\ Machine(cd')
    <3>1. DriverInv(cd', sent, withdrawn)
      BY <2>1, <2>2, DriverKept DEF Base
    <3> QED BY <2>2, <3>1 DEF Base, Machine
  <2>4. Counted' /\ BusOK' /\ main' = "idle" /\ withdrawn' = withdrawn /\ sent' = sent
    BY <1>2 DEF WakeUp, Counted, BusOK, Base, counters
  <2> QED BY <2>3, <2>4 DEF Base
<1>3. CASE Fetch
  <2>1. Counted' /\ BusOK' /\ main' = "release" /\ withdrawn' = withdrawn /\ sent' = sent /\ cd' = cd
    BY <1>3 DEF Fetch, Counted, BusOK, Base, counters
  <2> QED BY <2>1 DEF Base
<1>4. CASE Release
  <2>1. Only(cd, cd', {"tail"}) /\ cd'.tail = Next1(cd.tail)
    BY <1>1, <1>4, ReleaseDoes
  <2>2. /\ cd'.sm = cd.sm /\ cd'.held = cd.held /\ cd'.rx = cd.rx /\ cd'.isr = cd.isr
        /\ cd'.head = cd.head
    BY <2>1 DEF Only, Fields
  <2>3. DriverInv(cd', sent, withdrawn)
    BY <2>1, <2>2, DriverKept DEF Base
  <2>4. Machine(cd')
    BY <2>1, <2>2, NextPlace DEF Base, Machine
  <2>5. Counted' /\ BusOK' /\ main' = "idle" /\ withdrawn' = withdrawn /\ sent' = sent
    BY <1>4 DEF Release, Counted, BusOK, Base, counters
  <2> QED BY <2>3, <2>4, <2>5 DEF Base
<1> QED BY <1>2, <1>3, <1>4

(* The interface is started and stopped.                                   *)
LEMMA StopDoes ==
  ASSUME NEW d, Driver(d)
  PROVE  LET e == Stop(d)
         IN /\ Only(d, e, {"irq", "stall", "key", "sync", "isr", "rx", "sm", "on", "inte"})
            /\ e.on = FALSE /\ e.inte = {} /\ e.irq = {"TXPENDING"} /\ e.stall = FALSE
            /\ e.key = NoKey /\ e.sync = "lost" /\ e.isr = <<>> /\ e.rx = <<>>
            /\ e.sm \in {"stuck", "conflict", "off"}
<1> DEFINE s == SmSetup(d)
           e == Stop(d)
<1>1. /\ Only(d, s, {"irq", "stall", "key", "sync", "isr", "rx", "sm"})
      /\ s.irq = {"TXPENDING"} /\ s.stall = FALSE /\ s.key = NoKey
      /\ s.sync = "lost" /\ s.isr = <<>> /\ s.rx = <<>>
      /\ s.sm \in {"stuck", "conflict", "off"}
  BY SmSetupDoes
<1>2. e = [s EXCEPT !.on = FALSE, !.inte = {}]
  BY DEF Stop
<1> HIDE DEF s, e
<1>3. Only(s, e, {"on", "inte"}) /\ e.on = FALSE /\ e.inte = {}
  BY <1>1, <1>2 DEF Only, Driver, Fields
<1>4. Only(d, e, {"irq", "stall", "key", "sync", "isr", "rx", "sm", "on", "inte"})
  BY <1>1, <1>3 DEF Only
<1>5. /\ e.irq = s.irq /\ e.stall = s.stall /\ e.key = s.key /\ e.sync = s.sync
      /\ e.isr = s.isr /\ e.rx = s.rx /\ e.sm = s.sm
  BY <1>3 DEF Only, Fields
<1> QED BY <1>1, <1>3, <1>4, <1>5 DEF e

Begun0 ==
  {"queue", "tx", "report", "parse", "msg", "on", "irq", "stall", "key", "sync", "isr", "rx",
   "sm", "slow", "inte", "rxLost"}

(* A driver that has been started, or stopped.                             *)
Started(e) ==
  /\ e.on = TRUE /\ e.queue = <<>> /\ e.tx = "IDLE" /\ e.report = "IDLE" /\ e.parse = "DISCARD"
  /\ e.inte = {"MAYTX", "TXPENDING"} /\ e.irq = {"TXPENDING"} /\ e.stall = FALSE
  /\ e.sync = "lost" /\ e.isr = <<>> /\ e.rx = <<>> /\ e.sm \in {"stuck", "conflict", "off"}

LEMMA StartDoes ==
  ASSUME NEW d, Driver(d)
  PROVE  Only(d, Start(d), Begun0) /\ Started(Start(d))
<1> DEFINE p == Setup(d)
           s == SmSetup(p)
           t == [s EXCEPT !.on = TRUE]
           e == GoDiscard(t)
<1>1. /\ Only(d, p, {"queue", "tx", "report", "parse", "msg"})
      /\ p.queue = <<>> /\ p.tx = "IDLE" /\ p.report = "IDLE"
  BY DEF Setup, Only, Driver, Fields
<1> HIDE DEF p
<1>2. Driver(p)
  BY <1>1 DEF Only
<1>3. /\ Only(p, s, {"irq", "stall", "key", "sync", "isr", "rx", "sm"})
      /\ s.irq = {"TXPENDING"} /\ s.stall = FALSE
      /\ s.sync = "lost" /\ s.isr = <<>> /\ s.rx = <<>>
      /\ s.sm \in {"stuck", "conflict", "off"}
  BY <1>2, SmSetupDoes
<1> HIDE DEF s
<1>4. Only(s, t, {"on"}) /\ t.on = TRUE
  BY <1>3 DEF Only, Driver, Fields
<1> HIDE DEF t
<1>5. /\ t.queue = <<>> /\ t.tx = "IDLE" /\ t.irq = {"TXPENDING"} /\ t.stall = FALSE
      /\ t.sync = "lost" /\ t.isr = <<>> /\ t.rx = <<>> /\ t.sm \in {"stuck", "conflict", "off"}
  BY <1>1, <1>3, <1>4 DEF Only, Fields
<1>6. Driver(t) /\ ~t.stall
  BY <1>4, <1>5 DEF Only
<1>7. /\ e.report = "IDLE" /\ e.parse = "DISCARD" /\ e.inte = {"MAYTX", "TXPENDING"}
      /\ Only(t, e, {"report", "slow", "key", "inte", "parse"})
  <2>1. /\ e.report = "IDLE" /\ e.slow = TRUE /\ e.parse = "DISCARD"
        /\ e.inte = {"MAYTX", "TXPENDING"}
        /\ \/ t.stall
           \/ ~t.stall /\ Only(t, e, {"report", "slow", "key", "inte", "parse"})
    BY <1>6, GoDiscardDoes
  <2> QED BY <1>6, <2>1
<1>8. e = Start(d)
  BY DEF Start, s, t, p
<1> HIDE DEF e
<1>9. Started(e)
  BY <1>4, <1>5, <1>7 DEF Only, Fields, Started
<1>10. Only(d, e, Begun0)
  <2>1. Only(d, s, {"queue", "tx", "report", "parse", "msg", "irq", "stall", "key", "sync", "isr",
                    "rx", "sm"})
    BY <1>1, <1>3 DEF Only
  <2>2. Only(s, e, {"on", "report", "slow", "key", "inte", "parse"})
    BY <1>4, <1>7 DEF Only
  <2> QED BY <2>1, <2>2 DEF Only, Begun0
<1> QED BY <1>8, <1>9, <1>10

LEMMA StartKeeps ==
  ASSUME NEW d, Driver(d), NEW n \in Nat, NEW W, d.confirmed \in Seq(1 .. n),
         Increasing(d.confirmed), d.held \in Nat, d.head \in Places, d.tail \in Places
  PROVE  DriverInv(Start(d), n, W) /\ Machine(Start(d))
<1> DEFINE e == Start(d)
<1>1. Only(d, e, Begun0) /\ Started(e)
  BY StartDoes
<1> HIDE DEF e
<1>2. /\ e.confirmed = d.confirmed /\ e.held = d.held /\ e.head = d.head /\ e.tail = d.tail
      /\ Driver(e)
  BY <1>1 DEF Only, Fields, Begun0
<1>3. <<>> \in Seq(1 .. n) /\ Len(<<>>) = 0
  OBVIOUS
<1>4. IsASequence(<<>>)
  BY <1>3 DEF IsASequence
<1>5. Machine(e)
  BY <1>1, <1>2, <1>4 DEF Machine, Started
<1>6. e.queue \in Seq(1 .. n) /\ Len(e.queue) = 0
  BY <1>1, <1>3 DEF Started
<1>7. Ordered(e, n)
  BY <1>2, <1>6, CanAssumption DEF Ordered, Increasing
<1>8. Wanted(e, W)
  BY <1>1, <1>6 DEF Wanted, Started
<1>9. Kinds(e) /\ Duties(e) /\ e.tx # "QUEUED"
  BY <1>1 DEF Kinds, Duties, Started, Lines
<1> QED BY <1>2, <1>5, <1>7, <1>8, <1>9 DEF DriverInv, QueueInv, e

LEMMA StopKeeps ==
  ASSUME NEW d, NEW n \in Nat, NEW W, DriverInv(d, n, W), Machine(d), NEW V
  PROVE  DriverInv(Stop(d), n, V) /\ Machine(Stop(d))
<1> DEFINE e == Stop(d)
<1>1. /\ Only(d, e, {"irq", "stall", "key", "sync", "isr", "rx", "sm", "on", "inte"})
      /\ e.on = FALSE /\ e.inte = {} /\ e.irq = {"TXPENDING"} /\ e.stall = FALSE
      /\ e.key = NoKey /\ e.sync = "lost" /\ e.isr = <<>> /\ e.rx = <<>>
      /\ e.sm \in {"stuck", "conflict", "off"}
  BY StopDoes DEF DriverInv, QueueInv
<1> HIDE DEF e
<1>2. /\ e.confirmed = d.confirmed /\ e.held = d.held /\ e.head = d.head /\ e.tail = d.tail
      /\ e.queue = d.queue /\ e.tx = d.tx /\ e.report = d.report /\ e.parse = d.parse
      /\ Driver(e)
  BY <1>1 DEF Only, Fields
<1>3. Machine(e)
  BY <1>1, <1>2, OneMore DEF Machine
<1>4. Ordered(e, n) /\ (e.tx = "QUEUED" => e.queue # <<>>)
  BY <1>2 DEF Ordered, DriverInv, QueueInv
<1>5. Wanted(e, V)
  BY <1>1 DEF Wanted
<1>6. Kinds(e) /\ Duties(e)
  BY <1>1, <1>2 DEF Kinds, Duties, DriverInv, QueueInv
<1> QED BY <1>2, <1>3, <1>4, <1>5, <1>6 DEF DriverInv, QueueInv, e

LEMMA RestartsKeepBase ==
  ASSUME Base, ClearTx \/ Deinit \/ CanInit
  PROVE  Base'
<1>1. Driver(cd) /\ sent \in Nat /\ withdrawn \subseteq 1 .. sent
      /\ DriverInv(cd, sent, withdrawn) /\ Machine(cd) /\ Ordered(cd, sent)
  BY DEF Base, DriverInv, QueueInv, Counted
<1>2. withdrawn \cup ToSet(cd.queue) \subseteq 1 .. sent
  <2>1. cd.queue \in Seq(1 .. sent)
    BY <1>1 DEF Ordered
  <2>2. ToSet(cd.queue) \subseteq 1 .. sent
    BY <2>1, SetOf
  <2> QED BY <1>1, <2>2
<1>3. DriverInv(Stop(cd), sent, withdrawn') /\ Machine(Stop(cd))
  BY <1>1, StopKeeps
<1>4. CASE ClearTx
  <2>1. /\ cd' = Start(Stop(cd)) /\ withdrawn' \subseteq 1 .. sent /\ sent' = sent /\ main' = main
        /\ Counted' /\ BusOK'
    BY <1>2, <1>4 DEF ClearTx, Withdraw, Base, Counted, Room, BusOK
  <2> DEFINE s == Stop(cd)
  <2> HIDE DEF s
  <2>2. /\ Driver(s) /\ s.confirmed \in Seq(1 .. sent) /\ Increasing(s.confirmed)
        /\ s.held \in Nat /\ s.head \in Places /\ s.tail \in Places
    BY <1>3 DEF DriverInv, QueueInv, Ordered, Machine, s
  <2>3. DriverInv(Start(s), sent, withdrawn') /\ Machine(Start(s))
    BY <1>1, <2>2, StartKeeps
  <2> QED BY <2>1, <2>3 DEF Base, s
<1>5. CASE Deinit
  <2>1. /\ cd' = Stop(cd) /\ withdrawn' \subseteq 1 .. sent /\ sent' = sent /\ main' = main
        /\ Counted' /\ BusOK'
    BY <1>2, <1>5 DEF Deinit, Withdraw, Base, Counted, Room, BusOK
  <2> QED BY <1>3, <2>1 DEF Base
<1>6. CASE CanInit
  <2> DEFINE z == [cd EXCEPT !.head = 0, !.tail = 0, !.rxLost = FALSE, !.bufferLost = FALSE]
  <2>1. /\ cd' = Start(z) /\ withdrawn' = withdrawn /\ sent' = sent /\ main' = main
        /\ Counted' /\ BusOK'
    BY <1>6 DEF CanInit, Untouched, counters, Base, Counted, BusOK
  <2>2. Only(cd, z, {"head", "tail", "rxLost", "bufferLost"}) /\ z.head = 0 /\ z.tail = 0
    BY <1>1 DEF Only, Driver, Fields
  <2> HIDE DEF z
  <2>3. z.confirmed = cd.confirmed /\ z.held = cd.held /\ Driver(z)
    BY <2>2 DEF Only, Fields
  <2>4. 0 \in Places
    BY CanAssumption DEF Places
  <2>5. /\ z.confirmed \in Seq(1 .. sent) /\ Increasing(z.confirmed)
        /\ z.held \in Nat /\ z.head \in Places /\ z.tail \in Places
    BY <1>1, <2>2, <2>3, <2>4 DEF Ordered, Machine
  <2>6. DriverInv(Start(z), sent, withdrawn) /\ Machine(Start(z))
    BY <1>1, <2>3, <2>5, StartKeeps
  <2> QED BY <1>1, <2>1, <2>6 DEF Base
<1> QED BY <1>4, <1>5, <1>6

LEMMA ZeroedDoes ==
  /\ Driver(Zeroed) /\ Zeroed.confirmed = <<>> /\ Zeroed.held = 0
  /\ Zeroed.head = 0 /\ Zeroed.tail = 0 /\ Zeroed.heard = <<>>
  /\ Zeroed.slots = [i \in Places |-> NoFrame] /\ Zeroed.bufferLost = FALSE
BY DEF Zeroed, Driver, Fields, Places

LEMMA InitBase ==
  ASSUME Init PROVE Base
<1>1. 0 \in Places /\ 0 \in Nat
  BY CanAssumption DEF Places
<1>2. Zeroed.confirmed \in Seq(1 .. 0) /\ Increasing(Zeroed.confirmed)
  BY ZeroedDoes DEF Increasing
<1>3. DriverInv(Start(Zeroed), 0, {}) /\ Machine(Start(Zeroed))
  BY <1>1, <1>2, ZeroedDoes, StartKeeps
<1>4. Counted
  BY CanAssumption DEF Init, Counted
<1> QED BY <1>3, <1>4 DEF Init, Base, BusOK

LEMMA NextKeepsBase ==
  ASSUME Base, [Next]_vars PROVE Base'
<1>1. CASE UNCHANGED vars
  BY <1>1 DEF vars, Base, Counted, BusOK, history, counters
<1>2. CASE Irq
  BY <1>2, IrqKeepsBase
<1>3. CASE OwnFrame \/ \E same \in BOOLEAN : OtherFrame(same)
  BY <1>3, FramesKeepBase
<1>4. CASE LineStep
  BY <1>4, LineKeepsBase
<1>5. CASE Field
  BY <1>5, FieldKeepsBase
<1>6. CASE Enqueue
  BY <1>6, EnqueueKeepsBase
<1>7. CASE WakeUp \/ Fetch \/ Release
  BY <1>7, CallsKeepBase
<1>8. CASE ClearTx \/ Deinit \/ CanInit
  BY <1>8, RestartsKeepBase
<1> QED BY <1>1, <1>2, <1>3, <1>4, <1>5, <1>6, <1>7, <1>8 DEF Next, LineStep

LEMMA AlwaysBase == Spec => []Base
<1>1. Init => Base
  BY InitBase
<1>2. Base /\ [Next]_vars => Base'
  BY NextKeepsBase
<1> QED BY <1>1, <1>2, PTL DEF Spec

(* For every size of the queue, the ring and the receive FIFO, and any     *)
(* number of fragments, frames, faults and restarts: the states of struct  *)
(* can2040 stay among those the functions of can2040.c know, the queue     *)
(* within its array, the ring's indices within the ring.                   *)
THEOREM TypesKept == Spec => []TypeOK
<1>1. Base => TypeOK
  <2> SUFFICES ASSUME Base PROVE TypeOK
    OBVIOUS
  <2>1. Kinds(cd) /\ Ordered(cd, sent) /\ Machine(cd)
    BY DEF Base, DriverInv, QueueInv
  <2>2. sent \in Nat /\ sent <= MaxEvents /\ MaxEvents \in Nat
    BY CanAssumption DEF Base, Counted
  <2>3. cd.queue \in Seq(1 .. MaxEvents)
    <3>1. 1 .. sent \subseteq 1 .. MaxEvents
      BY <2>2
    <3>2. cd.queue \in Seq(1 .. sent)
      BY <2>1 DEF Ordered
    <3> QED BY <3>1, <3>2, Wider
  <2>4. Len(cd.queue) <= QueueSize
    BY <2>1 DEF Ordered
  <2> QED BY <2>1, <2>3, <2>4 DEF TypeOK, Base, Kinds, Lines, Machine, Places
<1> QED BY <1>1, AlwaysBase, PTL

(* tx_cb reports fragments as transmitted in the order in which LibPQP     *)
(* enqueued them and each once, whatever the bus, late interrupts and      *)
(* restarts do.                                                            *)
THEOREM InOrder == Spec => []ConfirmedInOrder
<1>1. Base => ConfirmedInOrder
  BY DEF Base, DriverInv, QueueInv, Ordered, ConfirmedInOrder
<1> QED BY <1>1, AlwaysBase, PTL

-----------------------------------------------------------------------------
(***************************************************************************)
(* What a field does to what is received and to what is being sent.        *)
(***************************************************************************)
Late == {"CRC", "ACK", "EOF0"}

Accepts(d, f, e) ==
  /\ f.is = "header" /\ d.parse = "HEADER" /\ e.parse = "CRC" /\ HearsNothing(d, e)
  /\ e.sm = d.sm /\ e.load = d.load /\ e.queue = d.queue /\ e.msg = f.frame

AcceptsOther(d, f, e) ==
  /\ Accepts(d, f, e) /\ e.tx = d.tx
  /\ ~(d.tx = "QUEUED" /\ ~f.frame.same /\ f.frame.own /\ f.frame.n = Head(d.queue))

AcceptsOwn(d, f, e) ==
  /\ Accepts(d, f, e) /\ ~Receiving(e)
  /\ d.tx = "QUEUED" /\ f.frame.own /\ e.tx = "CONFIRM_TX"

Continues(d, f, e) ==
  /\ e.sm = d.sm /\ e.load = d.load /\ e.tx = d.tx
  /\ e.queue = d.queue \/ d.report = "TX_EOF"
  /\ Receiving(e) => Receiving(d) /\ e.msg = d.msg /\ HearsNothing(d, e)
  /\ d.stall => f.is # "header" /\ (d.parse \in Late => e.parse \in Late)

Flows(d, f, e) ==
  \/ (d.stall \/ f.is = "quiet") /\ Reset(e)
  \/ AcceptsOther(d, f, e) \/ AcceptsOwn(d, f, e) \/ Continues(d, f, e)

LEMMA ContinuesOnly ==
  ASSUME NEW d, NEW f, NEW e, Only(d, e, {"report", "key", "parse", "inte", "slow"}),
         Receiving(e) => Receiving(d),
         d.stall => f.is # "header" /\ (d.parse \in Late => e.parse \in Late)
  PROVE  Continues(d, f, e)
<1>1. HearsNothing(d, e)
  BY Unheard
<1>2. e.sm = d.sm /\ e.load = d.load /\ e.tx = d.tx /\ e.queue = d.queue /\ e.msg = d.msg
  BY DEF Only, Fields
<1> QED BY <1>1, <1>2 DEF Continues

LEMMA DiscardFlows ==
  ASSUME NEW d, Driver(d), NEW f
  PROVE  Flows(d, f, GoDiscard(d))
<1> DEFINE e == GoDiscard(d)
<1>1. CASE d.stall
  BY <1>1, GoDiscardStreams DEF Flows
<1>2. CASE ~d.stall
  <2>1. Only(d, e, {"report", "slow", "key", "inte", "parse"}) /\ e.report = "IDLE"
    <3>1. /\ e.report = "IDLE"
          /\ \/ d.stall
             \/ ~d.stall /\ Only(d, e, {"report", "slow", "key", "inte", "parse"})
      BY GoDiscardDoes
    <3> QED BY <1>2, <3>1
  <2> HIDE DEF e
  <2>2. Only(d, e, {"report", "key", "parse", "inte", "slow"}) /\ ~Receiving(e)
    BY <2>1 DEF Only, Receiving
  <2>3. Continues(d, f, e)
    BY <1>2, <2>2, ContinuesOnly
  <2> QED BY <2>3 DEF Flows, e
<1> QED BY <1>1, <1>2

LEMMA EofSuccessQueue ==
  ASSUME NEW d, Driver(d)
  PROVE  LET s == EofSuccess(d)
         IN /\ s.sm = d.sm /\ s.load = d.load /\ s.tx = d.tx
            /\ s.queue = d.queue \/ d.report = "TX_EOF"
<1> DEFINE h == HandleEof(d)
           s == EofSuccess(d)
<1>1. CASE d.report = "IDLE"
  BY <1>1 DEF EofSuccess
<1>2. CASE d.report # "IDLE"
  <2>1. s = IrqSet(h, {"TXPENDING"})
    BY <1>2 DEF EofSuccess
  <2>2. Told(d, h)
    BY HandleEofDoes
  <2>3. /\ h.sm = d.sm /\ h.load = d.load /\ h.tx = d.tx /\ Driver(h)
        /\ h.queue = d.queue \/ d.report = "TX_EOF"
    BY <2>2 DEF Told, Only, Fields
  <2> HIDE DEF h, s
  <2>4. Only(h, s, {"inte"})
    BY <2>1, <2>3, IrqSetDoes
  <2>5. s.sm = h.sm /\ s.load = h.load /\ s.tx = h.tx /\ s.queue = h.queue
    BY <2>4 DEF Only, Fields
  <2> QED BY <2>3, <2>5 DEF s
<1> QED BY <1>1, <1>2

LEMMA UpdateEof1Flows ==
  ASSUME NEW d, Driver(d), NEW f, NEW first, f.is # "header", d.parse = "EOF1"
  PROVE  Flows(d, f, UpdateEof1(d, first))
<1> DEFINE s == EofSuccess(d)
           e == UpdateEof1(d, first)
           g == GoDiscard(s)
           r == [s EXCEPT !.parse = "START"]
<1>1. Driver(s) /\ s.report = "IDLE" /\ Streams(d, s)
  BY EofSuccessDoes
<1>2. /\ s.sm = d.sm /\ s.load = d.load /\ s.tx = d.tx
      /\ s.queue = d.queue \/ d.report = "TX_EOF"
  BY EofSuccessQueue
<1>3. e \in {r, g, GoDiscard(d)}
  BY DEF UpdateEof1
<1> HIDE DEF s, e
<1>4. d.parse \notin Late
  BY DEF Late
<1>5. Flows(d, f, r)
  <2>1. Only(s, r, {"parse"})
    BY <1>1 DEF Only, Driver, Fields
  <2> HIDE DEF r
  <2>2. /\ r.sm = s.sm /\ r.load = s.load /\ r.tx = s.tx /\ r.queue = s.queue
        /\ r.report = s.report
    BY <2>1 DEF Only, Fields
  <2>3. Continues(d, f, r)
    BY <1>1, <1>2, <1>4, <2>2 DEF Continues, Receiving
  <2> QED BY <2>3 DEF Flows
<1>6. Flows(d, f, g)
  <2>1. s.stall = d.stall
    BY <1>1 DEF Streams
  <2>2. CASE d.stall
    BY <1>1, <2>1, <2>2, GoDiscardStreams DEF Flows
  <2>3. CASE ~d.stall
    <3>1. Only(s, g, {"report", "slow", "key", "inte", "parse"}) /\ g.report = "IDLE"
      <4>1. /\ g.report = "IDLE"
            /\ \/ s.stall
               \/ ~s.stall /\ Only(s, g, {"report", "slow", "key", "inte", "parse"})
        BY <1>1, GoDiscardDoes
      <4> QED BY <2>1, <2>3, <4>1
    <3> HIDE DEF g
    <3>2. g.sm = s.sm /\ g.load = s.load /\ g.tx = s.tx /\ g.queue = s.queue
      BY <3>1 DEF Only, Fields
    <3>3. Continues(d, f, g)
      BY <1>2, <2>3, <3>1, <3>2 DEF Continues, Receiving
    <3> QED BY <3>3 DEF Flows
  <2> QED BY <2>2, <2>3
<1>7. Flows(d, f, GoDiscard(d))
  BY DiscardFlows
<1> QED BY <1>3, <1>5, <1>6, <1>7 DEF e

LEMMA HeaderFlows ==
  ASSUME NEW d, Driver(d), NEW f, f.is = "header", d.parse = "HEADER"
  PROVE  Flows(d, f, GoCrc(Parsed(d, f.frame)))
<1> DEFINE p == Parsed(d, f.frame)
           e == GoCrc(p)
<1>1. Only(d, p, {"msg"}) /\ p.msg = f.frame
  BY ParsedDoes
<1>2. Driver(p)
  BY <1>1 DEF Only
<1>3. /\ p.tx = d.tx /\ p.queue = d.queue /\ p.sm = d.sm /\ p.load = d.load /\ p.stall = d.stall
      /\ p.parse = d.parse
  BY <1>1 DEF Only, Fields
<1>4. e = GoDiscard(p) \/ Accepted(p, e)
  BY <1>2, GoCrcDoes
<1>5. HearsNothing(d, p) /\ p.tail = d.tail /\ p.on = d.on
  BY <1>1, Unheard
<1> HIDE DEF p
<1>6. CASE Accepted(p, e)
  <2> HIDE DEF e
  <2>1. Only(p, e, {"tx", "report", "key", "parse", "inte", "irq"}) /\ e.parse = "CRC"
    BY <1>6 DEF Accepted, Only
  <2>2. HearsNothing(p, e)
    BY <2>1, Unheard
  <2>3. HearsNothing(d, e)
    BY <1>5, <2>2 DEF HearsNothing
  <2>4. e.queue = p.queue /\ e.sm = p.sm /\ e.load = p.load /\ e.msg = p.msg
    BY <2>1 DEF Only, Fields
  <2>5. Accepts(d, f, e)
    BY <1>1, <1>3, <2>1, <2>3, <2>4 DEF Accepts
  <2>6. CASE LocalMessage(p) = "local"
    <3>1. p.msg.own /\ p.tx = "QUEUED"
      BY <2>6 DEF LocalMessage
    <3>2. e.tx = "CONFIRM_TX" /\ e.report = "TX_ACK"
      BY <1>6, <2>6 DEF Accepted
    <3>3. AcceptsOwn(d, f, e)
      BY <1>1, <1>3, <2>5, <3>1, <3>2 DEF AcceptsOwn, Receiving
    <3> QED BY <3>3 DEF Flows, e, p
  <2>7. CASE LocalMessage(p) = "other"
    <3>1. ~(p.tx = "QUEUED" /\ ~p.msg.same /\ p.msg.own /\ p.msg.n = Head(p.queue))
      BY <2>7 DEF LocalMessage
    <3>2. Only(p, e, {"inte", "report", "irq", "parse"})
      BY <1>6, <2>7 DEF Accepted
    <3>3. e.tx = p.tx
      BY <3>2 DEF Only, Fields
    <3>4. AcceptsOther(d, f, e)
      BY <1>1, <1>3, <2>5, <3>1, <3>3 DEF AcceptsOther
    <3> QED BY <3>4 DEF Flows, e, p
  <2> QED BY <1>6, <2>6, <2>7 DEF Accepted
<1>7. CASE e = GoDiscard(p)
  <2> HIDE DEF e
  <2>1. CASE d.stall
    <3>1. Reset(e)
      BY <1>2, <1>3, <1>7, <2>1, GoDiscardStreams
    <3> QED BY <2>1, <3>1 DEF Flows, e, p
  <2>2. CASE ~d.stall
    <3>1. Only(p, e, {"report", "slow", "key", "inte", "parse"}) /\ e.report = "IDLE"
      <4>1. /\ e.report = "IDLE"
            /\ \/ p.stall
               \/ ~p.stall /\ Only(p, e, {"report", "slow", "key", "inte", "parse"})
        BY <1>2, <1>7, GoDiscardDoes
      <4> QED BY <1>3, <2>2, <4>1
    <3>2. e.sm = p.sm /\ e.load = p.load /\ e.tx = p.tx /\ e.queue = p.queue
      BY <3>1 DEF Only, Fields
    <3>3. Continues(d, f, e)
      BY <1>3, <2>2, <3>1, <3>2 DEF Continues, Receiving
    <3> QED BY <3>3 DEF Flows, e, p
  <2> QED BY <2>1, <2>2
<1> QED BY <1>4, <1>6, <1>7 DEF p

LEMMA ProcessRxFlows ==
  ASSUME NEW d, Driver(d), NEW f
  PROVE  Flows(d, f, ProcessRx(d, f))
<1> DEFINE e == ProcessRx(d, f)
<1>1. Parses(d, f, e)
  BY ProcessRxDoes
<1> HIDE DEF e
<1>2. Flows(d, f, GoDiscard(d))
  BY DiscardFlows
<1>3. ASSUME Only(d, e, {"report", "key", "parse", "inte", "slow"}), Receiving(e) => Receiving(d),
             d.stall => f.is # "header" /\ (d.parse \in Late => e.parse \in Late)
      PROVE  Flows(d, f, e)
  BY <1>3, ContinuesOnly DEF Flows
<1>4. CASE f.is = "part" /\ e = d
  <2>1. Only(d, e, {"report", "key", "parse", "inte", "slow"})
    BY <1>4 DEF Only
  <2> QED BY <1>3, <1>4, <2>1 DEF e
<1>5. CASE f.is # "header" /\ e = LinePassive(d)
  <2> DEFINE g == GoDiscard(d)
  <2>1. /\ Only(g, e, {"parse"}) /\ e.parse = IF d.stall THEN "DISCARD" ELSE "START"
        /\ g.report = "IDLE"
        /\ \/ d.stall
           \/ ~d.stall /\ Only(d, g, {"report", "slow", "key", "inte", "parse"})
    BY <1>5, LinePassiveDoes, GoDiscardDoes
  <2>2. d.stall => Reset(g)
    BY GoDiscardStreams
  <2> HIDE DEF g
  <2>3. e.report = g.report
    BY <2>1 DEF Only, Fields
  <2>4. CASE d.stall
    <3>1. e.parse = "DISCARD"
      BY <2>1, <2>4
    <3>2. Reset(e)
      BY <2>1, <2>2, <2>4, <3>1 DEF Reset, Only, Fields
    <3> QED BY <2>4, <3>2 DEF Flows, e
  <2>5. CASE ~d.stall
    <3>1. Only(d, e, {"report", "key", "parse", "inte", "slow"})
      BY <2>1, <2>5 DEF Only
    <3>2. ~Receiving(e)
      BY <2>1, <2>3 DEF Receiving
    <3> QED BY <1>3, <2>5, <3>1, <3>2 DEF e
  <2> QED BY <2>4, <2>5
<1>14. CASE f.is = "quiet" /\ e = LineQuiet(d)
  <2>1. Reset(e)
    BY <1>14, LineQuietDoes DEF Reset
  <2> QED BY <1>14, <2>1 DEF Flows, e
<1>6. CASE f.is = "sof" /\ d.parse = "START" /\ e = MessageStart(d)
  <2>1. Only(d, e, {"report", "key", "parse", "inte", "slow"}) /\ e.report = d.report
    BY <1>6 DEF MessageStart, IrqSet, Only, Driver, Fields
  <2>2. d.parse \notin Late
    BY <1>6 DEF Late
  <2> QED BY <1>3, <1>6, <2>1, <2>2 DEF Receiving, e
<1>7. CASE f.is = "header" /\ d.parse = "HEADER" /\ e = GoCrc(Parsed(d, f.frame))
  BY <1>7, HeaderFlows DEF e
<1>8. CASE f.is = "crc" /\ d.parse = "CRC" /\ e = UpdateCrc(d, f.good)
  <2>1. CASE f.good
    <3> DEFINE c == NoteCrcSuccess(d)
    <3>1. e = [c EXCEPT !.parse = "ACK"]
      BY <1>8, <2>1 DEF UpdateCrc
    <3>2. Only(d, c, {"inte"})
      <4>1. c = d \/ c = IrqSet(d, {"MAYTX", "MATCHED"})
        BY DEF NoteCrcSuccess
      <4>2. Only(d, d, {"inte"}) /\ Only(d, IrqSet(d, {"MAYTX", "MATCHED"}), {"inte"})
        BY IrqSetDoes DEF Only
      <4> QED BY <4>1, <4>2
    <3> HIDE DEF c
    <3>3. Only(c, e, {"parse"}) /\ e.parse = "ACK"
      BY <3>1, <3>2 DEF Only, Driver, Fields
    <3>4. Only(d, e, {"report", "key", "parse", "inte", "slow"}) /\ e.report = d.report
      BY <3>2, <3>3 DEF Only, Fields
    <3> QED BY <1>3, <1>8, <3>3, <3>4 DEF Receiving, Late, e
  <2>2. CASE ~f.good
    <3>1. e = GoDiscard(d)
      BY <1>8, <2>2 DEF UpdateCrc
    <3> QED BY <1>2, <3>1 DEF e
  <2> QED BY <2>1, <2>2
<1>9. CASE f.is = "ack" /\ d.parse = "ACK" /\ e = UpdateAck(d, f.good)
  <2>1. CASE f.good
    <3> DEFINE w == WithEofFlag(d)
    <3>1. e = [w EXCEPT !.parse = "EOF0"]
      BY <1>9, <2>1 DEF UpdateAck
    <3>2. /\ Only(d, w, {"report"})
          /\ w.report = CASE d.report = "RX_ACK" -> "RX_EOF"
                          [] d.report = "TX_ACK" -> "TX_EOF"
                          [] OTHER -> d.report
      BY WithEofFlagDoes
    <3> HIDE DEF w
    <3>3. Only(w, e, {"parse"}) /\ e.parse = "EOF0"
      BY <3>1, <3>2 DEF Only, Driver, Fields
    <3>4. Only(d, e, {"report", "key", "parse", "inte", "slow"}) /\ e.report = w.report
      BY <3>2, <3>3 DEF Only, Fields
    <3>5. Receiving(e) => Receiving(d)
      <4>1. CASE d.report = "TX_ACK"
        BY <3>2, <3>4, <4>1 DEF Receiving
      <4>2. CASE d.report \notin {"TX_ACK", "RX_ACK"}
        BY <3>2, <3>4, <4>2 DEF Receiving
      <4>3. CASE d.report = "RX_ACK"
        BY <4>3 DEF Receiving
      <4> QED BY <4>1, <4>2, <4>3
    <3> QED BY <1>3, <1>9, <3>3, <3>4, <3>5 DEF Late, e
  <2>2. CASE ~f.good
    <3>1. e = GoDiscard(d)
      BY <1>9, <2>2 DEF UpdateAck
    <3> QED BY <1>2, <3>1 DEF e
  <2> QED BY <2>1, <2>2
<1>10. CASE f.is = "eof0" /\ d.parse = "EOF0" /\ e = UpdateEof0(d)
  <2>1. CASE d.stall
    <3>1. e = GoDiscard(d)
      BY <1>10, <2>1 DEF UpdateEof0
    <3> QED BY <1>2, <3>1 DEF e
  <2>2. CASE ~d.stall
    <3>1. e = [d EXCEPT !.parse = "EOF1"]
      BY <1>10, <2>2 DEF UpdateEof0
    <3>2. Only(d, e, {"report", "key", "parse", "inte", "slow"}) /\ e.report = d.report
      BY <3>1 DEF Only, Driver, Fields
    <3> QED BY <1>3, <2>2, <3>2 DEF Receiving, e
  <2> QED BY <2>1, <2>2
<1>11. CASE f.is = "eof1" /\ d.parse = "EOF1" /\ e = UpdateEof1(d, f.first)
  BY <1>11, UpdateEof1Flows DEF e
<1>12. CASE e = GoDiscard(d)
  BY <1>2, <1>12 DEF e
<1>13. Flows(d, f, e)
  BY <1>1, <1>4, <1>5, <1>6, <1>7, <1>8, <1>9, <1>10, <1>11, <1>12, <1>14 DEF Parses, e
<1> QED BY <1>13 DEF e

-----------------------------------------------------------------------------
(***************************************************************************)
(* What is on its way to the parser: a driver d that has still to handle   *)
(* the fields of p after the first k, when m frames of other boards have   *)
(* passed the bus, and h tells whether a header of this board is on it.    *)
(***************************************************************************)
Own(p, i) == p[i].is = "header" /\ p[i].frame.own
Other(p, i) == p[i].is = "header" /\ ~p[i].frame.own

(* Frames of the other boards.                                             *)
Foreign == { f \in Frame : ~f.own }

(* What is received is in the order of the bus.                            *)
HeardInOrder(d, m) ==
  /\ d.heard \in Seq(Foreign)
  /\ \A i \in 1 .. Len(d.heard) : d.heard[i].n <= m
  /\ \A i, j \in 1 .. Len(d.heard) : i < j => d.heard[i].n < d.heard[j].n

Coming(d, p, k, m) ==
  \A i \in k + 1 .. Len(p) : Other(p, i) =>
    /\ p[i].frame \in Foreign /\ p[i].frame.n <= m
    /\ \A j \in 1 .. Len(d.heard) : d.heard[j].n < p[i].frame.n
    /\ \A j \in k + 1 .. i - 1 : Other(p, j) => p[j].frame.n < p[i].frame.n

Arriving(d, p, k, m) ==
  Receiving(d) =>
    /\ d.msg \in Foreign /\ d.msg.n <= m
    /\ \A j \in 1 .. Len(d.heard) : d.heard[j].n < d.msg.n
    /\ \A i \in k + 1 .. Len(p) : Other(p, i) => d.msg.n < p[i].frame.n

(* The parser is in a frame that it gives up at the end at the latest.     *)
Dazed(d) == d.stall /\ d.parse \in Late

(* An own header that the parser is going to take for this board's frame.  *)
Live(d, p, k, i) ==
  /\ Own(p, i) /\ ~Dazed(d)
  /\ i = k + 1 => d.parse = "HEADER"
  /\ d.stall => \A j \in k + 1 .. i - 1 : ~Own(p, j)

(* It is that of the fragment which is queued first, and there is one.     *)
Recognised(d, p, k) ==
  \A i \in k + 1 .. Len(p) : Live(d, p, k, i) =>
    /\ d.tx = "QUEUED" /\ p[i].frame.n = Head(d.queue) /\ ~p[i].frame.same
    /\ \A j \in k + 1 .. Len(p) : Live(d, p, k, j) => j = i

(* What the transmitter has loaded is the fragment queued first, and the   *)
(* parser is not still to see its header.                                  *)
Loaded(d, p, k, h) ==
  (d.sm = "send" \/ (d.sm = "sending" /\ h)) /\ ~Dazed(d) =>
    /\ d.tx = "QUEUED" /\ d.queue # <<>> /\ d.load = Head(d.queue)
    /\ d.stall \/ \A i \in k + 1 .. Len(p) : ~Live(d, p, k, i)

FlowInv(d, p, k, m, h) ==
  /\ HeardInOrder(d, m) /\ Coming(d, p, k, m) /\ Arriving(d, p, k, m)
  /\ Recognised(d, p, k) /\ Loaded(d, p, k, h)

(* One frame more, or none, is told as received.                           *)
LEMMA HeardGrows ==
  ASSUME NEW d, NEW e, NEW p, NEW k, NEW m \in Int, HeardInOrder(d, m), Coming(d, p, k, m),
         Arriving(d, p, k, m), Rings(d, e)
  PROVE  HeardInOrder(e, m) /\ Coming(e, p, k, m)
<1>1. CASE e.heard = d.heard
  BY <1>1 DEF HeardInOrder, Coming
<1>2. CASE Receiving(d) /\ e.heard = Append(d.heard, d.msg)
  <2> DEFINE s == d.heard
             t == e.heard
             l == Len(s)
  <2>1. /\ d.msg \in Foreign /\ d.msg.n <= m /\ s \in Seq(Foreign)
        /\ \A j \in 1 .. l : s[j].n < d.msg.n
        /\ \A i \in k + 1 .. Len(p) : Other(p, i) => d.msg.n < p[i].frame.n
    BY <1>2 DEF Arriving, HeardInOrder
  <2>2. /\ t \in Seq(Foreign) /\ l \in Nat /\ Len(t) = l + 1 /\ t[l + 1] = d.msg
        /\ \A i \in 1 .. l : t[i] = s[i]
    BY <1>2, <2>1, Appended
  <2>3. /\ \A i \in 1 .. l : s[i].n <= m
        /\ \A i, j \in 1 .. l : i < j => s[i].n < s[j].n
    BY DEF HeardInOrder
  <2>4. \A i \in k + 1 .. Len(p) : Other(p, i) => \A j \in 1 .. l : s[j].n < p[i].frame.n
    BY DEF Coming
  <2> HIDE DEF s, t, l
  <2>5. \A i \in 1 .. Len(t) : i = l + 1 \/ i \in 1 .. l
    BY <2>2
  <2>6. \A i \in 1 .. Len(t) : t[i].n <= m
    BY <2>1, <2>2, <2>3, <2>5
  <2>7. ASSUME NEW i \in 1 .. Len(t), NEW j \in 1 .. Len(t), i < j PROVE t[i].n < t[j].n
    <3>1. i \in 1 .. l /\ t[i] = s[i]
      BY <2>2, <2>7
    <3>2. CASE j = l + 1
      BY <2>1, <2>2, <3>1, <3>2
    <3>3. CASE j \in 1 .. l
      BY <2>2, <2>3, <2>7, <3>1, <3>3
    <3> QED BY <2>5, <3>2, <3>3
  <2>8. HeardInOrder(e, m)
    BY <2>2, <2>6, <2>7 DEF HeardInOrder, t
  <2>9. ASSUME NEW i \in k + 1 .. Len(p), Other(p, i), NEW j \in 1 .. Len(t)
        PROVE  t[j].n < p[i].frame.n
    <3>1. CASE j = l + 1
      BY <2>1, <2>2, <2>9, <3>1
    <3>2. CASE j \in 1 .. l
      BY <2>2, <2>4, <2>9, <3>2
    <3> QED BY <2>5, <3>1, <3>2
  <2>10. Coming(e, p, k, m)
    BY <2>9 DEF Coming, t
  <2> QED BY <2>8, <2>10
<1> QED BY <1>1, <1>2 DEF Rings, Hears, HearsNothing

(* Nothing is on its way after a reset.                                    *)
LEMMA ResetFlow ==
  ASSUME NEW d, NEW e, NEW p, NEW k, NEW m \in Int, NEW h, FlowInv(d, p, k, m, h), Rings(d, e),
         e.sm \notin {"send", "sending"}, ~Receiving(e)
  PROVE  FlowInv(e, <<>>, 0, m, h)
<1>1. HeardInOrder(e, m)
  BY HeardGrows DEF FlowInv
<1>2. \A i \in 0 + 1 .. Len(<<>>) : FALSE
  OBVIOUS
<1> QED BY <1>1, <1>2 DEF FlowInv, Coming, Arriving, Recognised, Loaded

LEMMA HeaderIsLive ==
  ASSUME NEW d, NEW p, NEW k \in Nat, Own(p, k + 1), d.parse = "HEADER"
  PROVE  Live(d, p, k, k + 1)
<1>1. \A j \in k + 1 .. (k + 1) - 1 : FALSE
  OBVIOUS
<1>2. ~Dazed(d)
  BY DEF Dazed, Late
<1> QED BY <1>1, <1>2 DEF Live

(* A field is handled: what is Live after it was before.                   *)
LEMMA LiveBefore ==
  ASSUME NEW d, NEW e, NEW p, NEW k \in Nat, Len(p) \in Nat, k < Len(p), e.stall = d.stall,
         \/ Accepts(d, p[k + 1], e)
         \/ Continues(d, p[k + 1], e)
  PROVE  /\ ~Dazed(e) => ~Dazed(d)
         /\ \A i \in k + 2 .. Len(p) : Live(e, p, k + 1, i) => Live(d, p, k, i)
<1>1. ASSUME ~Dazed(e) PROVE ~Dazed(d)
  <2>1. CASE Accepts(d, p[k + 1], e)
    BY <2>1 DEF Accepts, Dazed, Late
  <2>2. CASE Continues(d, p[k + 1], e)
    BY <1>1, <2>2 DEF Continues, Dazed
  <2> QED BY <2>1, <2>2
<1>2. ASSUME NEW i \in k + 2 .. Len(p), Live(e, p, k + 1, i) PROVE Live(d, p, k, i)
  <2>1. Own(p, i) /\ ~Dazed(e) /\ ~Dazed(d) /\ i # k + 1
    BY <1>1, <1>2 DEF Live
  <2>2. ASSUME d.stall, NEW j \in k + 1 .. i - 1 PROVE ~Own(p, j)
    <3>1. CASE j = k + 1
      <4>1. CASE Accepts(d, p[k + 1], e)
        BY <2>1, <2>2, <4>1 DEF Accepts, Dazed, Late
      <4>2. CASE Continues(d, p[k + 1], e)
        BY <2>2, <3>1, <4>2 DEF Continues, Own
      <4> QED BY <4>1, <4>2
    <3>2. CASE j # k + 1
      <4>1. j \in (k + 1) + 1 .. i - 1
        BY <3>2
      <4> QED BY <1>2, <2>2, <4>1 DEF Live
    <3> QED BY <3>1, <3>2
  <2> QED BY <2>1, <2>2 DEF Live
<1> QED BY <1>1, <1>2

LEMMA FieldFlows ==
  ASSUME NEW d, NEW e, NEW p, NEW k \in Nat, NEW m \in Int, NEW h,
         Len(p) \in Nat, k < Len(p), FlowInv(d, p, k, m, h), Duties(d), Rings(d, e),
         e.stall = d.stall,
         \/ AcceptsOther(d, p[k + 1], e)
         \/ AcceptsOwn(d, p[k + 1], e)
         \/ Continues(d, p[k + 1], e)
  PROVE  FlowInv(e, p, k + 1, m, h)
<1> DEFINE f == p[k + 1]
<1>1. HeardInOrder(e, m) /\ Coming(e, p, k, m)
  BY HeardGrows DEF FlowInv
<1>2. /\ ~Dazed(e) => ~Dazed(d)
      /\ \A i \in k + 2 .. Len(p) : Live(e, p, k + 1, i) => Live(d, p, k, i)
  BY LiveBefore DEF AcceptsOther, AcceptsOwn
<1>3. (k + 1) + 1 = k + 2 /\ k + 1 \in k + 1 .. Len(p)
      /\ \A i \in k + 2 .. Len(p) : i \in k + 1 .. Len(p) /\ k + 1 \in k + 1 .. i - 1
  OBVIOUS
<1>4. Coming(e, p, k + 1, m)
  <2>1. \A i \in k + 2 .. Len(p) : \A j \in k + 2 .. i - 1 : j \in k + 1 .. i - 1
    OBVIOUS
  <2> QED BY <1>1, <1>3, <2>1 DEF Coming
<1>5. d.parse = "HEADER" /\ Own(p, k + 1)
        => /\ d.tx = "QUEUED" /\ f.frame.n = Head(d.queue) /\ ~f.frame.same
           /\ \A j \in k + 1 .. Len(p) : Live(d, p, k, j) => j = k + 1
           /\ Live(d, p, k, k + 1)
  BY <1>3, HeaderIsLive DEF FlowInv, Recognised
<1>6. Arriving(e, p, k + 1, m)
  <2> SUFFICES ASSUME Receiving(e)
               PROVE  /\ e.msg \in Foreign /\ e.msg.n <= m
                      /\ \A j \in 1 .. Len(e.heard) : e.heard[j].n < e.msg.n
                      /\ \A i \in k + 2 .. Len(p) : Other(p, i) => e.msg.n < p[i].frame.n
    BY <1>3 DEF Arriving
  <2>1. CASE AcceptsOther(d, f, e)
    <3>1. Other(p, k + 1)
      BY <1>5, <2>1 DEF AcceptsOther, Accepts, Own, Other
    <3>2. e.msg = p[k + 1].frame
      BY <2>1 DEF AcceptsOther, Accepts
    <3>3. /\ p[k + 1].frame \in Foreign /\ p[k + 1].frame.n <= m
          /\ \A j \in 1 .. Len(e.heard) : e.heard[j].n < p[k + 1].frame.n
      BY <1>1, <1>3, <3>1 DEF Coming
    <3>4. \A i \in k + 2 .. Len(p) : Other(p, i) => p[k + 1].frame.n < p[i].frame.n
      BY <1>1, <1>3, <3>1 DEF Coming
    <3> QED BY <3>2, <3>3, <3>4
  <2>2. CASE Continues(d, f, e)
    <3>1. Receiving(d) /\ e.msg = d.msg /\ e.heard = d.heard
      BY <2>2 DEF Continues, HearsNothing
    <3> QED BY <1>3, <3>1 DEF FlowInv, Arriving
  <2> QED BY <2>1, <2>2 DEF AcceptsOwn
<1>7. ASSUME NEW i \in k + 2 .. Len(p), Live(d, p, k, i)
      PROVE  d.tx = "QUEUED" /\ e.tx = "QUEUED" /\ e.queue = d.queue
  <2>1. /\ d.tx = "QUEUED" /\ i # k + 1
        /\ \A j \in k + 1 .. Len(p) : Live(d, p, k, j) => j = i
    BY <1>3, <1>7 DEF FlowInv, Recognised
  <2>2. CASE AcceptsOther(d, f, e)
    BY <2>1, <2>2 DEF AcceptsOther, Accepts
  <2>3. CASE AcceptsOwn(d, f, e)
    <3>1. d.parse = "HEADER" /\ Own(p, k + 1)
      BY <2>3 DEF AcceptsOwn, Accepts, Own
    <3>2. i = k + 1
      BY <1>3, <1>5, <1>7, <3>1
    <3> QED BY <2>1, <3>2
  <2>4. CASE Continues(d, f, e)
    <3>1. d.report # "TX_EOF"
      BY <2>1 DEF Duties
    <3> QED BY <2>1, <2>4, <3>1 DEF Continues
  <2> QED BY <2>2, <2>3, <2>4
<1>8. Recognised(e, p, k + 1)
  <2>1. ASSUME NEW i \in k + 2 .. Len(p), Live(e, p, k + 1, i)
        PROVE  /\ e.tx = "QUEUED" /\ p[i].frame.n = Head(e.queue) /\ ~p[i].frame.same
               /\ \A j \in k + 2 .. Len(p) : Live(e, p, k + 1, j) => j = i
    <3>1. Live(d, p, k, i) /\ i \in k + 1 .. Len(p)
      BY <1>2, <1>3, <2>1
    <3>2. /\ p[i].frame.n = Head(d.queue) /\ ~p[i].frame.same
          /\ \A j \in k + 1 .. Len(p) : Live(d, p, k, j) => j = i
      BY <3>1 DEF FlowInv, Recognised
    <3> QED BY <1>2, <1>3, <1>7, <3>1, <3>2
  <2> QED BY <1>3, <2>1 DEF Recognised
<1>9. Loaded(e, p, k + 1, h)
  <2> SUFFICES ASSUME e.sm = "send" \/ (e.sm = "sending" /\ h), ~Dazed(e)
               PROVE  /\ e.tx = "QUEUED" /\ e.queue # <<>> /\ e.load = Head(e.queue)
                      /\ e.stall \/ \A i \in k + 2 .. Len(p) : ~Live(e, p, k + 1, i)
    BY <1>3 DEF Loaded
  <2>1. e.sm = d.sm /\ e.load = d.load
    BY DEF AcceptsOther, AcceptsOwn, Accepts, Continues
  <2>2. /\ d.tx = "QUEUED" /\ d.queue # <<>> /\ d.load = Head(d.queue)
        /\ d.stall \/ \A i \in k + 1 .. Len(p) : ~Live(d, p, k, i)
    BY <1>2, <2>1 DEF FlowInv, Loaded
  <2>3. e.stall \/ \A i \in k + 2 .. Len(p) : ~Live(e, p, k + 1, i)
    BY <1>2, <1>3, <2>2
  <2>4. e.tx = "QUEUED" /\ e.queue = d.queue
    <3>1. CASE AcceptsOther(d, f, e)
      BY <2>2, <3>1 DEF AcceptsOther, Accepts
    <3>2. CASE AcceptsOwn(d, f, e)
      <4>1. d.parse = "HEADER" /\ Own(p, k + 1) /\ e.parse = "CRC"
        BY <3>2 DEF AcceptsOwn, Accepts, Own
      <4>2. d.stall
        BY <1>3, <1>5, <2>2, <4>1
      <4> QED BY <4>1, <4>2 DEF Dazed, Late
    <3>3. CASE Continues(d, f, e)
      <4>1. d.report # "TX_EOF"
        BY <2>2 DEF Duties
      <4> QED BY <2>2, <3>3, <4>1 DEF Continues
    <3> QED BY <3>1, <3>2, <3>3
  <2> QED BY <2>1, <2>2, <2>3, <2>4
<1> QED BY <1>1, <1>4, <1>6, <1>8, <1>9 DEF FlowInv

-----------------------------------------------------------------------------
(***************************************************************************)
(* What is on its way, as it grows and moves on.                           *)
(***************************************************************************)
LEMMA JoinedAt ==
  ASSUME NEW a, NEW b, IsASequence(a), IsASequence(b)
  PROVE  /\ Len(a) \in Nat /\ Len(b) \in Nat /\ Len(a \o b) = Len(a) + Len(b)
         /\ \A i \in 1 .. Len(a) : (a \o b)[i] = a[i]
         /\ \A i \in 1 .. Len(b) : (a \o b)[Len(a) + i] = b[i]
<1>1. PICK S : a \in Seq(S)
  BY DEF IsASequence
<1>2. PICK T : b \in Seq(T)
  BY DEF IsASequence
<1>3. a \in Seq(S \cup T) /\ b \in Seq(S \cup T)
  BY <1>1, <1>2
<1> QED BY <1>3

LEMMA AppendedAt ==
  ASSUME NEW a, NEW x, IsASequence(a)
  PROVE  /\ Len(a) \in Nat /\ Len(Append(a, x)) = Len(a) + 1
         /\ \A i \in 1 .. Len(a) : Append(a, x)[i] = a[i]
         /\ Append(a, x)[Len(a) + 1] = x
<1>1. PICK S : a \in Seq(S)
  BY DEF IsASequence
<1>2. a \in Seq(S \cup {x}) /\ x \in S \cup {x}
  BY <1>1
<1> QED BY <1>2, Appended

Pipe(d) == d.rx \o d.isr

LEMMA PipeOf ==
  ASSUME NEW a, NEW b, NEW x, IsASequence(a), IsASequence(b)
  PROVE  /\ a \o Append(b, x) = Append(a \o b, x)
         /\ Append(a \o b, x) \o <<>> = Append(a \o b, x)
         /\ (a \o b) \o <<x>> = Append(a \o b, x)
         /\ <<>> \o b = b /\ a \o <<>> = a
<1>1. PICK S : a \in Seq(S)
  BY DEF IsASequence
<1>2. PICK T : b \in Seq(T)
  BY DEF IsASequence
<1>3. a \in Seq(S \cup T \cup {x}) /\ b \in Seq(S \cup T \cup {x}) /\ x \in S \cup T \cup {x}
  BY <1>1, <1>2
<1>4. ASSUME NEW U, NEW r \in Seq(U), NEW s \in Seq(U), NEW y \in U
      PROVE  /\ r \o Append(s, y) = Append(r \o s, y) /\ Append(r \o s, y) \o <<>> = Append(r \o s, y)
             /\ (r \o s) \o <<y>> = Append(r \o s, y) /\ <<>> \o s = s /\ r \o <<>> = r
  OBVIOUS
<1> QED BY <1>3, <1>4

LEMMA PutPipe ==
  ASSUME NEW d, Driver(d), Machine(d), NEW f, NEW total
  PROVE  \/ Pipe(Put(d, f, total)) = Pipe(d)
         \/ Pipe(Put(d, f, total)) = Append(Pipe(d), f)
<1> DEFINE e == Put(d, f, total)
<1>1. \/ e = d
      \/ e.rx = d.rx /\ e.isr = Append(d.isr, f)
      \/ e.rx = Append(d.rx \o d.isr, f) /\ e.isr = <<>>
      \/ e.rx = d.rx \o d.isr /\ e.isr = <<f>>
  <2>1. /\ Only(d, e, {"isr", "held", "rx"})
        /\ \/ /\ d.sync = "lost" \/ (d.stall /\ d.rx # <<>>)
              /\ e = d
           \/ /\ ~(d.sync = "lost" \/ (d.stall /\ d.rx # <<>>))
              /\ \/ total < 10 /\ e.rx = d.rx /\ e.isr = Append(d.isr, f) /\ e.held = total
                 \/ /\ ~(total < 10) /\ total % 10 = 0
                    /\ e.rx = Append(d.rx \o d.isr, f) /\ e.isr = <<>> /\ e.held = 0
                 \/ /\ ~(total < 10) /\ total % 10 # 0
                    /\ e.rx = d.rx \o d.isr /\ e.isr = <<f>> /\ e.held = total % 10
    BY PutDoes, Zenon
  <2> HIDE DEF e
  <2> QED BY <2>1
<1> HIDE DEF e
<1>2. /\ d.rx \o Append(d.isr, f) = Append(Pipe(d), f)
      /\ Append(d.rx \o d.isr, f) \o <<>> = Append(Pipe(d), f)
      /\ (d.rx \o d.isr) \o <<f>> = Append(Pipe(d), f)
  <2> DEFINE a == d.rx
             b == d.isr
  <2>1. IsASequence(a) /\ IsASequence(b)
    BY DEF Machine
  <2> HIDE DEF a, b
  <2>2. a \o Append(b, f) = Append(a \o b, f)
    BY <2>1, PipeOf
  <2>3. Append(a \o b, f) \o <<>> = Append(a \o b, f)
    BY <2>1, PipeOf
  <2>4. (a \o b) \o <<f>> = Append(a \o b, f)
    BY <2>1, PipeOf
  <2> QED BY <2>2, <2>3, <2>4 DEF Pipe, a, b
<1> QED BY <1>1, <1>2 DEF Pipe, e

(* The fields that have been handled are dropped.                          *)
LEMMA LiveShifted ==
  ASSUME NEW d, NEW a, NEW b, IsASequence(a), IsASequence(b), NEW i \in 1 .. Len(b),
         Live(d, b, 0, i)
  PROVE  Live(d, a \o b, Len(a), Len(a) + i)
<1> DEFINE p == a \o b
           l == Len(a)
           n == Len(b)
<1>1. /\ l \in Nat /\ n \in Nat /\ Len(p) = l + n
      /\ \A j \in 1 .. n : p[l + j] = b[j]
  BY JoinedAt
<1> HIDE DEF p, l
<1>2. Own(p, l + i) /\ ~Dazed(d)
  BY <1>1 DEF Live, Own
<1>3. l + i = l + 1 => d.parse = "HEADER"
  BY <1>1 DEF Live
<1>4. ASSUME d.stall, NEW j \in l + 1 .. (l + i) - 1 PROVE ~Own(p, j)
  <2>1. j - l \in 1 .. n /\ j - l \in 0 + 1 .. i - 1 /\ l + (j - l) = j
    BY <1>1
  <2>2. ~Own(b, j - l)
    BY <1>4, <2>1 DEF Live
  <2>3. p[j] = b[j - l]
    BY <1>1, <2>1
  <2> QED BY <2>2, <2>3 DEF Own
<1> QED BY <1>2, <1>3, <1>4 DEF Live, p, l

LEMMA Shifted ==
  ASSUME NEW d, NEW a, NEW b, IsASequence(a), IsASequence(b), NEW m, NEW h,
         FlowInv(d, a \o b, Len(a), m, h)
  PROVE  FlowInv(d, b, 0, m, h)
<1> DEFINE p == a \o b
           l == Len(a)
           n == Len(b)
<1>1. /\ l \in Nat /\ n \in Nat /\ Len(p) = l + n
      /\ \A j \in 1 .. n : p[l + j] = b[j]
  BY JoinedAt
<1>2. \A i \in 1 .. n : Live(d, b, 0, i) => Live(d, p, l, l + i)
  BY LiveShifted
<1>3. FlowInv(d, p, l, m, h)
  OBVIOUS
<1> HIDE DEF p, l, n
<1>4. \A i \in 1 .. n : /\ l + i \in l + 1 .. Len(p)
                        /\ \A j \in 1 .. i - 1 : l + j \in l + 1 .. (l + i) - 1 /\ j \in 1 .. n
  BY <1>1
<1>5. \A i \in 1 .. n : Other(b, i) <=> Other(p, l + i)
  BY <1>1 DEF Other
<1>6. HeardInOrder(d, m)
  BY <1>3 DEF FlowInv
<1>7. Coming(d, b, 0, m)
  <2>1. ASSUME NEW i \in 1 .. n, Other(b, i)
        PROVE  /\ b[i].frame \in Foreign /\ b[i].frame.n <= m
               /\ \A j \in 1 .. Len(d.heard) : d.heard[j].n < b[i].frame.n
               /\ \A j \in 1 .. i - 1 : Other(b, j) => b[j].frame.n < b[i].frame.n
    <3>1. Other(p, l + i) /\ p[l + i] = b[i] /\ l + i \in l + 1 .. Len(p)
      BY <1>1, <1>4, <1>5, <2>1
    <3>2. /\ p[l + i].frame \in Foreign /\ p[l + i].frame.n <= m
          /\ \A j \in 1 .. Len(d.heard) : d.heard[j].n < p[l + i].frame.n
          /\ \A j \in l + 1 .. (l + i) - 1 : Other(p, j) => p[j].frame.n < p[l + i].frame.n
      BY <1>3, <3>1 DEF FlowInv, Coming
    <3>3. ASSUME NEW j \in 1 .. i - 1, Other(b, j) PROVE b[j].frame.n < b[i].frame.n
      <4>1. l + j \in l + 1 .. (l + i) - 1 /\ j \in 1 .. n
        BY <1>4
      <4>2. Other(p, l + j) /\ p[l + j] = b[j]
        BY <1>1, <1>5, <3>3, <4>1
      <4> QED BY <3>1, <3>2, <4>1, <4>2
    <3> QED BY <3>1, <3>2, <3>3
  <2> QED BY <2>1 DEF Coming, n
<1>8. Arriving(d, b, 0, m)
  <2> SUFFICES ASSUME Receiving(d)
               PROVE  /\ d.msg \in Foreign /\ d.msg.n <= m
                      /\ \A j \in 1 .. Len(d.heard) : d.heard[j].n < d.msg.n
                      /\ \A i \in 1 .. n : Other(b, i) => d.msg.n < b[i].frame.n
    BY DEF Arriving, n
  <2>1. /\ d.msg \in Foreign /\ d.msg.n <= m
        /\ \A j \in 1 .. Len(d.heard) : d.heard[j].n < d.msg.n
        /\ \A i \in l + 1 .. Len(p) : Other(p, i) => d.msg.n < p[i].frame.n
    BY <1>3 DEF FlowInv, Arriving
  <2> QED BY <1>1, <1>4, <1>5, <2>1
<1>9. Recognised(d, b, 0)
  <2>1. ASSUME NEW i \in 1 .. n, Live(d, b, 0, i)
        PROVE  /\ d.tx = "QUEUED" /\ b[i].frame.n = Head(d.queue) /\ ~b[i].frame.same
               /\ \A j \in 1 .. n : Live(d, b, 0, j) => j = i
    <3>1. Live(d, p, l, l + i) /\ p[l + i] = b[i] /\ l + i \in l + 1 .. Len(p)
      BY <1>1, <1>2, <1>4, <2>1
    <3>2. /\ d.tx = "QUEUED" /\ p[l + i].frame.n = Head(d.queue) /\ ~p[l + i].frame.same
          /\ \A j \in l + 1 .. Len(p) : Live(d, p, l, j) => j = l + i
      BY <1>3, <3>1 DEF FlowInv, Recognised
    <3>3. ASSUME NEW j \in 1 .. n, Live(d, b, 0, j) PROVE j = i
      <4>1. l + j = l + i
        BY <1>2, <1>4, <3>2, <3>3
      <4> QED BY <1>1, <4>1
    <3> QED BY <3>1, <3>2, <3>3
  <2> QED BY <2>1 DEF Recognised, n
<1>10. Loaded(d, b, 0, h)
  <2>1. (\A i \in l + 1 .. Len(p) : ~Live(d, p, l, i)) => \A i \in 1 .. n : ~Live(d, b, 0, i)
    BY <1>2, <1>4
  <2> QED BY <1>3, <2>1 DEF FlowInv, Loaded, n
<1> QED BY <1>6, <1>7, <1>8, <1>9, <1>10 DEF FlowInv

(* What changes nothing of it.                                             *)
LEMMA FlowKept ==
  ASSUME NEW d, NEW e, NEW S, Only(d, e, S),
         S \cap {"heard", "report", "msg", "stall", "parse", "tx", "queue", "load"} = {},
         NEW p, NEW k, NEW m \in Int, NEW m2 \in Int, m <= m2, NEW h, NEW h2,
         FlowInv(d, p, k, m, h),
         e.sm = "send" \/ (e.sm = "sending" /\ h2) => d.sm = "send" \/ (d.sm = "sending" /\ h)
  PROVE  FlowInv(e, p, k, m2, h2)
<1>1. /\ e.heard = d.heard /\ e.report = d.report /\ e.msg = d.msg /\ e.stall = d.stall
      /\ e.parse = d.parse /\ e.tx = d.tx /\ e.queue = d.queue /\ e.load = d.load
  BY DEF Only, Fields
<1>2. (Dazed(e) <=> Dazed(d)) /\ (Receiving(e) <=> Receiving(d))
  BY <1>1 DEF Dazed, Receiving
<1>3. \A i \in k + 1 .. Len(p) : Live(e, p, k, i) <=> Live(d, p, k, i)
  BY <1>1, <1>2 DEF Live
<1>4. \A x \in Foreign : x.n <= m => x.n <= m2
  <2>1. \A x \in Foreign : x.n \in Nat
    BY DEF Foreign, Frame
  <2> QED BY <2>1
<1>5. HeardInOrder(e, m2)
  <2>1. \A i \in 1 .. Len(d.heard) : d.heard[i] \in Foreign
    <3>1. d.heard \in Seq(Foreign)
      BY DEF FlowInv, HeardInOrder
    <3> QED BY <3>1, Members
  <2> QED BY <1>1, <1>4, <2>1 DEF FlowInv, HeardInOrder
<1>6. Coming(e, p, k, m2)
  BY <1>1, <1>4 DEF FlowInv, Coming
<1>7. Arriving(e, p, k, m2)
  BY <1>1, <1>2, <1>4 DEF FlowInv, Arriving
<1>8. Recognised(e, p, k)
  BY <1>1, <1>3 DEF FlowInv, Recognised
<1>9. Loaded(e, p, k, h2)
  BY <1>1, <1>2, <1>3 DEF FlowInv, Loaded
<1> QED BY <1>5, <1>6, <1>7, <1>8, <1>9 DEF FlowInv

(* A field without a header comes behind what is on its way.               *)
LEMMA LiveLonger ==
  ASSUME NEW d, NEW p, NEW x, IsASequence(p)
  PROVE  \A i \in 1 .. Len(p) : Live(d, Append(p, x), 0, i) => Live(d, p, 0, i)
<1> DEFINE q == Append(p, x)
<1>1. Len(p) \in Nat /\ \A i \in 1 .. Len(p) : q[i] = p[i]
  BY AppendedAt
<1> HIDE DEF q
<1>2. ASSUME NEW i \in 1 .. Len(p), Live(d, q, 0, i) PROVE Live(d, p, 0, i)
  <2>1. Own(p, i) /\ ~Dazed(d)
    BY <1>1, <1>2 DEF Live, Own
  <2>2. ASSUME d.stall, NEW j \in 0 + 1 .. i - 1 PROVE ~Own(p, j)
    <3>1. j \in 1 .. Len(p)
      BY <1>1
    <3> QED BY <1>1, <1>2, <2>2, <3>1 DEF Live, Own
  <2> QED BY <1>2, <2>1, <2>2 DEF Live
<1> QED BY <1>2 DEF q

LEMMA Longer ==
  ASSUME NEW d, NEW p, NEW x, IsASequence(p), x.is # "header", NEW m, NEW h,
         FlowInv(d, p, 0, m, h)
  PROVE  FlowInv(d, Append(p, x), 0, m, h)
<1> DEFINE q == Append(p, x)
           n == Len(p)
<1>1. /\ n \in Nat /\ Len(q) = n + 1 /\ q[n + 1] = x
      /\ \A i \in 1 .. n : q[i] = p[i]
  BY AppendedAt
<1>2. \A i \in 1 .. n : Live(d, q, 0, i) => Live(d, p, 0, i)
  BY LiveLonger
<1> HIDE DEF q, n
<1>3. /\ \A i \in 1 .. n + 1 : i = n + 1 \/ i \in 1 .. n
      /\ \A i \in 1 .. n : i \in 1 .. n + 1 /\ \A j \in 1 .. i - 1 : j \in 1 .. n
  BY <1>1
<1>4. \A i \in 1 .. Len(q) : Other(q, i) => i \in 1 .. n /\ Other(p, i) /\ q[i] = p[i]
  BY <1>1, <1>3 DEF Other
<1>5. \A i \in 1 .. Len(q) : Live(d, q, 0, i) => i \in 1 .. n /\ Live(d, p, 0, i) /\ q[i] = p[i]
  <2>1. ~Own(q, n + 1)
    BY <1>1 DEF Own
  <2> QED BY <1>1, <1>2, <1>3, <2>1 DEF Live
<1>6. HeardInOrder(d, m)
  BY DEF FlowInv
<1>7. Coming(d, q, 0, m)
  <2>1. ASSUME NEW i \in 1 .. Len(q), Other(q, i)
        PROVE  /\ q[i].frame \in Foreign /\ q[i].frame.n <= m
               /\ \A j \in 1 .. Len(d.heard) : d.heard[j].n < q[i].frame.n
               /\ \A j \in 1 .. i - 1 : Other(q, j) => q[j].frame.n < q[i].frame.n
    <3>1. i \in 1 .. n /\ Other(p, i) /\ q[i] = p[i]
      BY <1>4, <2>1
    <3>2. /\ p[i].frame \in Foreign /\ p[i].frame.n <= m
          /\ \A j \in 1 .. Len(d.heard) : d.heard[j].n < p[i].frame.n
          /\ \A j \in 1 .. i - 1 : Other(p, j) => p[j].frame.n < p[i].frame.n
      BY <3>1 DEF FlowInv, Coming, n
    <3>3. \A j \in 1 .. i - 1 : j \in 1 .. n /\ j \in 1 .. Len(q)
      BY <1>1, <3>1
    <3> QED BY <1>4, <3>1, <3>2, <3>3
  <2> QED BY <2>1 DEF Coming
<1>8. Arriving(d, q, 0, m)
  BY <1>4 DEF FlowInv, Arriving, n
<1>9. Recognised(d, q, 0)
  BY <1>5 DEF FlowInv, Recognised, n
<1>10. Loaded(d, q, 0, h)
  BY <1>5 DEF FlowInv, Loaded, n
<1> QED BY <1>6, <1>7, <1>8, <1>9, <1>10 DEF FlowInv, q

(* A header of another board comes, with a number no frame had before.     *)
LEMMA OtherHeader ==
  ASSUME NEW d, NEW p, NEW x, IsASequence(p), NEW m \in Int, NEW m2 \in Int,
         x.is = "header", ~x.frame.own, x.frame \in Foreign, m < x.frame.n, x.frame.n <= m2,
         FlowInv(d, p, 0, m, FALSE)
  PROVE  FlowInv(d, Append(p, x), 0, m2, FALSE)
<1> DEFINE q == Append(p, x)
           n == Len(p)
           g == x.frame.n
<1>1. /\ n \in Nat /\ Len(q) = n + 1 /\ q[n + 1] = x
      /\ \A i \in 1 .. n : q[i] = p[i]
  BY AppendedAt
<1>2. \A i \in 1 .. n : Live(d, q, 0, i) => Live(d, p, 0, i)
  BY LiveLonger
<1>3. x.frame.n \in Nat
  BY DEF Foreign, Frame
<1> HIDE DEF q, n
<1>4. /\ \A i \in 1 .. Len(q) : i = n + 1 \/ i \in 1 .. n
      /\ \A i \in 1 .. n : \A j \in 1 .. i - 1 : j \in 1 .. n
      /\ \A j \in 1 .. (n + 1) - 1 : j \in 1 .. n
  BY <1>1
<1>5. \A f \in Foreign : f.n <= m => f.n <= m2 /\ f.n < g
  <2>1. \A f \in Foreign : f.n \in Nat
    BY DEF Foreign, Frame
  <2> QED BY <1>3, <2>1
<1>6. \A i \in 1 .. n : (Other(q, i) <=> Other(p, i)) /\ q[i] = p[i]
  BY <1>1 DEF Other
<1>7. \A i \in 1 .. Len(q) : Live(d, q, 0, i) => i \in 1 .. n /\ Live(d, p, 0, i) /\ q[i] = p[i]
  <2>1. ~Own(q, n + 1)
    BY <1>1 DEF Own
  <2> QED BY <1>1, <1>2, <1>4, <2>1 DEF Live
<1>8. \A j \in 1 .. Len(d.heard) : d.heard[j] \in Foreign /\ d.heard[j].n <= m
  <2>1. d.heard \in Seq(Foreign)
    BY DEF FlowInv, HeardInOrder
  <2> QED BY <2>1, Members DEF FlowInv, HeardInOrder
<1>9. HeardInOrder(d, m2)
  BY <1>5, <1>8 DEF FlowInv, HeardInOrder
<1>10. \A i \in 1 .. n : Other(p, i) =>
         /\ p[i].frame \in Foreign /\ p[i].frame.n <= m
         /\ \A j \in 1 .. Len(d.heard) : d.heard[j].n < p[i].frame.n
         /\ \A j \in 1 .. i - 1 : Other(p, j) => p[j].frame.n < p[i].frame.n
  BY DEF FlowInv, Coming, n
<1>11. Coming(d, q, 0, m2)
  <2>1. ASSUME NEW i \in 1 .. Len(q), Other(q, i)
        PROVE  /\ q[i].frame \in Foreign /\ q[i].frame.n <= m2
               /\ \A j \in 1 .. Len(d.heard) : d.heard[j].n < q[i].frame.n
               /\ \A j \in 1 .. i - 1 : Other(q, j) => q[j].frame.n < q[i].frame.n
    <3>1. CASE i = n + 1
      <4>1. q[i] = x
        BY <1>1, <3>1
      <4>2. \A j \in 1 .. i - 1 : Other(q, j) => q[j].frame.n < g
        BY <1>4, <1>5, <1>6, <1>10, <3>1
      <4> QED BY <1>5, <1>8, <4>1, <4>2
    <3>2. CASE i \in 1 .. n
      <4>1. Other(p, i) /\ q[i] = p[i]
        BY <1>6, <2>1, <3>2
      <4>2. \A j \in 1 .. i - 1 : Other(q, j) => q[j].frame.n < q[i].frame.n
        BY <1>4, <1>6, <1>10, <3>2, <4>1
      <4> QED BY <1>5, <1>10, <3>2, <4>1, <4>2
    <3> QED BY <1>4, <3>1, <3>2
  <2> QED BY <2>1 DEF Coming
<1>12. Arriving(d, q, 0, m2)
  <2> SUFFICES ASSUME Receiving(d)
               PROVE  /\ d.msg \in Foreign /\ d.msg.n <= m2
                      /\ \A j \in 1 .. Len(d.heard) : d.heard[j].n < d.msg.n
                      /\ \A i \in 1 .. Len(q) : Other(q, i) => d.msg.n < q[i].frame.n
    BY DEF Arriving
  <2>1. /\ d.msg \in Foreign /\ d.msg.n <= m
        /\ \A j \in 1 .. Len(d.heard) : d.heard[j].n < d.msg.n
        /\ \A i \in 1 .. n : Other(p, i) => d.msg.n < p[i].frame.n
    BY DEF FlowInv, Arriving, n
  <2> QED BY <1>1, <1>4, <1>5, <1>6, <2>1
<1>13. Recognised(d, q, 0)
  BY <1>7 DEF FlowInv, Recognised, n
<1>14. Loaded(d, q, 0, FALSE)
  BY <1>7 DEF FlowInv, Loaded, n
<1> QED BY <1>9, <1>11, <1>12, <1>13, <1>14 DEF FlowInv, q

(* The header of this board's frame comes.                                 *)
LEMMA OwnHeader ==
  ASSUME NEW d, NEW p, NEW x, IsASequence(p), NEW m,
         x.is = "header", x.frame.own, d.sm = "sending", x.frame.n = d.load, ~x.frame.same,
         FlowInv(d, p, 0, m, TRUE)
  PROVE  FlowInv(d, Append(p, x), 0, m, FALSE)
<1> DEFINE q == Append(p, x)
           n == Len(p)
<1>1. /\ n \in Nat /\ Len(q) = n + 1 /\ q[n + 1] = x
      /\ \A i \in 1 .. n : q[i] = p[i]
  BY AppendedAt
<1>2. \A i \in 1 .. n : Live(d, q, 0, i) => Live(d, p, 0, i)
  BY LiveLonger
<1> HIDE DEF q, n
<1>3. /\ \A i \in 1 .. Len(q) : i = n + 1 \/ i \in 1 .. n
      /\ \A i \in 1 .. n : \A j \in 1 .. i - 1 : j \in 1 .. n
      /\ \A i \in 1 .. n : i \in 1 .. (n + 1) - 1
      /\ \A j \in 1 .. (n + 1) - 1 : j \in 1 .. n
  BY <1>1
<1>4. \A i \in 1 .. Len(q) : Other(q, i) => i \in 1 .. n /\ Other(p, i) /\ q[i] = p[i]
  BY <1>1, <1>3 DEF Other
<1>5. Coming(d, q, 0, m)
  <2>1. ASSUME NEW i \in 1 .. Len(q), Other(q, i)
        PROVE  /\ q[i].frame \in Foreign /\ q[i].frame.n <= m
               /\ \A j \in 1 .. Len(d.heard) : d.heard[j].n < q[i].frame.n
               /\ \A j \in 1 .. i - 1 : Other(q, j) => q[j].frame.n < q[i].frame.n
    <3>1. i \in 1 .. n /\ Other(p, i) /\ q[i] = p[i]
      BY <1>4, <2>1
    <3>2. /\ p[i].frame \in Foreign /\ p[i].frame.n <= m
          /\ \A j \in 1 .. Len(d.heard) : d.heard[j].n < p[i].frame.n
          /\ \A j \in 1 .. i - 1 : Other(p, j) => p[j].frame.n < p[i].frame.n
      BY <3>1 DEF FlowInv, Coming, n
    <3>3. \A j \in 1 .. i - 1 : j \in 1 .. n /\ j \in 1 .. Len(q)
      BY <1>1, <3>1
    <3> QED BY <1>4, <3>1, <3>2, <3>3
  <2> QED BY <2>1 DEF Coming
<1>6. Arriving(d, q, 0, m)
  BY <1>4 DEF FlowInv, Arriving, n
<1>7. ~Dazed(d) =>
        /\ d.tx = "QUEUED" /\ d.load = Head(d.queue)
        /\ d.stall \/ \A i \in 1 .. n : ~Live(d, p, 0, i)
  BY DEF FlowInv, Loaded, n
<1>8. Recognised(d, q, 0)
  <2>1. ASSUME NEW i \in 1 .. Len(q), Live(d, q, 0, i)
        PROVE  /\ d.tx = "QUEUED" /\ q[i].frame.n = Head(d.queue) /\ ~q[i].frame.same
               /\ \A j \in 1 .. Len(q) : Live(d, q, 0, j) => j = i
    <3>1. ~Dazed(d)
      BY <2>1 DEF Live
    <3>2. CASE i = n + 1
      <4>1. q[i] = x
        BY <1>1, <3>2
      <4>2. ASSUME NEW j \in 1 .. n, Live(d, q, 0, j) PROVE FALSE
        <5>1. Live(d, p, 0, j)
          BY <1>2, <4>2
        <5>2. d.stall
          BY <1>7, <3>1, <5>1
        <5>3. Own(q, j)
          BY <4>2 DEF Live
        <5>4. j \in 0 + 1 .. i - 1
          BY <1>1, <3>2
        <5> QED BY <2>1, <5>2, <5>3, <5>4 DEF Live
      <4> QED BY <1>3, <1>7, <3>1, <3>2, <4>1, <4>2
    <3>3. CASE i \in 1 .. n
      <4>1. Live(d, p, 0, i) /\ q[i] = p[i]
        BY <1>1, <1>2, <2>1, <3>3
      <4>2. /\ d.tx = "QUEUED" /\ p[i].frame.n = Head(d.queue) /\ ~p[i].frame.same
            /\ \A j \in 1 .. n : Live(d, p, 0, j) => j = i
        BY <3>3, <4>1 DEF FlowInv, Recognised, n
      <4>3. d.stall
        BY <1>7, <3>1, <3>3, <4>1
      <4>4. Own(q, i)
        BY <2>1 DEF Live
      <4>5. ~Live(d, q, 0, n + 1)
        <5>1. i \in 0 + 1 .. (n + 1) - 1
          BY <1>3, <3>3
        <5> QED BY <4>3, <4>4, <5>1 DEF Live
      <4> QED BY <1>2, <1>3, <4>1, <4>2, <4>5
    <3> QED BY <1>3, <3>2, <3>3
  <2> QED BY <2>1 DEF Recognised
<1>9. Loaded(d, q, 0, FALSE)
  BY DEF Loaded
<1> QED BY <1>5, <1>6, <1>8, <1>9 DEF FlowInv, q

(* Bits are lost: what the receiving machine held is gone, and nothing     *)
(* more comes before the interrupt.                                        *)
LEMMA Shorter ==
  ASSUME NEW d, NEW e, NEW a, NEW b, IsASequence(a), IsASequence(b), NEW m \in Int, NEW h,
         FlowInv(d, a \o b, 0, m, h), Only(d, e, {"stall", "isr"}), e.stall = TRUE, ~d.stall
  PROVE  FlowInv(e, a, 0, m, h)
<1> DEFINE p == a \o b
           n == Len(a)
<1>1. /\ n \in Nat /\ Len(b) \in Nat /\ Len(p) = n + Len(b)
      /\ \A i \in 1 .. n : p[i] = a[i]
  BY JoinedAt
<1>2. FlowInv(d, p, 0, m, h)
  OBVIOUS
<1> HIDE DEF p, n
<1>3. /\ \A i \in 1 .. n : i \in 1 .. Len(p)
      /\ \A i \in 1 .. n : \A j \in 1 .. i - 1 : j \in 1 .. n
  BY <1>1
<1>4. /\ e.heard = d.heard /\ e.report = d.report /\ e.msg = d.msg
      /\ e.parse = d.parse /\ e.tx = d.tx /\ e.queue = d.queue /\ e.load = d.load /\ e.sm = d.sm
  BY DEF Only, Fields
<1>5. ~Dazed(d) /\ (Receiving(e) <=> Receiving(d))
  BY <1>4 DEF Dazed, Receiving
<1>6. \A i \in 1 .. n : Live(e, a, 0, i) => Live(d, p, 0, i)
  BY <1>1, <1>4, <1>5 DEF Live, Own
<1>7. \A i \in 1 .. n : Other(a, i) <=> Other(p, i)
  BY <1>1 DEF Other
<1>8. HeardInOrder(e, m)
  BY <1>2, <1>4 DEF FlowInv, HeardInOrder
<1>9. Coming(e, a, 0, m)
  <2>1. ASSUME NEW i \in 1 .. n, Other(a, i)
        PROVE  /\ a[i].frame \in Foreign /\ a[i].frame.n <= m
               /\ \A j \in 1 .. Len(d.heard) : d.heard[j].n < a[i].frame.n
               /\ \A j \in 1 .. i - 1 : Other(a, j) => a[j].frame.n < a[i].frame.n
    <3>1. Other(p, i) /\ p[i] = a[i] /\ i \in 1 .. Len(p)
      BY <1>1, <1>3, <1>7, <2>1
    <3>2. /\ p[i].frame \in Foreign /\ p[i].frame.n <= m
          /\ \A j \in 1 .. Len(d.heard) : d.heard[j].n < p[i].frame.n
          /\ \A j \in 1 .. i - 1 : Other(p, j) => p[j].frame.n < p[i].frame.n
      BY <1>2, <3>1 DEF FlowInv, Coming
    <3>3. \A j \in 1 .. i - 1 : j \in 1 .. n
      BY <1>3
    <3> QED BY <1>1, <1>7, <3>1, <3>2, <3>3
  <2> QED BY <1>4, <2>1 DEF Coming, n
<1>10. Arriving(e, a, 0, m)
  <2> SUFFICES ASSUME Receiving(d)
               PROVE  /\ d.msg \in Foreign /\ d.msg.n <= m
                      /\ \A j \in 1 .. Len(d.heard) : d.heard[j].n < d.msg.n
                      /\ \A i \in 1 .. n : Other(a, i) => d.msg.n < a[i].frame.n
    BY <1>4, <1>5 DEF Arriving, n
  <2>1. /\ d.msg \in Foreign /\ d.msg.n <= m
        /\ \A j \in 1 .. Len(d.heard) : d.heard[j].n < d.msg.n
        /\ \A i \in 1 .. Len(p) : Other(p, i) => d.msg.n < p[i].frame.n
    BY <1>2 DEF FlowInv, Arriving
  <2> QED BY <1>1, <1>3, <1>7, <2>1
<1>11. Recognised(e, a, 0)
  <2>1. ASSUME NEW i \in 1 .. n, Live(e, a, 0, i)
        PROVE  /\ d.tx = "QUEUED" /\ a[i].frame.n = Head(d.queue) /\ ~a[i].frame.same
               /\ \A j \in 1 .. n : Live(e, a, 0, j) => j = i
    <3>1. Live(d, p, 0, i) /\ p[i] = a[i] /\ i \in 1 .. Len(p)
      BY <1>1, <1>3, <1>6, <2>1
    <3>2. /\ d.tx = "QUEUED" /\ p[i].frame.n = Head(d.queue) /\ ~p[i].frame.same
          /\ \A j \in 1 .. Len(p) : Live(d, p, 0, j) => j = i
      BY <1>2, <3>1 DEF FlowInv, Recognised
    <3> QED BY <1>3, <1>6, <3>1, <3>2
  <2> QED BY <1>4, <2>1 DEF Recognised, n
<1>12. Loaded(e, a, 0, h)
  BY <1>2, <1>4, <1>5 DEF FlowInv, Loaded
<1> QED BY <1>8, <1>9, <1>10, <1>11, <1>12 DEF FlowInv

-----------------------------------------------------------------------------
(***************************************************************************)
(* The ring: a place is as old as its distance from the one that LibPQP    *)
(* takes next, and unread if it is younger than the head.                  *)
(***************************************************************************)
Age(d, i) == IF i >= d.tail THEN i - d.tail ELSE (i - d.tail) + RingSize
Unread(d) == Age(d, d.head)
Waiting(d, i) == i \in Places /\ Age(d, i) < Unread(d)

Reported1(d, x) == \E j \in 1 .. Len(d.heard) : x = d.heard[j]

(* The ring of d when g was taken from it, fetched tells whether the place *)
(* of the last of them has still to be freed, and r counts the restarts.   *)
RingShape(d, fetched, r) ==
  /\ d.head \in Places /\ d.tail \in Places /\ DOMAIN d.slots = Places
  /\ r = 0 => d.on = TRUE
  /\ fetched => Unread(d) > 0

RingReported(d, g) ==
  /\ \A i \in 1 .. Len(g) : Reported1(d, g[i])
  /\ \A i \in Places : Waiting(d, i) => Reported1(d, d.slots[i])

RingOrder(d, g, fetched) ==
  /\ \A i, j \in 1 .. Len(g) : i < j => g[i].n < g[j].n
  /\ \A i, j \in Places : Waiting(d, j) /\ Age(d, i) < Age(d, j) => d.slots[i].n < d.slots[j].n
  /\ \A i \in 1 .. Len(g), j \in Places :
       Waiting(d, j) /\ (fetched => Age(d, j) > 0) => g[i].n < d.slots[j].n

RingCount(d, g, fetched, r) ==
  r = 0 /\ ~d.bufferLost =>
    Len(d.heard) = IF fetched THEN (Len(g) + Unread(d)) - 1 ELSE Len(g) + Unread(d)

RingInv(d, g, fetched, r) ==
  /\ IsASequence(g) /\ RingShape(d, fetched, r) /\ RingReported(d, g)
  /\ RingOrder(d, g, fetched) /\ RingCount(d, g, fetched, r)

LEMMA AgeBound ==
  ASSUME NEW d, d.tail \in Places, NEW i \in Places
  PROVE  Age(d, i) \in 0 .. RingSize - 1 /\ (Age(d, i) = 0 <=> i = d.tail)
BY CanAssumption DEF Age, Places

(* The handler puts a message at the head.                                 *)
LEMMA HeadMoves ==
  ASSUME NEW d, NEW e, d.head \in Places, d.tail \in Places, ~Full(d),
         e.head = Next1(d.head), e.tail = d.tail
  PROVE  /\ e.head \in Places /\ Unread(e) = Unread(d) + 1 /\ ~Waiting(d, d.head)
         /\ \A i \in Places : Age(e, i) = Age(d, i)
         /\ \A i \in Places : Waiting(e, i) <=> Waiting(d, i) \/ i = d.head
         /\ Unread(d) \in Nat /\ \A i \in Places : Waiting(d, i) => Age(d, i) < Age(d, d.head)
<1>1. d.head \in Int /\ d.tail \in Int /\ RingSize \in Int /\ d.head >= 0 /\ d.head < RingSize
      /\ d.tail >= 0 /\ d.tail < RingSize /\ \A i \in Places : i \in Int /\ i >= 0 /\ i < RingSize
  BY CanAssumption DEF Places
<1>2. e.head = (IF d.head + 1 >= RingSize THEN (d.head + 1) - RingSize ELSE d.head + 1)
      /\ e.head # d.tail
  BY <1>1 DEF Next1, Full
<1>3. e.head \in Places
  BY <1>1, <1>2 DEF Places
<1>4. Unread(e) = Unread(d) + 1 /\ Unread(d) \in Nat
  BY <1>1, <1>2, <1>3 DEF Unread, Age
<1>5. \A i \in Places : Age(e, i) = Age(d, i)
  BY DEF Age
<1>6. \A i \in Places : Age(d, i) \in Int /\ (Age(d, i) = Unread(d) <=> i = d.head)
  BY <1>1 DEF Age, Unread
<1>7. \A i \in Places : Waiting(e, i) <=> Waiting(d, i) \/ i = d.head
  BY <1>4, <1>5, <1>6 DEF Waiting
<1>8. ~Waiting(d, d.head)
  BY <1>4 DEF Waiting, Unread
<1> QED BY <1>3, <1>4, <1>5, <1>7, <1>8 DEF Waiting, Unread

(* LibPQP frees the place at the tail.                                     *)
LEMMA TailMoves ==
  ASSUME NEW d, NEW e, d.head \in Places, d.tail \in Places, Unread(d) > 0,
         e.head = d.head, e.tail = Next1(d.tail)
  PROVE  /\ e.tail \in Places /\ Unread(e) = Unread(d) - 1 /\ Unread(d) \in Nat
         /\ \A i \in Places : Waiting(e, i) => Waiting(d, i) /\ Age(d, i) > 0
         /\ \A i, j \in Places : Waiting(e, j) /\ Age(e, i) < Age(e, j) => Age(d, i) < Age(d, j)
<1>1. d.head \in Int /\ d.tail \in Int /\ RingSize \in Int /\ d.head >= 0 /\ d.head < RingSize
      /\ d.tail >= 0 /\ d.tail < RingSize /\ \A i \in Places : i \in Int /\ i >= 0 /\ i < RingSize
  BY CanAssumption DEF Places
<1>2. e.tail = (IF d.tail + 1 >= RingSize THEN (d.tail + 1) - RingSize ELSE d.tail + 1)
  BY <1>1 DEF Next1
<1>3. e.tail \in Places
  BY <1>1, <1>2 DEF Places
<1>4. \A i \in Places : /\ Age(e, i) = (IF i = d.tail THEN RingSize - 1 ELSE Age(d, i) - 1)
                        /\ Age(d, i) \in Nat /\ Age(d, i) < RingSize
                        /\ Age(d, i) = 0 <=> i = d.tail
  BY <1>1, <1>2 DEF Age
<1>5. Unread(e) = Unread(d) - 1 /\ Unread(d) \in Nat /\ Unread(d) < RingSize
  BY <1>4 DEF Unread
<1>6. ASSUME NEW i \in Places, Waiting(e, i)
      PROVE  Waiting(d, i) /\ Age(d, i) > 0 /\ Age(e, i) = Age(d, i) - 1
  BY <1>1, <1>4, <1>5, <1>6 DEF Waiting
<1>7. ASSUME NEW i \in Places, NEW j \in Places, Waiting(e, j), Age(e, i) < Age(e, j)
      PROVE  Age(d, i) < Age(d, j)
  <2>1. Age(e, j) = Age(d, j) - 1 /\ Age(d, j) < RingSize
    BY <1>4, <1>6, <1>7
  <2> QED BY <1>1, <1>4, <1>7, <2>1
<1> QED BY <1>3, <1>5, <1>6, <1>7

(* What holds of the ring of d holds of that of e.                         *)
SameRing(d, e) ==
  \A g, r : \A fetched \in BOOLEAN : RingInv(d, g, fetched, r) => RingInv(e, g, fetched, r)

LEMMA RingUntouched ==
  ASSUME NEW d, NEW e, HearsNothing(d, e), e.tail = d.tail, e.on = d.on
  PROVE  SameRing(d, e)
<1>1. /\ e.heard = d.heard /\ e.bufferLost = d.bufferLost /\ e.slots = d.slots
      /\ e.head = d.head /\ e.tail = d.tail /\ e.on = d.on
  BY DEF HearsNothing
<1>2. /\ \A i : Age(e, i) = Age(d, i) /\ (Waiting(e, i) <=> Waiting(d, i))
      /\ Unread(e) = Unread(d) /\ \A x : Reported1(e, x) <=> Reported1(d, x)
  BY <1>1 DEF Age, Unread, Waiting, Reported1
<1>3. ASSUME NEW g, NEW r, NEW fetched \in BOOLEAN, RingInv(d, g, fetched, r)
      PROVE  RingInv(e, g, fetched, r)
  BY <1>1, <1>2, <1>3 DEF RingInv, RingShape, RingReported, RingOrder, RingCount
<1> QED BY <1>3 DEF SameRing

(* A message that is told as received comes behind all others.             *)
LEMMA RingKept ==
  ASSUME NEW d, NEW e, NEW g, NEW fetched \in BOOLEAN, NEW r, RingInv(d, g, fetched, r),
         Rings(d, e), NEW p, NEW k, NEW m, HeardInOrder(d, m), Arriving(d, p, k, m)
  PROVE  RingInv(e, g, fetched, r)
<1>1. CASE HearsNothing(d, e)
  BY <1>1, RingUntouched DEF Rings, SameRing
<1>2. CASE Hears(d, e)
  <2> DEFINE s == d.heard
             t == e.heard
             l == Len(s)
             x == d.msg
  <2>1. Receiving(d) /\ t = Append(s, x) /\ e.tail = d.tail /\ e.on = d.on
    BY <1>2 DEF Hears, Rings
  <2>2. s \in Seq(Foreign) /\ x \in Foreign /\ \A j \in 1 .. l : s[j].n < x.n
    BY <2>1 DEF HeardInOrder, Arriving
  <2>3. /\ t \in Seq(Foreign) /\ l \in Nat /\ Len(t) = l + 1 /\ t[l + 1] = x
        /\ \A i \in 1 .. l : t[i] = s[i]
    BY <2>1, <2>2, Appended
  <2> HIDE DEF s, t, l, x
  <2>4. /\ \A y : Reported1(d, y) => Reported1(e, y) /\ y.n < x.n
        /\ Reported1(e, x)
    <3>1. \A j \in 1 .. l : j \in 1 .. Len(t)
      BY <2>3
    <3>2. l + 1 \in 1 .. Len(t)
      BY <2>3
    <3>3. \A y : (\E j \in 1 .. l : y = s[j]) => (\E j \in 1 .. Len(t) : y = t[j]) /\ y.n < x.n
      BY <2>2, <2>3, <3>1, Zenon
    <3>4. \E j \in 1 .. Len(t) : x = t[j]
      BY <2>3, <3>2
    <3> QED BY <3>3, <3>4 DEF Reported1, s, t, l
  <2>5. /\ \A i \in 1 .. Len(g) : Reported1(d, g[i])
        /\ \A i \in Places : Waiting(d, i) => Reported1(d, d.slots[i])
    BY DEF RingInv, RingReported
  <2>6. CASE Full(d)
    <3>1. e.bufferLost = TRUE /\ e.slots = d.slots /\ e.head = d.head
      BY <1>2, <2>6 DEF Hears
    <3>2. /\ \A i : Age(e, i) = Age(d, i) /\ (Waiting(e, i) <=> Waiting(d, i))
          /\ Unread(e) = Unread(d)
      BY <2>1, <3>1 DEF Age, Unread, Waiting
    <3>3. RingReported(e, g)
      BY <2>4, <2>5, <3>1, <3>2 DEF RingReported
    <3> QED BY <2>1, <3>1, <3>2, <3>3 DEF RingInv, RingShape, RingOrder, RingCount
  <2>7. CASE ~Full(d)
    <3>1. /\ e.bufferLost = d.bufferLost /\ e.head = Next1(d.head)
          /\ e.slots = [d.slots EXCEPT ![d.head] = x]
      BY <1>2, <2>7 DEF Hears, x
    <3>2. d.head \in Places /\ d.tail \in Places /\ DOMAIN d.slots = Places
      BY DEF RingInv, RingShape
    <3>3. /\ e.head \in Places /\ Unread(e) = Unread(d) + 1 /\ ~Waiting(d, d.head)
          /\ \A i \in Places : Age(e, i) = Age(d, i)
          /\ \A i \in Places : Waiting(e, i) <=> Waiting(d, i) \/ i = d.head
          /\ Unread(d) \in Nat /\ \A i \in Places : Waiting(d, i) => Age(d, i) < Age(d, d.head)
      BY <2>1, <2>7, <3>1, <3>2, HeadMoves
    <3>4. /\ DOMAIN e.slots = Places /\ e.slots[d.head] = x
          /\ \A i \in Places : i # d.head => e.slots[i] = d.slots[i]
      BY <3>1, <3>2
    <3>5. \A i \in Places : Waiting(d, i) => e.slots[i] = d.slots[i]
      BY <3>3, <3>4
    <3>6. RingShape(e, fetched, r)
      <4>1. fetched => Unread(d) > 0
        BY DEF RingInv, RingShape
      <4> QED BY <2>1, <3>2, <3>3, <3>4, <4>1 DEF RingInv, RingShape
    <3>7. RingReported(e, g)
      <4>1. ASSUME NEW i \in Places, Waiting(e, i) PROVE Reported1(e, e.slots[i])
        <5>1. CASE i = d.head
          BY <2>4, <3>4, <5>1
        <5>2. CASE Waiting(d, i)
          BY <2>4, <2>5, <3>5, <5>2
        <5> QED BY <3>3, <4>1, <5>1, <5>2
      <4> QED BY <2>4, <2>5, <4>1 DEF RingReported
    <3>8. RingOrder(e, g, fetched)
      <4>1. ASSUME NEW i \in Places, NEW j \in Places, Waiting(e, j), Age(e, i) < Age(e, j)
            PROVE  e.slots[i].n < e.slots[j].n
        <5>1. Age(d, i) < Age(d, j)
          BY <3>3, <4>1
        <5>2. CASE j = d.head
          <6>1. Waiting(d, i)
            BY <5>1, <5>2 DEF Waiting, Unread
          <6>2. d.slots[i].n < x.n
            BY <2>4, <2>5, <6>1
          <6> QED BY <3>4, <3>5, <5>2, <6>1, <6>2
        <5>3. CASE Waiting(d, j)
          <6>1. Waiting(d, i)
            <7>1. Age(d, i) \in Int /\ Age(d, j) \in Int /\ Unread(d) \in Int
              BY <3>2, AgeBound DEF Unread
            <7> QED BY <5>1, <5>3, <7>1 DEF Waiting
          <6>2. d.slots[i].n < d.slots[j].n
            BY <5>1, <5>3 DEF RingInv, RingOrder
          <6> QED BY <3>5, <5>3, <6>1, <6>2
        <5> QED BY <3>3, <4>1, <5>2, <5>3
      <4>2. ASSUME NEW i \in 1 .. Len(g), NEW j \in Places, Waiting(e, j), fetched => Age(e, j) > 0
            PROVE  g[i].n < e.slots[j].n
        <5>1. CASE j = d.head
          BY <2>4, <2>5, <3>4, <5>1
        <5>2. CASE Waiting(d, j)
          <6>1. fetched => Age(d, j) > 0
            BY <3>3, <4>2
          <6>2. g[i].n < d.slots[j].n
            BY <5>2, <6>1 DEF RingInv, RingOrder
          <6> QED BY <3>5, <5>2, <6>2
        <5> QED BY <3>3, <4>2, <5>1, <5>2
      <4>3. \A i, j \in 1 .. Len(g) : i < j => g[i].n < g[j].n
        BY DEF RingInv, RingOrder
      <4> QED BY <4>1, <4>2, <4>3 DEF RingOrder
    <3>9. RingCount(e, g, fetched, r)
      <4>1. ASSUME r = 0, ~d.bufferLost
            PROVE  l = IF fetched THEN (Len(g) + Unread(d)) - 1 ELSE Len(g) + Unread(d)
        BY <4>1 DEF RingInv, RingCount, l, s
      <4>2. Len(t) = l + 1 /\ t = e.heard
        BY <2>3 DEF t
      <4>3. Len(g) \in Nat
        <5>1. PICK S : g \in Seq(S)
          BY DEF RingInv, IsASequence
        <5> QED BY <5>1
      <4> QED BY <3>1, <3>3, <4>1, <4>2, <4>3 DEF RingCount
    <3> QED BY <3>6, <3>7, <3>8, <3>9 DEF RingInv
  <2> QED BY <2>6, <2>7
<1> QED BY <1>1, <1>2 DEF Rings

LEMMA RingsSame ==
  ASSUME NEW d, NEW e, Rings(d, e), NEW p, NEW k, NEW m, HeardInOrder(d, m), Arriving(d, p, k, m)
  PROVE  SameRing(d, e)
BY RingKept DEF SameRing

-----------------------------------------------------------------------------
(***************************************************************************)
(* Steps of the interrupt, and what is on its way.                         *)
(***************************************************************************)
HeaderOut == bus.at = "header" /\ bus.own

(* Frames of other boards whose headers have passed.                       *)
Passed == IF bus.at = "header" /\ ~bus.own THEN foreign - 1 ELSE foreign

OnTheBus ==
  bus.at = "header" =>
    IF bus.own THEN cd.sm = "sending" => bus.n = cd.load /\ ~bus.same
    ELSE bus.n = foreign

(* A header that the receiving machine holds back is handed over before    *)
(* the bus is free.                                                        *)
HeldBack(d, at) ==
  \A i \in 1 .. Len(d.isr) :
    d.isr[i].is = "header" => i = 1 /\ d.held >= 1 /\ (d.stall \/ at \in {"check", "delimiter"})

(* The "sync" machine knows that the line is idle.                         *)
Still == {"idle", "quiet"}

Signals(d) ==
  /\ "MAYTX" \in d.irq => d.sync \in Still
  /\ d.sync = "lost" => d.rx = <<>> /\ d.isr = <<>>

FlowOK ==
  /\ FlowInv(cd, Pipe(cd), 0, Passed, HeaderOut)
  /\ OnTheBus /\ HeldBack(cd, bus.at) /\ Signals(cd)
  /\ cd.sync \in Still => bus = Free

Handles(d, e) ==
  /\ e.rx = <<>> /\ (e.sm = "sending" => d.sm = "sending" /\ e.load = d.load)
  /\ \/ e.sync = "lost" /\ e.isr = <<>> /\ e.irq = {"TXPENDING"}
     \/ /\ e.sync = d.sync /\ e.sync # "lost" /\ e.isr = d.isr /\ e.stall = d.stall
        /\ e.held = d.held
        /\ e.irq \subseteq d.irq \cup {"TXPENDING"}

LEMMA PassedInt ==
  ASSUME Base PROVE Passed \in Int /\ foreign \in Int
BY DEF Base, Counted, Passed

LEMMA LoopStep ==
  ASSUME NEW d, NEW e, NEW n \in Nat, NEW W, NEW p, NEW k \in Nat, NEW m \in Int, NEW h,
         Len(p) \in Nat, k < Len(p), DriverInv(d, n, W), FlowInv(d, p, k, m, h),
         d.rx = <<>>, e = ProcessRx(d, p[k + 1])
  PROVE  /\ Rings(d, e)
         /\ \/ /\ e.sync = "lost" /\ e.isr = <<>> /\ e.rx = <<>> /\ e.irq = {"TXPENDING"}
               /\ e.sm # "sending" /\ FlowInv(e, <<>>, 0, m, h)
            \/ /\ Streams(d, e) /\ e.irq \subseteq d.irq \cup {"TXPENDING"}
               /\ e.sm = d.sm /\ e.load = d.load /\ FlowInv(e, p, k + 1, m, h)
<1> DEFINE f == p[k + 1]
<1>1. Driver(d) /\ Duties(d)
  BY DEF DriverInv, QueueInv
<1>2. Receives(d, f, e) /\ Flows(d, f, e)
  BY <1>1, ProcessRxReceives, ProcessRxFlows
<1> HIDE DEF f
<1>3. Rings(d, e)
  BY <1>2 DEF Receives
<1>4. CASE Reset(e)
  <2>1. /\ e.sync = "lost" /\ e.isr = <<>> /\ e.rx = <<>> /\ e.irq = {"TXPENDING"}
        /\ e.sm \notin {"send", "sending"} /\ ~Receiving(e)
    BY <1>4 DEF Reset, Receiving
  <2>2. FlowInv(e, <<>>, 0, m, h)
    BY <1>3, <2>1, ResetFlow
  <2> QED BY <1>3, <2>1, <2>2
<1>5. CASE ~Reset(e)
  <2>1. Streams(d, e) /\ e.irq \subseteq d.irq \cup {"TXPENDING"}
    BY <1>2, <1>5 DEF Receives
  <2>2. AcceptsOther(d, f, e) \/ AcceptsOwn(d, f, e) \/ Continues(d, f, e)
    BY <1>2, <1>5 DEF Flows
  <2>3. e.sm = d.sm /\ e.load = d.load
    BY <2>2 DEF AcceptsOther, AcceptsOwn, Accepts, Continues
  <2>4. e.stall = d.stall
    BY <2>1 DEF Streams
  <2>5. FlowInv(e, p, k + 1, m, h)
    BY <1>1, <1>3, <2>2, <2>4, FieldFlows DEF f
  <2> QED BY <1>3, <2>1, <2>3, <2>5
<1> QED BY <1>4, <1>5

LEMMA LoopFlows ==
  ASSUME IrqRxData, Base, FlowOK
  PROVE  /\ Handles(cd, cd') /\ SameRing(cd, cd')
         /\ FlowInv(cd', Pipe(cd'), 0, Passed, HeaderOut)
<1>1. IsASequence(cd.rx) /\ IsASequence(cd.isr) /\ DriverInv(cd, sent, withdrawn) /\ Driver(cd)
      /\ sent \in Nat /\ Passed \in Int
  BY PassedInt DEF Base, Machine, DriverInv, QueueInv, Counted
<1>2. PICK u : /\ cd' = u[Len(cd.rx)] /\ u[0] = Flushed(cd)
               /\ \A i \in 1 .. Len(cd.rx) : u[i] = Processed(u[i - 1], cd.rx[i])
  BY <1>1, IrqRxDataRuns
<1>3. PICK m \in Int : m = Passed
  BY <1>1
<1>4. PICK h : h = HeaderOut
  OBVIOUS
<1>5. PICK c : c = cd
  OBVIOUS
<1>6. PICK ns \in Nat : ns = sent
  BY <1>1
<1>7. PICK W : W = withdrawn
  OBVIOUS
<1> DEFINE s == c.rx
           n == Len(s)
           p == Pipe(c)
           At0(e, i) == /\ DriverInv(e, ns, W) /\ Handles(c, e) /\ SameRing(c, e)
                        /\ \/ e.sync = "lost" /\ FlowInv(e, <<>>, 0, m, h)
                           \/ e.sync # "lost" /\ FlowInv(e, p, i, m, h)
           T == { i \in 0 .. n : At0(u[i], i) }
<1>8. /\ n \in Nat /\ Len(p) \in Nat /\ n <= Len(p)
      /\ \A i \in 1 .. n : p[i] = s[i]
  <2> DEFINE a == c.rx
             b == c.isr
  <2>1. IsASequence(a) /\ IsASequence(b)
    BY <1>1, <1>5
  <2>2. Pipe(c) = a \o b
    BY DEF Pipe
  <2> HIDE DEF a, b
  <2>3. /\ Len(a) \in Nat /\ Len(b) \in Nat /\ Len(a \o b) = Len(a) + Len(b)
        /\ \A i \in 1 .. Len(a) : (a \o b)[i] = a[i]
    BY <2>1, JoinedAt
  <2> QED BY <2>2, <2>3 DEF a
<1>9. c.sync # "lost" /\ FlowInv(c, p, 0, m, h) /\ DriverInv(c, ns, W) /\ Driver(c)
  BY <1>1, <1>3, <1>4, <1>5, <1>6, <1>7 DEF FlowOK, Signals, IrqRxData
<1>10. 0 \in T
  <2> DEFINE e == Flushed(c)
  <2>1. Only(c, e, {"rx"}) /\ e.rx = <<>>
    BY <1>9, FlushedDoes
  <2> HIDE DEF e, p
  <2>2. /\ e.sm = c.sm /\ e.load = c.load /\ e.sync = c.sync /\ e.isr = c.isr
        /\ e.stall = c.stall /\ e.irq = c.irq /\ e.held = c.held
    BY <2>1 DEF Only, Fields
  <2>3. DriverInv(e, ns, W)
    BY <1>9, <2>1, <2>2, DriverKept
  <2>4. FlowInv(e, p, 0, m, h)
    BY <1>9, <2>1, <2>2, FlowKept
  <2>5. SameRing(c, e)
    BY <2>1, Unheard, RingUntouched
  <2>6. At0(e, 0)
    BY <1>9, <2>1, <2>2, <2>3, <2>4, <2>5 DEF Handles
  <2>7. u[0] = e
    BY <1>2, <1>5 DEF e
  <2> QED BY <1>8, <2>6, <2>7
<1>11. ASSUME NEW i \in 1 .. n, i - 1 \in T PROVE i \in T
  <2> DEFINE d == u[i - 1]
             k == i - 1
  <2>1. At0(d, k) /\ k \in Nat /\ k + 1 = i /\ k < Len(p)
    BY <1>8, <1>11
  <2>2. u[i] = Processed(d, p[k + 1])
    BY <1>2, <1>5, <1>8, <2>1
  <2>3. i \in 0 .. n
    BY <1>8
  <2> HIDE DEF d, p, k, s, n
  <2>4. CASE d.sync = "lost"
    <3>1. u[i] = d
      BY <2>2, <2>4 DEF Processed
    <3>2. At0(u[i], i)
      BY <2>1, <2>4, <3>1
    <3> QED BY <2>3, <3>2
  <2>5. CASE d.sync # "lost"
    <3> DEFINE e == ProcessRx(d, p[k + 1])
    <3>1. u[i] = e
      BY <2>2, <2>5 DEF Processed
    <3>2. DriverInv(d, ns, W) /\ Handles(c, d) /\ FlowInv(d, p, k, m, h) /\ SameRing(c, d)
      BY <2>1, <2>5
    <3>3. d.rx = <<>>
      BY <3>2 DEF Handles
    <3>4. /\ Rings(d, e)
          /\ \/ /\ e.sync = "lost" /\ e.isr = <<>> /\ e.rx = <<>> /\ e.irq = {"TXPENDING"}
                /\ e.sm # "sending" /\ FlowInv(e, <<>>, 0, m, h)
             \/ /\ Streams(d, e) /\ e.irq \subseteq d.irq \cup {"TXPENDING"}
                /\ e.sm = d.sm /\ e.load = d.load /\ FlowInv(e, p, k + 1, m, h)
      BY <1>8, <2>1, <3>2, <3>3, LoopStep
    <3>5. DriverInv(e, ns, W)
      BY <3>2, ProcessRxKeeps
    <3> HIDE DEF e
    <3>6. Handles(c, e) /\ (e.sync # "lost" => FlowInv(e, p, i, m, h))
          /\ (e.sync = "lost" => FlowInv(e, <<>>, 0, m, h))
      <4>1. CASE e.sync = "lost"
        <5>1. ~Streams(d, e)
          BY <2>5, <4>1 DEF Streams
        <5> QED BY <3>4, <4>1, <5>1 DEF Handles
      <4>2. CASE e.sync # "lost"
        <5>1. Streams(d, e) /\ e.irq \subseteq d.irq \cup {"TXPENDING"}
              /\ e.sm = d.sm /\ e.load = d.load /\ FlowInv(e, p, k + 1, m, h)
          BY <3>4, <4>2
        <5>2. FlowInv(e, p, i, m, h)
          BY <2>1, <5>1
        <5>3. Handles(c, e)
          BY <2>5, <3>2, <3>3, <4>2, <5>1 DEF Handles, Streams
        <5> QED BY <4>2, <5>2, <5>3
      <4> QED BY <4>1, <4>2
    <3>7. SameRing(c, e)
      <4>1. SameRing(d, e)
        BY <3>2, <3>4, RingsSame DEF FlowInv
      <4> QED BY <3>2, <4>1 DEF SameRing
    <3>8. At0(u[i], i)
      BY <3>1, <3>5, <3>6, <3>7
    <3> QED BY <2>3, <3>8 DEF n, s
  <2> QED BY <2>4, <2>5
<1> HIDE DEF T
<1>12. \A i \in 0 .. n : i \in T
  BY <1>8, <1>10, <1>11, CountUp
<1>13. n \in T
  BY <1>8, <1>12
<1> DEFINE e == u[n]
<1>14. At0(e, n) /\ cd' = e
  BY <1>2, <1>5, <1>13 DEF T
<1> HIDE DEF e
<1>15. Handles(c, e) /\ SameRing(c, e)
  BY <1>14
<1>16. IsASequence(c.rx) /\ IsASequence(c.isr)
  BY <1>1, <1>5
<1>17. FlowInv(e, Pipe(e), 0, m, h)
  <2>1. CASE e.sync = "lost"
    <3>1. e.rx = <<>> /\ e.isr = <<>>
      BY <1>15, <2>1 DEF Handles
    <3>2. IsASequence(<<>>)
      BY <1>16, OneMore
    <3>3. Pipe(e) = <<>>
      BY <3>1, <3>2, PipeOf DEF Pipe
    <3> QED BY <1>14, <2>1, <3>3
  <2>2. CASE e.sync # "lost"
    <3>1. e.rx = <<>> /\ e.isr = c.isr
      BY <1>15, <2>2 DEF Handles
    <3>2. Pipe(e) = c.isr
      BY <1>16, <3>1, PipeOf DEF Pipe
    <3>3. FlowInv(e, c.rx \o c.isr, Len(c.rx), m, h)
      BY <1>14, <2>2 DEF Pipe
    <3>4. FlowInv(e, c.isr, 0, m, h)
      BY <1>16, <3>3, Shifted
    <3> QED BY <3>2, <3>4
  <2> QED BY <2>1, <2>2
<1> QED BY <1>3, <1>4, <1>5, <1>14, <1>15, <1>17

-----------------------------------------------------------------------------
(***************************************************************************)
(* The lines: what they load, and that nothing on its way is mistaken for  *)
(* it.                                                                     *)
(***************************************************************************)
Sends(d, e) ==
  /\ e.queue = d.queue \/ d.report \in {"TX_ACK", "TX_EOF"}
  /\ Receiving(e) => Receiving(d) /\ HearsNothing(d, e)
  /\ \/ d.tx = "QUEUED" /\ e.tx = "QUEUED" /\ e.sm = d.sm /\ e.load = d.load
     \/ e.queue = <<>> /\ e.sm = d.sm /\ e.load = d.load
     \/ e.queue # <<>> /\ e.tx = "QUEUED" /\ e.sm = "send" /\ e.load = Head(e.queue)
     \/ d.report = "RX_ACK" /\ e.sm = "inject"

(* What a line does before it looks for something to send.                 *)
Prepares(d, h) ==
  /\ Driver(h) /\ h.sm = d.sm /\ h.load = d.load /\ h.tx = d.tx
  /\ h.queue = d.queue \/ d.report \in {"TX_ACK", "TX_EOF"}
  /\ Receiving(h) => Receiving(d) /\ HearsNothing(d, h)

LEMMA ScheduleSends ==
  ASSUME NEW d, NEW h, NEW lines, Prepares(d, h)
  PROVE  LET s == TxSchedule(h) IN Sends(d, IrqSet(s, lines \cup CheckTxPending(s)))
<1> DEFINE s == TxSchedule(h)
           watched == lines \cup CheckTxPending(s)
           e == IrqSet(s, watched)
<1>1. /\ Only(h, s, {"tx", "irq", "sm", "load"})
      /\ \/ h.tx = "QUEUED" /\ s = h
         \/ h.queue = <<>> /\ s.sm = h.sm /\ s.load = h.load
         \/ h.queue # <<>> /\ s.tx = "QUEUED" /\ s.sm = "send" /\ s.load = Head(h.queue)
  <2>1. /\ Only(h, s, {"tx", "irq", "sm", "load"})
        /\ \/ h.tx = "QUEUED" /\ ~TxDidFail(h) /\ s = h
           \/ /\ ~(h.tx = "QUEUED" /\ ~TxDidFail(h))
              /\ h.queue = <<>> /\ s.tx = "IDLE" /\ s.irq = h.irq \ {"TXPENDING"}
              /\ s.sm = h.sm /\ s.load = h.load
           \/ /\ ~(h.tx = "QUEUED" /\ ~TxDidFail(h))
              /\ h.queue # <<>> /\ s.tx = "QUEUED" /\ s.irq = h.irq \ {"MATCHED", "ACKDONE"}
              /\ s.sm = "send" /\ s.load = Head(h.queue)
    BY TxScheduleDoes DEF Prepares
  <2> HIDE DEF s
  <2> QED BY <2>1
<1> HIDE DEF s, watched
<1>2. Only(s, e, {"inte"})
  BY <1>1, IrqSetDoes DEF Only
<1> HIDE DEF e
<1>3. /\ e.tx = s.tx /\ e.sm = s.sm /\ e.load = s.load /\ e.queue = h.queue /\ s.queue = h.queue
      /\ e.report = h.report
  BY <1>1, <1>2 DEF Only, Fields
<1>4. Only(h, e, {"tx", "irq", "sm", "load", "inte"})
  BY <1>1, <1>2 DEF Only
<1>5. HearsNothing(h, e)
  BY <1>4, Unheard
<1>6. Receiving(e) => Receiving(d) /\ HearsNothing(d, e)
  BY <1>3, <1>5 DEF Prepares, Receiving, HearsNothing
<1>7. \/ d.tx = "QUEUED" /\ e.tx = "QUEUED" /\ e.sm = d.sm /\ e.load = d.load
      \/ e.queue = <<>> /\ e.sm = d.sm /\ e.load = d.load
      \/ e.queue # <<>> /\ e.tx = "QUEUED" /\ e.sm = "send" /\ e.load = Head(e.queue)
  BY <1>1, <1>3 DEF Prepares
<1>8. Sends(d, e)
  BY <1>3, <1>6, <1>7 DEF Sends, Prepares
<1> QED BY <1>8 DEF e, watched, s

(* The end of a frame.                                                     *)
LEMMA EndSends ==
  ASSUME NEW d, NEW f, Only(d, f, {"report"}), Receiving(f) => Receiving(d),
         f.report = "TX_EOF" => d.report \in {"TX_ACK", "TX_EOF"}
  PROVE  LET s == TxSchedule(IF f.report = "IDLE" THEN f ELSE HandleEof(f))
         IN Sends(d, IrqSet(s, CheckTxPending(s)))
<1> DEFINE h == IF f.report = "IDLE" THEN f ELSE HandleEof(f)
<1>1. /\ Driver(f) /\ f.queue = d.queue /\ f.sm = d.sm /\ f.load = d.load /\ f.tx = d.tx
  BY DEF Only, Fields
<1>2. Prepares(d, h)
  <2>1. CASE f.report = "IDLE"
    <3>1. ~Receiving(f)
      BY <2>1 DEF Receiving
    <3> QED BY <1>1, <2>1, <3>1 DEF Prepares
  <2>2. CASE f.report # "IDLE"
    <3>1. h.report = "IDLE" /\ Told(f, h)
      BY <1>1, <2>2, HandleEofDoes
    <3> HIDE DEF h
    <3>2. /\ Driver(h) /\ h.sm = f.sm /\ h.load = f.load /\ h.tx = f.tx
          /\ h.queue = f.queue \/ f.report = "TX_EOF"
      BY <3>1 DEF Told, Only, Fields
    <3>3. ~Receiving(h)
      BY <3>1 DEF Receiving
    <3> QED BY <1>1, <3>2, <3>3 DEF Prepares
  <2> QED BY <2>1, <2>2
<1> HIDE DEF h
<1>3. LET s == TxSchedule(h) IN Sends(d, IrqSet(s, {} \cup CheckTxPending(s)))
  BY <1>2, ScheduleSends
<1>4. {} \cup CheckTxPending(TxSchedule(h)) = CheckTxPending(TxSchedule(h))
  OBVIOUS
<1> QED BY <1>3, <1>4 DEF h

LEMMA HandledSends ==
  ASSUME NEW d, NEW e, NEW l, Driver(d), Handled(l, d, e)
  PROVE  Sends(d, e)
<1>1. CASE e = LineAckDone(d)
  <2> DEFINE m == Match(d, Key("rxeof", d.msg))
  <2>1. Only(d, m, {"key"})
    BY MatchDoes
  <2>2. e = LET s == TxSchedule(m) IN IrqSet(s, {"MAYTX", "MATCHED"} \cup CheckTxPending(s))
    BY <1>1 DEF LineAckDone
  <2> HIDE DEF m
  <2>3. HearsNothing(d, m)
    BY <2>1, Unheard
  <2>4. Prepares(d, m)
    BY <2>1, <2>3 DEF Only, Fields, Prepares, Receiving
  <2>5. LET s == TxSchedule(m) IN Sends(d, IrqSet(s, {"MAYTX", "MATCHED"} \cup CheckTxPending(s)))
    BY <2>4, ScheduleSends
  <2> QED BY <2>2, <2>5
<1>2. CASE e = LineMatched(d)
  <2> DEFINE f == IF d.report = "IDLE" THEN d ELSE WithEofFlag(d)
  <2>1. /\ Only(d, WithEofFlag(d), {"report"})
        /\ WithEofFlag(d).report = CASE d.report = "RX_ACK" -> "RX_EOF"
                                     [] d.report = "TX_ACK" -> "TX_EOF"
                                     [] OTHER -> d.report
    BY WithEofFlagDoes
  <2>2. /\ Only(d, f, {"report"}) /\ (Receiving(f) => Receiving(d))
        /\ f.report = "IDLE" <=> d.report = "IDLE"
        /\ f.report = "TX_EOF" => d.report \in {"TX_ACK", "TX_EOF"}
    <3>1. CASE d.report = "IDLE"
      BY <3>1 DEF Only
    <3>2. CASE d.report = "RX_ACK"
      BY <2>1, <3>2 DEF Receiving
    <3>3. CASE d.report = "TX_ACK"
      BY <2>1, <3>3 DEF Receiving
    <3>4. CASE d.report \notin {"IDLE", "RX_ACK", "TX_ACK"}
      BY <2>1, <3>4 DEF Receiving
    <3> QED BY <3>1, <3>2, <3>3, <3>4
  <2>3. e = LET s == TxSchedule(IF f.report = "IDLE" THEN f ELSE HandleEof(f))
            IN IrqSet(s, CheckTxPending(s))
    <3>1. CASE d.report = "IDLE"
      BY <1>2, <3>1 DEF LineMatched
    <3>2. CASE d.report # "IDLE"
      <4>1. f = WithEofFlag(d) /\ f.report # "IDLE"
        BY <2>2, <3>2
      <4> HIDE DEF f
      <4> QED BY <1>2, <3>2, <4>1 DEF LineMatched
    <3> QED BY <3>1, <3>2
  <2> HIDE DEF f
  <2>4. LET s == TxSchedule(IF f.report = "IDLE" THEN f ELSE HandleEof(f))
        IN Sends(d, IrqSet(s, CheckTxPending(s)))
    BY <2>2, EndSends
  <2> QED BY <2>3, <2>4
<1>3. CASE e = LineMayTx(d)
  <2>1. Only(d, d, {"report"})
    BY DEF Only
  <2>2. LET s == TxSchedule(IF d.report = "IDLE" THEN d ELSE HandleEof(d))
        IN Sends(d, IrqSet(s, CheckTxPending(s)))
    BY <2>1, EndSends
  <2> QED BY <1>3, <2>2 DEF LineMayTx
<1>4. CASE e = LineTxPending(d)
  <2>1. CASE d.inte = {"MAYTX", "TXPENDING"} /\ d.report = "RX_ACK"
    <3> DEFINE a == [d EXCEPT !.tx = "ACKING_RX"]
               i == InjectAck(a)
    <3>1. e = IrqSet(i, {"MAYTX", "ACKDONE"})
      BY <1>4, <2>1 DEF LineTxPending
    <3>2. Only(d, a, {"tx"})
      BY DEF Only, Driver, Fields
    <3> HIDE DEF a
    <3>3. Only(a, i, {"irq", "key", "sm"}) /\ i.sm = "inject"
      BY <3>2, InjectAckDoes DEF Only
    <3> HIDE DEF i
    <3>4. Only(i, e, {"inte"})
      BY <3>1, <3>3, IrqSetDoes DEF Only
    <3>5. Only(d, e, {"tx", "irq", "key", "sm", "inte"})
      BY <3>2, <3>3, <3>4 DEF Only
    <3>6. e.sm = "inject" /\ e.queue = d.queue /\ e.report = d.report
      BY <3>3, <3>4, <3>5 DEF Only, Fields
    <3>7. HearsNothing(d, e)
      BY <3>5, Unheard
    <3> QED BY <2>1, <3>6, <3>7 DEF Sends, Receiving
  <2>2. CASE ~(d.inte = {"MAYTX", "TXPENDING"} /\ d.report = "RX_ACK")
    <3>1. e = LET s == TxSchedule(d) IN IrqSet(s, (d.inte \ {"TXPENDING"}) \cup CheckTxPending(s))
      BY <1>4, <2>2 DEF LineTxPending
    <3>2. Prepares(d, d)
      BY DEF Prepares, HearsNothing
    <3>3. LET s == TxSchedule(d) IN Sends(d, IrqSet(s, (d.inte \ {"TXPENDING"}) \cup CheckTxPending(s)))
      BY <3>2, ScheduleSends
    <3> QED BY <3>1, <3>3
  <2> QED BY <2>1, <2>2
<1> QED BY <1>1, <1>2, <1>3, <1>4 DEF Handled

(* Where the FIFO is empty and a line is handled, a header held back that  *)
(* is this board's is still recognised.                                    *)
LEMMA LineFlows ==
  ASSUME NEW d, NEW e, NEW l, NEW n, NEW W, DriverInv(d, n, W), Handled(l, d, e),
         l \in d.irq, l \in d.inte, NEW p, p = d.isr,
         NEW at, HeldBack(d, at), Signals(d), d.sync \in Still => at = "free",
         NEW m \in Int, NEW h, FlowInv(d, p, 0, m, h)
  PROVE  FlowInv(e, p, 0, m, h)
<1>1. Driver(d) /\ Duties(d) /\ (d.tx = "QUEUED" => d.queue # <<>>)
  BY DEF DriverInv, QueueInv
<1>2. Line1(d, e) /\ Sends(d, e)
  BY <1>1, HandledTells, HandledSends
<1>3. /\ Rings(d, e) /\ e.stall = d.stall /\ e.msg = d.msg /\ e.parse = d.parse
  BY <1>2 DEF Line1, Streams
<1>4. HeardInOrder(e, m) /\ Coming(e, p, 0, m)
  BY <1>3, HeardGrows DEF FlowInv
<1>5. Arriving(e, p, 0, m)
  <2> SUFFICES ASSUME Receiving(e) PROVE Arriving(e, p, 0, m)
    BY DEF Arriving
  <2>1. Receiving(d) /\ e.heard = d.heard
    BY <1>2 DEF Sends, HearsNothing
  <2> QED BY <1>3, <2>1 DEF FlowInv, Arriving
<1>6. d.tx = "QUEUED" => e.queue = d.queue /\ e.queue # <<>>
  BY <1>1, <1>2 DEF Sends, Duties
<1>7. /\ Dazed(e) <=> Dazed(d)
      /\ \A i \in 1 .. Len(p) : Live(e, p, 0, i) <=> Live(d, p, 0, i)
  BY <1>3 DEF Live, Dazed
<1>8. ASSUME NEW i \in 1 .. Len(p), Live(d, p, 0, i)
      PROVE  d.parse = "HEADER" /\ d.tx = "QUEUED" /\ d.stall
  <2>1. i = 0 + 1 /\ (d.stall \/ at \in {"check", "delimiter"})
    BY <1>8 DEF HeldBack, Live, Own
  <2>2. d.parse = "HEADER"
    BY <1>8, <2>1 DEF Live
  <2>3. d.tx = "QUEUED"
    BY <1>8 DEF FlowInv, Recognised
  <2>4. l = "MAYTX"
    BY <1>1, <2>2, <2>3 DEF Duties
  <2>5. at = "free"
    BY <2>4 DEF Signals
  <2> QED BY <2>1, <2>2, <2>3, <2>5
<1>9. Recognised(e, p, 0)
  <2>1. ASSUME NEW i \in 1 .. Len(p), Live(d, p, 0, i)
        PROVE  /\ e.tx = "QUEUED" /\ p[i].frame.n = Head(e.queue) /\ ~p[i].frame.same
               /\ \A j \in 1 .. Len(p) : Live(d, p, 0, j) => j = i
    <3>1. d.parse = "HEADER" /\ d.tx = "QUEUED"
      BY <1>8, <2>1
    <3>2. d.report = "IDLE"
      BY <1>1, <3>1 DEF Duties
    <3>3. e.tx = "QUEUED"
      BY <1>2, <1>6, <3>1, <3>2 DEF Sends
    <3>4. p[i].frame.n = Head(d.queue) /\ ~p[i].frame.same
          /\ \A j \in 1 .. Len(p) : Live(d, p, 0, j) => j = i
      BY <2>1 DEF FlowInv, Recognised
    <3> QED BY <1>6, <3>1, <3>3, <3>4
  <2> QED BY <1>7, <2>1 DEF Recognised
<1>10. Loaded(e, p, 0, h)
  <2> SUFFICES ASSUME e.sm = "send" \/ (e.sm = "sending" /\ h), ~Dazed(e)
               PROVE  /\ e.tx = "QUEUED" /\ e.queue # <<>> /\ e.load = Head(e.queue)
                      /\ e.stall \/ \A i \in 1 .. Len(p) : ~Live(e, p, 0, i)
    BY DEF Loaded
  <2>1. e.stall \/ \A i \in 1 .. Len(p) : ~Live(e, p, 0, i)
    BY <1>3, <1>7, <1>8
  <2>2. CASE e.sm = d.sm /\ e.load = d.load
             /\ (e.queue = <<>> \/ (d.tx = "QUEUED" /\ e.tx = "QUEUED"))
    <3>1. d.tx = "QUEUED" /\ d.load = Head(d.queue)
      BY <1>7, <2>2 DEF FlowInv, Loaded
    <3> QED BY <1>6, <2>1, <2>2, <3>1
  <2>3. CASE e.queue # <<>> /\ e.tx = "QUEUED" /\ e.sm = "send" /\ e.load = Head(e.queue)
    BY <2>1, <2>3
  <2>4. e.sm # "inject"
    OBVIOUS
  <2> QED BY <1>2, <2>2, <2>3, <2>4 DEF Sends
<1> QED BY <1>4, <1>5, <1>9, <1>10 DEF FlowInv

-----------------------------------------------------------------------------
(***************************************************************************)
(* Steps that keep what is on its way in order.                            *)
(***************************************************************************)
LEMMA IrqKeepsFlow ==
  ASSUME Base, FlowOK, Irq PROVE FlowOK'
<1>1. bus' = bus /\ Passed' = Passed /\ HeaderOut' = HeaderOut
  BY IrqIs DEF Irq, IrqRxData, IrqLine, Untouched, counters, Passed, HeaderOut
<1>2. ASSUME FlowInv(cd', Pipe(cd'), 0, Passed, HeaderOut),
             cd'.sm = "sending" => cd.sm = "sending" /\ cd'.load = cd.load,
             HeldBack(cd', bus.at), Signals(cd'), cd'.sync \in Still => cd.sync \in Still
      PROVE  FlowOK'
  <2>1. OnTheBus'
    BY <1>1, <1>2 DEF OnTheBus, FlowOK, Irq, IrqRxData, IrqAckDone, IrqMatched, IrqMayTx,
                      IrqTxPending, Untouched, counters
  <2> QED BY <1>1, <1>2, <2>1 DEF FlowOK, Signals, HeldBack
<1>3. CASE IrqRxData
  <2>1. Handles(cd, cd') /\ FlowInv(cd', Pipe(cd'), 0, Passed, HeaderOut)
    BY <1>3, LoopFlows
  <2>2. \A i \in 1 .. Len(<<>>) : FALSE
    OBVIOUS
  <2>3. HeldBack(cd', bus.at)
    BY <2>1, <2>2 DEF Handles, HeldBack, FlowOK
  <2>4. Signals(cd') /\ (cd'.sync \in Still => cd.sync \in Still)
    BY <2>1 DEF Handles, Signals, FlowOK, Still
  <2> QED BY <1>2, <2>1, <2>3, <2>4 DEF Handles
<1>4. ASSUME NEW l \in Lines, IrqLine(l) PROVE FlowOK'
  <2>1. /\ cd.rx = <<>> /\ l \in cd.irq /\ l \in cd.inte /\ Handled(l, cd, cd')
        /\ DriverInv(cd, sent, withdrawn) /\ Driver(cd) /\ IsASequence(cd.isr) /\ IsASequence(cd.rx)
    BY <1>4 DEF IrqLine, Base, Machine, DriverInv, QueueInv
  <2>2. Line1(cd, cd') /\ Sends(cd, cd')
    BY <2>1, HandledTells, HandledSends
  <2>3. /\ cd'.rx = cd.rx /\ cd'.isr = cd.isr /\ cd'.stall = cd.stall /\ cd'.sync = cd.sync
        /\ cd'.held = cd.held /\ cd'.irq \subseteq cd.irq
    BY <2>2 DEF Line1, Streams
  <2>4. Pipe(cd) = cd.isr
    <3> DEFINE b == cd.isr
    <3>1. IsASequence(b)
      BY <2>1
    <3>2. IsASequence(<<>>)
      BY <2>1
    <3> HIDE DEF b
    <3>3. <<>> \o b = b
      BY <3>1, <3>2, PipeOf
    <3> QED BY <2>1, <3>3 DEF Pipe, b
  <2>5. Pipe(cd') = cd.isr
    BY <2>3, <2>4 DEF Pipe
  <2>6. /\ FlowInv(cd, cd.isr, 0, Passed, HeaderOut) /\ HeldBack(cd, bus.at) /\ Signals(cd)
        /\ cd.sync \in Still => bus.at = "free"
    BY <2>4, FreeAt DEF FlowOK
  <2>7. Passed \in Int
    BY PassedInt
  <2>8. FlowInv(cd', cd.isr, 0, Passed, HeaderOut)
    BY <2>1, <2>6, <2>7, LineFlows
  <2>9. cd'.sm = "sending" => cd.sm = "sending" /\ cd'.load = cd.load
    BY <2>2 DEF Sends
  <2>10. HeldBack(cd', bus.at) /\ Signals(cd')
    BY <2>3, <2>6 DEF HeldBack, Signals
  <2> QED BY <1>2, <2>3, <2>5, <2>8, <2>9, <2>10
<1> QED BY <1>3, <1>4, IrqIs

(* A field other than a header is received.                                *)
LEMMA PutFlows ==
  ASSUME NEW d, NEW c, NEW S, Driver(d), Machine(d), Only(d, c, S),
         S \cap {"heard", "report", "msg", "stall", "parse", "tx", "queue", "load",
                 "rx", "isr", "held", "head", "tail"} = {},
         NEW f, f.is # "header", NEW total,
         NEW m \in Int, NEW m2 \in Int, m <= m2, NEW h, NEW h2,
         FlowInv(d, Pipe(d), 0, m, h),
         c.sm = "send" \/ (c.sm = "sending" /\ h2) => d.sm = "send" \/ (d.sm = "sending" /\ h)
  PROVE  FlowInv(Put(c, f, total), Pipe(Put(c, f, total)), 0, m2, h2)
<1> DEFINE e == Put(c, f, total)
           p == Pipe(d)
<1>1. Driver(c) /\ c.rx = d.rx /\ c.isr = d.isr /\ c.held = d.held /\ c.head = d.head
      /\ c.tail = d.tail
  BY DEF Only, Fields
<1>2. Machine(c) /\ Pipe(c) = p
  BY <1>1 DEF Machine, Pipe
<1>3. Only(c, e, {"isr", "held", "rx"})
  BY <1>1, PutDoes
<1>4. Pipe(e) = p \/ Pipe(e) = Append(p, f)
  BY <1>1, <1>2, PutPipe
<1>5. IsASequence(p)
  <2> DEFINE a == d.rx
             b == d.isr
  <2>1. IsASequence(a) /\ IsASequence(b)
    BY DEF Machine
  <2> HIDE DEF a, b
  <2>2. IsASequence(a \o b)
    BY <2>1, Joined
  <2> QED BY <2>2 DEF Pipe, a, b
<1> HIDE DEF e, p
<1>6. e.sm = c.sm
  BY <1>3 DEF Only, Fields
<1>7. FlowInv(c, p, 0, m2, h2)
  BY FlowKept DEF p
<1>8. FlowInv(e, p, 0, m2, h2)
  BY <1>3, <1>6, <1>7, FlowKept
<1>9. FlowInv(e, Append(p, f), 0, m2, h2)
  BY <1>5, <1>8, Longer
<1> QED BY <1>4, <1>8, <1>9 DEF e

LEMMA PutHolds ==
  ASSUME NEW c, Driver(c), Machine(c), Signals(c), NEW f, f.is # "header",
         NEW total \in Nat, NEW at, NEW at2, HeldBack(c, at),
         total >= 1,
         c.held >= 1 /\ at \in {"check", "delimiter"}
           => total >= 10 \/ at2 \in {"check", "delimiter"}
  PROVE  HeldBack(Put(c, f, total), at2) /\ Signals(Put(c, f, total))
<1> DEFINE e == Put(c, f, total)
<1>1. /\ Only(c, e, {"isr", "held", "rx"})
      /\ \/ /\ c.sync = "lost" \/ (c.stall /\ c.rx # <<>>)
            /\ e = c
         \/ /\ ~(c.sync = "lost" \/ (c.stall /\ c.rx # <<>>))
            /\ \/ total < 10 /\ e.rx = c.rx /\ e.isr = Append(c.isr, f) /\ e.held = total
               \/ /\ ~(total < 10) /\ total % 10 = 0
                  /\ e.rx = Append(c.rx \o c.isr, f) /\ e.isr = <<>> /\ e.held = 0
               \/ /\ ~(total < 10) /\ total % 10 # 0
                  /\ e.rx = c.rx \o c.isr /\ e.isr = <<f>> /\ e.held = total % 10
  BY PutDoes, Zenon
<1> HIDE DEF e
<1>2. e.sync = c.sync /\ e.irq = c.irq /\ e.stall = c.stall
  BY <1>1 DEF Only, Fields
<1>3. Signals(e)
  BY <1>1, <1>2 DEF Signals
<1>4. \A i \in 1 .. Len(<<>>) : FALSE
  OBVIOUS
<1>5. HeldBack(e, at2)
  <2>1. CASE e.isr = <<>>
    BY <1>4, <2>1 DEF HeldBack
  <2>2. CASE e.isr = <<f>>
    <3>1. \A i \in 1 .. Len(<<f>>) : <<f>>[i] = f
      OBVIOUS
    <3> QED BY <2>2, <3>1 DEF HeldBack
  <2>3. CASE c.stall /\ e = c
    BY <2>3 DEF HeldBack
  <2>4. CASE total < 10 /\ e.isr = Append(c.isr, f) /\ e.held = total
    <3> DEFINE s == c.isr
               t == e.isr
    <3>1. IsASequence(s)
      BY DEF Machine
    <3>2. \A i \in 1 .. Len(s) : s[i].is = "header" => i = 1 /\ e.held >= 1 /\ (e.stall \/ at2 \in {"check", "delimiter"})
      <4>1. ASSUME NEW i \in 1 .. Len(s), s[i].is = "header"
            PROVE  i = 1 /\ c.held >= 1 /\ (c.stall \/ at \in {"check", "delimiter"})
        BY <4>1 DEF HeldBack
      <4>2. e.held >= 1
        BY <2>4
      <4>3. ~(total >= 10)
        BY <2>4
      <4> QED BY <1>2, <4>1, <4>2, <4>3
    <3>3. t = Append(s, f)
      BY <2>4
    <3> HIDE DEF s, t
    <3>4. /\ Len(s) \in Nat /\ Len(t) = Len(s) + 1 /\ t[Len(s) + 1] = f
          /\ \A i \in 1 .. Len(s) : t[i] = s[i]
      BY <3>1, <3>3, AppendedAt
    <3>5. \A i \in 1 .. Len(t) : i = Len(s) + 1 \/ i \in 1 .. Len(s)
      BY <3>4
    <3>6. \A i \in 1 .. Len(t) : t[i].is = "header" => i = 1 /\ e.held >= 1 /\ (e.stall \/ at2 \in {"check", "delimiter"})
      BY <3>2, <3>4, <3>5
    <3> QED BY <3>6 DEF HeldBack, t
  <2>5. CASE c.sync = "lost" /\ e = c
    <3>1. c.isr = <<>>
      BY <2>5 DEF Signals
    <3> QED BY <2>1, <2>5, <3>1
  <2> QED BY <1>1, <2>1, <2>2, <2>3, <2>4, <2>5
<1> QED BY <1>3, <1>5 DEF e

(* A frame begins.                                                         *)
LEMMA BegunFlows ==
  ASSUME Base, FlowOK, NEW c, Only(cd, c, {"sm"}), bus = Free,
         NEW m2 \in Int, Passed <= m2, NEW h2,
         c.sm = "send" \/ (c.sm = "sending" /\ h2) => cd.sm = "send", NEW at2
  PROVE  LET e == Begun(c)
         IN /\ FlowInv(e, Pipe(e), 0, m2, h2) /\ HeldBack(e, at2) /\ Signals(e)
            /\ e.sync = "frame" /\ e.sm = c.sm /\ e.load = c.load
<1> DEFINE e == Begun(c)
<1>1. Driver(cd) /\ Machine(cd) /\ Passed \in Int /\ cd.held \in Nat /\ Driver(c)
  BY PassedInt DEF Base, DriverInv, QueueInv, Machine, Only
<1>2. PICK b : /\ Only(c, b, {"sync", "irq"}) /\ b.sync = "frame" /\ b.irq = c.irq \ {"MAYTX"}
               /\ e = Put(b, Sof, b.held + 1)
  BY <1>1, BegunDoes
<1> HIDE DEF e
<1>3. /\ Only(cd, b, {"sm", "sync", "irq"}) /\ b.sm = c.sm /\ b.held = cd.held /\ b.rx = cd.rx
      /\ b.isr = cd.isr /\ b.stall = cd.stall /\ b.load = c.load /\ Driver(b)
      /\ b.head = cd.head /\ b.tail = cd.tail
  BY <1>2 DEF Only, Fields
<1>4. Machine(b) /\ b.held + 1 \in Nat /\ b.held + 1 >= 1
  BY <1>1, <1>3 DEF Machine
<1>5. /\ FlowInv(cd, Pipe(cd), 0, Passed, HeaderOut) /\ HeldBack(cd, bus.at)
      /\ bus.at \notin {"check", "delimiter"}
  BY FreeAt DEF FlowOK
<1>6. FlowInv(e, Pipe(e), 0, m2, h2)
  BY <1>1, <1>2, <1>3, <1>5, PutFlows, FieldKinds
<1>7. Signals(b) /\ HeldBack(b, bus.at)
  BY <1>2, <1>3, <1>5 DEF Signals, HeldBack
<1>8. HeldBack(e, at2) /\ Signals(e)
  BY <1>2, <1>3, <1>4, <1>5, <1>7, PutHolds, FieldKinds
<1>9. Only(b, e, {"isr", "held", "rx"})
  BY <1>2, <1>3, PutDoes
<1>10. e.sync = "frame" /\ e.sm = c.sm /\ e.load = c.load
  BY <1>2, <1>3, <1>9 DEF Only, Fields
<1> QED BY <1>6, <1>8, <1>10 DEF e

LEMMA FramesKeepFlow ==
  ASSUME Base, FlowOK, OwnFrame \/ \E same \in BOOLEAN : OtherFrame(same)
  PROVE  FlowOK'
<1>1. Driver(cd) /\ foreign \in Nat
  BY DEF Base, DriverInv, QueueInv, Counted
<1>2. CASE OwnFrame
  <2>1. PICK c : Only(cd, c, {"sm"}) /\ c.sm = "sending" /\ cd' = Begun(c)
    BY <1>1, <1>2, OwnFrameDoes
  <2>2. bus = Free /\ cd.sm = "send" /\ Begin(TRUE, cd.load, FALSE) /\ foreign' = foreign
    BY <1>2 DEF OwnFrame, counters
  <2>3. /\ bus'.at = "header" /\ bus'.own /\ bus'.n = cd.load /\ ~bus'.same
    BY <2>2, BeginOK
  <2>4. Passed = foreign /\ Passed' = foreign /\ foreign \in Int /\ HeaderOut' /\ foreign <= foreign
    BY <1>1, <2>2, <2>3, FreeAt DEF Passed, HeaderOut
  <2>5. c.load = cd.load
    BY <2>1 DEF Only, Fields
  <2> DEFINE e == Begun(c)
  <2>6. /\ FlowInv(e, Pipe(e), 0, foreign, TRUE) /\ HeldBack(e, "header") /\ Signals(e)
        /\ e.sync = "frame" /\ e.sm = c.sm /\ e.load = c.load
    BY <2>1, <2>2, <2>4, BegunFlows
  <2> HIDE DEF e
  <2>7. cd' = e
    BY <2>1 DEF e
  <2>8. FlowInv(e, Pipe(e), 0, Passed', HeaderOut')
    <3>1. HeaderOut' = TRUE
      BY <2>3 DEF HeaderOut
    <3> QED BY <2>4, <2>6, <3>1
  <2>9. OnTheBus'
    BY <2>3, <2>5, <2>6, <2>7 DEF OnTheBus
  <2> QED BY <2>3, <2>6, <2>7, <2>8, <2>9 DEF FlowOK, Pipe, HeldBack, Signals, Still
<1>3. ASSUME NEW same \in BOOLEAN, OtherFrame(same) PROVE FlowOK'
  <2>1. PICK c : /\ Only(cd, c, {"sm"}) /\ cd' = Begun(c)
                 /\ c.sm = cd.sm \/ c.sm = "conflict"
    BY <1>1, <1>3, OtherFrameDoes
  <2>2. bus = Free /\ Begin(FALSE, foreign + 1, same) /\ foreign' = foreign + 1
    BY <1>3 DEF OtherFrame
  <2>3. /\ bus'.at = "header" /\ ~bus'.own /\ bus'.n = foreign + 1
    BY <1>1, <2>2, BeginOK
  <2>4. Passed = foreign /\ Passed' = foreign /\ foreign \in Int /\ HeaderOut' = FALSE
        /\ foreign <= foreign
    BY <1>1, <2>2, <2>3, FreeAt DEF Passed, HeaderOut
  <2> DEFINE e == Begun(c)
  <2>5. c.sm = "send" \/ (c.sm = "sending" /\ FALSE) => cd.sm = "send"
    BY <2>1
  <2>6. /\ FlowInv(e, Pipe(e), 0, foreign, FALSE) /\ HeldBack(e, "header") /\ Signals(e)
        /\ e.sync = "frame" /\ e.sm = c.sm /\ e.load = c.load
    BY <2>1, <2>2, <2>4, <2>5, BegunFlows
  <2> HIDE DEF e
  <2>7. cd' = e
    BY <2>1 DEF e
  <2>8. FlowInv(e, Pipe(e), 0, Passed', HeaderOut')
    BY <2>4, <2>6
  <2>9. OnTheBus'
    BY <2>2, <2>3 DEF OnTheBus
  <2> QED BY <2>3, <2>6, <2>7, <2>8, <2>9 DEF FlowOK, Pipe, HeldBack, Signals, Still
<1> QED BY <1>2, <1>3

LEMMA LineKeepsFlow ==
  ASSUME Base, FlowOK, LineStep PROVE FlowOK'
<1>1. Driver(cd) /\ Machine(cd) /\ Passed \in Int /\ cd.held \in Nat
  BY PassedInt DEF Base, DriverInv, QueueInv, Machine
<1>2. bus' = bus /\ foreign' = foreign /\ Passed' = Passed /\ HeaderOut' = HeaderOut
  BY DEF LineStep, Idle, Overrun, CounterOverflow, QuietBits, Untouched, counters, Passed, HeaderOut
<1>3. /\ FlowInv(cd, Pipe(cd), 0, Passed, HeaderOut) /\ HeldBack(cd, bus.at) /\ Signals(cd)
  BY DEF FlowOK
<1>4. ASSUME NEW e, cd' = e, FlowInv(e, Pipe(e), 0, Passed, HeaderOut), HeldBack(e, bus.at),
             Signals(e), e.sm = cd.sm, e.load = cd.load, e.sync \in Still => bus = Free
      PROVE  FlowOK'
  <2>1. OnTheBus'
    BY <1>2, <1>4 DEF FlowOK, OnTheBus
  <2>2. FlowInv(cd', Pipe(e), 0, Passed', HeaderOut')
    BY <1>2, <1>4
  <2> QED BY <1>2, <1>4, <2>1, <2>2 DEF FlowOK, Pipe, HeldBack, Signals
<1>5. CASE Idle
  <2>1. PICK i : /\ Only(cd, i, {"sync", "irq"}) /\ i.sync = "idle"
                 /\ i.irq = cd.irq \cup {"MAYTX"}
                 /\ \/ cd.sync # "lost" /\ cd' = i
                    \/ cd.sync = "lost" /\ cd' = Put(i, Passive(10), i.held + 10)
    BY <1>1, <1>5, IdleDoes
  <2>2. bus = Free /\ bus.at \notin {"check", "delimiter"}
    BY <1>5, FreeAt DEF Idle
  <2>3. /\ i.sm = cd.sm /\ i.held = cd.held /\ i.rx = cd.rx /\ i.isr = cd.isr
        /\ i.head = cd.head /\ i.tail = cd.tail /\ i.load = cd.load /\ i.stall = cd.stall
        /\ Driver(i)
    BY <2>1 DEF Only, Fields
  <2>4. Machine(i) /\ i.held + 10 \in Nat /\ i.held + 10 >= 1 /\ Passed <= Passed
    BY <1>1, <2>3 DEF Machine
  <2>5. Signals(i) /\ HeldBack(i, bus.at)
    BY <1>3, <2>1, <2>3 DEF Signals, HeldBack, Still
  <2>6. Pipe(i) = Pipe(cd)
    BY <2>3 DEF Pipe
  <2>7. CASE cd' = i
    <3>1. FlowInv(i, Pipe(i), 0, Passed, HeaderOut)
      BY <1>1, <1>3, <2>1, <2>3, <2>4, <2>6, FlowKept
    <3> QED BY <1>4, <2>2, <2>3, <2>5, <2>7, <3>1
  <2>8. CASE cd' = Put(i, Passive(10), i.held + 10)
    <3> DEFINE e == Put(i, Passive(10), i.held + 10)
    <3>1. FlowInv(e, Pipe(e), 0, Passed, HeaderOut)
      BY <1>1, <1>3, <2>1, <2>3, <2>4, PutFlows, FieldKinds
    <3>2. HeldBack(e, bus.at) /\ Signals(e)
      BY <2>2, <2>3, <2>4, <2>5, PutHolds, FieldKinds
    <3>3. Only(i, e, {"isr", "held", "rx"})
      BY <2>3, PutDoes
    <3> HIDE DEF e
    <3>4. e.sm = i.sm /\ e.load = i.load
      BY <3>3 DEF Only, Fields
    <3>5. cd' = e
      BY <2>8 DEF e
    <3> QED BY <1>4, <2>2, <2>3, <3>1, <3>2, <3>4, <3>5
  <2> QED BY <2>1, <2>7, <2>8
<1>6. CASE Overrun
  <2>1. /\ Only(cd, cd', {"stall", "isr"}) /\ cd'.stall = TRUE /\ cd'.isr = <<>>
        /\ ~cd.stall /\ cd.rx # <<>>
    BY <1>1, <1>6, OverrunDoes
  <2>2. PICK e : cd' = e
    OBVIOUS
  <2>3. /\ Only(cd, e, {"stall", "isr"}) /\ e.stall = TRUE /\ e.isr = <<>> /\ e.rx = cd.rx
        /\ e.sm = cd.sm /\ e.load = cd.load /\ e.sync = cd.sync /\ e.irq = cd.irq
    BY <2>1, <2>2 DEF Only, Fields
  <2> DEFINE a == cd.rx
             b == cd.isr
             m == Passed
  <2>4. IsASequence(a) /\ IsASequence(b) /\ FlowInv(cd, a \o b, 0, m, HeaderOut) /\ m \in Int
    BY <1>1, <1>3 DEF Machine, Pipe
  <2> HIDE DEF a, b, m
  <2>5. FlowInv(e, a, 0, m, HeaderOut)
    BY <2>1, <2>3, <2>4, Shorter
  <2>6. a \o <<>> = a
    BY <2>4, PipeOf
  <2>7. FlowInv(e, Pipe(e), 0, Passed, HeaderOut)
    BY <2>3, <2>5, <2>6 DEF Pipe, a, m
  <2>8. \A i \in 1 .. Len(<<>>) : FALSE
    OBVIOUS
  <2>9. HeldBack(e, bus.at) /\ Signals(e)
    BY <1>3, <2>1, <2>3, <2>8 DEF HeldBack, Signals
  <2>10. e.sync \in Still => bus = Free
    BY <2>3 DEF FlowOK
  <2> QED BY <1>4, <2>2, <2>3, <2>7, <2>9, <2>10
<1>7. ASSUME NEW i, NEW f, NEW total \in Nat, NEW S, Only(cd, i, S), S \subseteq {"sync"},
             f.is # "header", total >= 1, cd' = Put(i, f, total), bus = Free,
             i.sync \in Still, cd.sync \in Still
      PROVE  FlowOK'
  <2> DEFINE e == Put(i, f, total)
  <2>1. /\ i.sm = cd.sm /\ i.held = cd.held /\ i.rx = cd.rx /\ i.isr = cd.isr
        /\ i.head = cd.head /\ i.tail = cd.tail /\ i.load = cd.load /\ i.stall = cd.stall
        /\ i.irq = cd.irq /\ Driver(i)
    BY <1>7 DEF Only, Fields
  <2>2. Machine(i) /\ Passed <= Passed /\ bus.at \notin {"check", "delimiter"}
    BY <1>1, <1>7, <2>1, FreeAt DEF Machine
  <2>3. Signals(i) /\ HeldBack(i, bus.at)
    BY <1>3, <1>7, <2>1 DEF Signals, HeldBack, Still
  <2>4. FlowInv(e, Pipe(e), 0, Passed, HeaderOut)
    BY <1>1, <1>3, <1>7, <2>1, <2>2, PutFlows
  <2>5. HeldBack(e, bus.at) /\ Signals(e)
    BY <1>7, <2>1, <2>2, <2>3, PutHolds
  <2>6. Only(i, e, {"isr", "held", "rx"})
    BY <2>1, PutDoes
  <2> HIDE DEF e
  <2>7. e.sm = i.sm /\ e.load = i.load /\ cd' = e
    BY <1>7, <2>6 DEF Only, Fields, e
  <2> QED BY <1>4, <1>7, <2>1, <2>4, <2>5, <2>7
<1>8. CASE CounterOverflow
  <2>1. PICK i : /\ Only(cd, i, {"sync"}) /\ i.sync = "quiet"
                 /\ cd' = Put(i, Passive(10), 10) /\ cd.sync = "idle" /\ bus = Free
    BY <1>1, <1>8, CounterOverflowDoes
  <2>2. 10 \in Nat /\ 10 >= 1 /\ Passive(10).is # "header"
    BY FieldKinds
  <2> QED BY <1>7, <2>1, <2>2 DEF Still
<1>9. CASE QuietBits
  <2>1. PICK r \in 1 .. 10 : cd' = Put(cd, Quiet, r)
    BY <1>9, QuietBitsDoes
  <2>2. r \in Nat /\ r >= 1 /\ Quiet.is # "header" /\ Only(cd, cd, {}) /\ {} \subseteq {"sync"}
    BY <1>1, FieldKinds, SameDriver
  <2>3. bus = Free /\ cd.sync = "quiet"
    BY <1>9, QuietBitsDoes
  <2> QED BY <1>7, <2>1, <2>2, <2>3 DEF Still
<1> QED BY <1>5, <1>6, <1>8, <1>9 DEF LineStep

(* A header is received.                                                   *)
LEMMA PutHeader ==
  ASSUME NEW d, Driver(d), Machine(d), Signals(d), NEW f, NEW total, total \in Nat, total >= 10
  PROVE  LET e == Put(d, f, total)
         IN /\ Only(d, e, {"isr", "held", "rx"}) /\ Signals(e)
            /\ \A i \in 1 .. Len(e.isr) : e.isr[i].is = "header" => i = 1 \/ e = d
            /\ Pipe(e) = Pipe(d) \/ Pipe(e) = Append(Pipe(d), f)
            /\ HeldBack(e, "check") \/ e = d
<1> DEFINE e == Put(d, f, total)
<1>1. /\ Only(d, e, {"isr", "held", "rx"})
      /\ \/ /\ d.sync = "lost" \/ (d.stall /\ d.rx # <<>>)
            /\ e = d
         \/ /\ ~(d.sync = "lost" \/ (d.stall /\ d.rx # <<>>))
            /\ \/ total < 10 /\ e.rx = d.rx /\ e.isr = Append(d.isr, f) /\ e.held = total
               \/ /\ ~(total < 10) /\ total % 10 = 0
                  /\ e.rx = Append(d.rx \o d.isr, f) /\ e.isr = <<>> /\ e.held = 0
               \/ /\ ~(total < 10) /\ total % 10 # 0
                  /\ e.rx = d.rx \o d.isr /\ e.isr = <<f>> /\ e.held = total % 10
  BY PutDoes, Zenon
<1>2. Pipe(e) = Pipe(d) \/ Pipe(e) = Append(Pipe(d), f)
  BY PutPipe
<1> HIDE DEF e
<1>3. e.sync = d.sync /\ e.irq = d.irq
  BY <1>1 DEF Only, Fields
<1>4. Signals(e)
  BY <1>1, <1>3 DEF Signals
<1>5. e = d \/ e.isr = <<>> \/ e.isr = <<f>>
  <2>1. ~(total < 10)
    OBVIOUS
  <2> QED BY <1>1, <2>1, Zenon
<1>6. (\A i \in 1 .. Len(<<>>) : i = 1) /\ (\A i \in 1 .. Len(<<f>>) : i = 1)
  OBVIOUS
<1>7. e = d \/ \A i \in 1 .. Len(e.isr) : i = 1
  BY <1>5, <1>6
<1>9. e = d \/ e.isr = <<>> \/ e.held >= 1
  <2>1. ~(total < 10) /\ total % 10 \in Nat
    OBVIOUS
  <2>2. total % 10 # 0 => total % 10 >= 1
    BY <2>1
  <2> QED BY <1>1, <2>1, <2>2
<1>10. \A i \in 1 .. Len(<<>>) : FALSE
  OBVIOUS
<1>8. HeldBack(e, "check") \/ e = d
  BY <1>7, <1>9, <1>10 DEF HeldBack
<1> QED BY <1>1, <1>2, <1>4, <1>7, <1>8 DEF e

LEMMA HeaderKeepsFlow ==
  ASSUME Base, FlowOK, Field, SendHeader PROVE FlowOK'
<1>1. Driver(cd) /\ Machine(cd) /\ Passed \in Int /\ BusOK /\ foreign \in Nat
  BY PassedInt DEF Base, DriverInv, QueueInv, Counted
<1>2. /\ \E r \in 0 .. 9 : cd' = Put(cd, Header(bus), 20 + r)
      /\ Going /\ bus'.at = "check" /\ bus # Free /\ bus.at = "header" /\ Driven
  BY <1>1, HeaderDoes
<1>3. PICK r \in 0 .. 9 : cd' = Put(cd, Header(bus), 20 + r)
  BY <1>2
<1>4. 20 + r \in Nat /\ 20 + r >= 10
  OBVIOUS
<1> DEFINE x == Header(bus)
           t == 20 + r
           e == Put(cd, x, t)
           p == Pipe(cd)
<1>5. foreign' = foreign
  BY FieldCounts DEF Base
<1>6. Passed' = foreign /\ HeaderOut' = FALSE
  BY <1>2, <1>5 DEF Passed, HeaderOut
<1>7. /\ FlowInv(cd, p, 0, Passed, HeaderOut) /\ HeldBack(cd, "header") /\ Signals(cd)
      /\ cd.sync \notin Still
  BY <1>2 DEF FlowOK
<1>8. x.is = "header" /\ x.frame = [own |-> bus.own, n |-> bus.n, same |-> bus.same]
  BY DEF Header, Name
<1> HIDE DEF x, t
<1>9. t \in Nat /\ t >= 10
  BY <1>4 DEF t
<1>10. /\ Only(cd, e, {"isr", "held", "rx"}) /\ Signals(e)
       /\ Pipe(e) = p \/ Pipe(e) = Append(p, x)
       /\ HeldBack(e, "check") \/ e = cd
  BY <1>1, <1>7, <1>9, PutHeader
<1>11. IsASequence(p)
  <2> DEFINE a == cd.rx
             b == cd.isr
  <2>1. IsASequence(a) /\ IsASequence(b)
    BY <1>1 DEF Machine
  <2> HIDE DEF a, b
  <2>2. IsASequence(a \o b)
    BY <2>1, Joined
  <2> QED BY <2>2 DEF Pipe, a, b
<1> HIDE DEF e, p
<1>12. cd' = e
  BY <1>3 DEF e, x, t
<1>13. e.sync = cd.sync /\ e.sm = cd.sm /\ e.load = cd.load
  BY <1>10 DEF Only, Fields
<1>14. HeldBack(e, "check")
  BY <1>7, <1>10 DEF HeldBack
<1>15. FlowInv(cd, p, 0, foreign, FALSE) /\ FlowInv(cd, Append(p, x), 0, foreign, FALSE)
  <2>1. CASE bus.own
    <3>1. HeaderOut /\ Passed = foreign /\ cd.sm = "sending" /\ bus.n = cd.load /\ ~bus.same
      BY <1>2, <2>1 DEF HeaderOut, Passed, Driven, FlowOK, OnTheBus
    <3>2. FlowInv(cd, p, 0, foreign, TRUE)
      <4>1. HeaderOut = TRUE
        BY <1>2, <2>1 DEF HeaderOut
      <4> QED BY <1>7, <3>1, <4>1
    <3>3. x.frame.own /\ x.frame.n = cd.load /\ ~x.frame.same
      BY <1>8, <2>1, <3>1
    <3>4. FlowInv(cd, Append(p, x), 0, foreign, FALSE)
      BY <1>8, <1>11, <3>1, <3>2, <3>3, OwnHeader
    <3>5. Only(cd, cd, {}) /\ foreign \in Int /\ foreign <= foreign
      BY <1>1 DEF Only
    <3>6. FlowInv(cd, p, 0, foreign, FALSE)
      BY <3>1, <3>2, <3>5, FlowKept
    <3> QED BY <3>4, <3>6
  <2>2. CASE ~bus.own
    <3>1. HeaderOut = FALSE /\ Passed = foreign - 1 /\ bus.n = foreign
      BY <1>2, <2>2 DEF HeaderOut, Passed, FlowOK, OnTheBus
    <3>2. FlowInv(cd, p, 0, foreign - 1, FALSE)
      BY <1>7, <3>1
    <3>3. /\ ~x.frame.own /\ x.frame.n = foreign /\ x.frame \in Foreign
      BY <1>1, <1>2, <1>8, <2>2, <3>1 DEF BusOK, Foreign, Frame
    <3>4. foreign - 1 \in Int /\ foreign \in Int /\ foreign - 1 < foreign /\ foreign <= foreign
          /\ foreign - 1 <= foreign
      BY <1>1
    <3>5. FlowInv(cd, Append(p, x), 0, foreign, FALSE)
      BY <1>8, <1>11, <3>2, <3>3, <3>4, OtherHeader
    <3>6. Only(cd, cd, {})
      BY <1>1 DEF Only
    <3>7. FlowInv(cd, p, 0, foreign, FALSE)
      BY <3>2, <3>4, <3>6, FlowKept
    <3> QED BY <3>5, <3>7
  <2> QED BY <2>1, <2>2
<1>16. FlowInv(e, Pipe(e), 0, foreign, FALSE)
  <2>1. foreign \in Int /\ foreign <= foreign
    BY <1>1
  <2>2. PICK h : h = FALSE
    OBVIOUS
  <2>3. FlowInv(cd, p, 0, foreign, h) /\ FlowInv(cd, Append(p, x), 0, foreign, h)
    BY <1>15, <2>2
  <2>4. FlowInv(e, p, 0, foreign, h)
    BY <1>10, <1>13, <2>1, <2>3, FlowKept
  <2>5. FlowInv(e, Append(p, x), 0, foreign, h)
    BY <1>10, <1>13, <2>1, <2>3, FlowKept
  <2> QED BY <1>10, <2>2, <2>4, <2>5
<1>17. FlowInv(e, Pipe(e), 0, Passed', HeaderOut')
  BY <1>6, <1>16
<1> QED BY <1>2, <1>7, <1>10, <1>12, <1>13, <1>14, <1>17 DEF FlowOK, OnTheBus, HeldBack, Signals, Pipe

LEMMA FieldKeepsFlow ==
  ASSUME Base, FlowOK, Field PROVE FlowOK'
<1>1. Driver(cd) /\ Machine(cd) /\ Passed \in Int /\ BusOK /\ foreign \in Nat /\ cd.held \in Nat
  BY PassedInt DEF Base, DriverInv, QueueInv, Counted, Machine
<1>2. CASE SendHeader
  BY <1>2, HeaderKeepsFlow
<1>3. CASE PlainField
  <2>1. PICK c, f, total : /\ Passing(c, f, total) /\ Going /\ f.is # "header" /\ total \in Nat
                           /\ total >= 1
                           /\ cd.held >= 1 /\ bus.at \in {"check", "delimiter"}
                                => total >= 10 \/ bus'.at \in {"check", "delimiter"}
    BY <1>1, <1>3 DEF PlainField
  <2>2. /\ Only(cd, c, {"sm", "irq"}) /\ cd' = Put(c, f, total)
        /\ c.irq \subseteq cd.irq \cup {"MATCHED", "ACKDONE"}
        /\ c.sm = cd.sm \/ c.sm \in {"sent", "acking", "acked", "conflict"}
    BY <2>1 DEF Passing
  <2>3. bus # Free
    BY FreeAt DEF Field, SendHeader, SendCheck, SendCrc, SendAck, SendEof0, SendBit5, SendBit7, SendPause,
                  Disturb, SendFlag, SendDelimiter
  <2>4. foreign' = foreign /\ bus'.at # "header"
    BY <2>1, FieldCounts, FreeAt DEF Base, Going
  <2>5. Passed' = foreign /\ HeaderOut' = FALSE /\ Passed <= foreign /\ foreign \in Int
    BY <1>1, <2>4 DEF Passed, HeaderOut
  <2>6. /\ FlowInv(cd, Pipe(cd), 0, Passed, HeaderOut) /\ HeldBack(cd, bus.at) /\ Signals(cd)
        /\ cd.sync \notin Still
    BY <2>3 DEF FlowOK
  <2>7. /\ c.held = cd.held /\ c.rx = cd.rx /\ c.isr = cd.isr /\ c.head = cd.head /\ c.tail = cd.tail
        /\ c.sync = cd.sync /\ c.stall = cd.stall /\ Driver(c)
    BY <2>2 DEF Only, Fields
  <2>8. Machine(c) /\ HeldBack(c, bus.at) /\ Signals(c)
    BY <1>1, <2>2, <2>6, <2>7 DEF Machine, HeldBack, Signals
  <2>9. PICK h : h = FALSE
    OBVIOUS
  <2> DEFINE e == Put(c, f, total)
  <2>10. FlowInv(e, Pipe(e), 0, foreign, FALSE)
    <3>1. c.sm = "send" \/ (c.sm = "sending" /\ h) => cd.sm = "send" \/ (cd.sm = "sending" /\ HeaderOut)
      BY <2>2, <2>9
    <3>2. FlowInv(e, Pipe(e), 0, foreign, h)
      BY <1>1, <2>1, <2>2, <2>5, <2>6, <3>1, PutFlows
    <3> QED BY <2>9, <3>2
  <2>11. HeldBack(e, bus'.at) /\ Signals(e)
    <3>1. PICK at2 : at2 = bus'.at
      OBVIOUS
    <3>2. HeldBack(e, at2) /\ Signals(e)
      BY <2>1, <2>7, <2>8, <3>1, PutHolds
    <3> QED BY <3>1, <3>2
  <2>12. Only(c, e, {"isr", "held", "rx"})
    BY <2>7, PutDoes
  <2> HIDE DEF e
  <2>13. e.sync = c.sync
    BY <2>12 DEF Only, Fields
  <2>14. cd' = e
    BY <2>2 DEF e
  <2>15. FlowInv(e, Pipe(e), 0, Passed', HeaderOut')
    BY <2>5, <2>10
  <2> QED BY <2>4, <2>6, <2>7, <2>11, <2>13, <2>14, <2>15
          DEF FlowOK, OnTheBus, HeldBack, Signals, Pipe
<1> QED BY <1>1, <1>2, <1>3, FieldIs

(* What the parser waits for is dropped.                                   *)
LEMMA Drained ==
  ASSUME NEW d, NEW e, NEW p, NEW k, NEW m \in Int, NEW h, FlowInv(d, p, k, m, h),
         e.heard = d.heard, Receiving(e) => Receiving(d) /\ e.msg = d.msg,
         e.sm \notin {"send", "sending"}
  PROVE  FlowInv(e, <<>>, 0, m, h)
<1>1. \A i \in 0 + 1 .. Len(<<>>) : FALSE
  OBVIOUS
<1>2. HeardInOrder(e, m) /\ Arriving(e, <<>>, 0, m)
  BY <1>1 DEF FlowInv, HeardInOrder, Arriving
<1> QED BY <1>1, <1>2 DEF FlowInv, Coming, Recognised, Loaded

(* A driver that was set up anew.                                          *)
LEMMA FreshFlow ==
  ASSUME NEW e, HeardInOrder(e, Passed), e.rx = <<>>, e.isr = <<>>, e.sync = "lost",
         FlowInv(e, <<>>, 0, Passed, HeaderOut), "MAYTX" \notin e.irq,
         e.sm \notin {"send", "sending"},
         cd' = e, bus' = bus, foreign' = foreign, OnTheBus
  PROVE  FlowOK'
<1>1. Pipe(e) = <<>>
  <2>1. IsASequence(<<>>)
    <3>1. <<>> \in Seq({})
      OBVIOUS
    <3> QED BY <3>1 DEF IsASequence
  <2>2. <<>> \o <<>> = <<>>
    BY <2>1, PipeOf
  <2> QED BY <2>2 DEF Pipe
<1>2. Passed' = Passed /\ HeaderOut' = HeaderOut
  BY DEF Passed, HeaderOut
<1>3. \A i \in 1 .. Len(<<>>) : FALSE
  OBVIOUS
<1>4. HeldBack(e, bus'.at) /\ Signals(e)
  BY <1>3 DEF HeldBack, Signals
<1>5. FlowInv(e, Pipe(e), 0, Passed', HeaderOut')
  BY <1>1, <1>2
<1>6. OnTheBus'
  BY DEF OnTheBus
<1> QED BY <1>4, <1>5, <1>6 DEF FlowOK, Pipe, HeldBack, Signals, Still

LEMMA EnqueueKeepsFlow ==
  ASSUME Base, FlowOK, Enqueue PROVE FlowOK'
<1>1. /\ Driver(cd) /\ (cd.tx = "QUEUED" => cd.queue # <<>>) /\ cd.queue \in Seq(1 .. sent)
      /\ Passed \in Int
  BY PassedInt DEF Base, DriverInv, QueueInv, Ordered
<1>2. Only(cd, cd', {"queue"}) /\ cd'.queue = Append(cd.queue, sent + 1)
  BY <1>1, EnqueueDoes
<1>3. bus' = bus /\ foreign' = foreign /\ Passed' = Passed /\ HeaderOut' = HeaderOut
  BY DEF Enqueue, Passed, HeaderOut
<1>4. PICK e : cd' = e
  OBVIOUS
<1>5. /\ e.heard = cd.heard /\ e.report = cd.report /\ e.msg = cd.msg /\ e.stall = cd.stall
      /\ e.parse = cd.parse /\ e.tx = cd.tx /\ e.load = cd.load /\ e.sm = cd.sm
      /\ e.rx = cd.rx /\ e.isr = cd.isr /\ e.sync = cd.sync /\ e.irq = cd.irq
      /\ e.held = cd.held
  BY <1>2, <1>4 DEF Only, Fields
<1>6. cd.tx = "QUEUED" => e.queue # <<>> /\ Head(e.queue) = Head(cd.queue)
  <2>1. ASSUME NEW S, NEW q \in Seq(S), q # <<>>, NEW x
        PROVE  Append(q, x) # <<>> /\ Head(Append(q, x)) = Head(q)
    <3>1. q \in Seq(S \cup {x})
      OBVIOUS
    <3> QED BY <2>1, <3>1
  <2> QED BY <1>1, <1>2, <1>4, <2>1
<1> DEFINE p == Pipe(cd)
           m == Passed
           h == HeaderOut
<1>7. FlowInv(cd, p, 0, m, h)
  BY DEF FlowOK
<1> HIDE DEF p, m, h
<1>8. HeardInOrder(e, m) /\ Coming(e, p, 0, m) /\ Arriving(e, p, 0, m)
  BY <1>5, <1>7 DEF FlowInv, HeardInOrder, Coming, Arriving, Receiving
<1>9. Dazed(e) <=> Dazed(cd)
  BY <1>5 DEF Dazed
<1>10. \A i : Live(e, p, 0, i) <=> Live(cd, p, 0, i)
  BY <1>5, <1>9 DEF Live
<1>11. Recognised(e, p, 0)
  BY <1>5, <1>6, <1>7, <1>10 DEF FlowInv, Recognised
<1>12. Loaded(e, p, 0, h)
  BY <1>5, <1>6, <1>7, <1>9, <1>10 DEF FlowInv, Loaded
<1>13. FlowInv(e, p, 0, m, h)
  BY <1>8, <1>11, <1>12 DEF FlowInv
<1>14. FlowInv(e, Pipe(e), 0, Passed', HeaderOut')
  BY <1>3, <1>5, <1>13 DEF Pipe, p, m, h
<1> QED BY <1>3, <1>4, <1>5, <1>14 DEF FlowOK, OnTheBus, HeldBack, Signals, Pipe

LEMMA CallsKeepFlow ==
  ASSUME Base, FlowOK, WakeUp \/ Fetch \/ Release PROVE FlowOK'
<1>1. Driver(cd) /\ Passed \in Int /\ Passed <= Passed
  BY PassedInt DEF Base, DriverInv, QueueInv
<1>2. bus' = bus /\ foreign' = foreign /\ Passed' = Passed /\ HeaderOut' = HeaderOut
  BY DEF WakeUp, Fetch, Release, counters, Passed, HeaderOut
<1>3. PICK e : cd' = e
  OBVIOUS
<1>4. /\ Only(cd, e, {"irq", "tail"})
      /\ e.irq = cd.irq \/ e.irq = cd.irq \cup {"TXPENDING"}
  <2>1. CASE WakeUp
    BY <1>1, <1>3, <2>1, WakeUpDoes DEF Only
  <2>2. CASE Fetch
    BY <1>1, <1>3, <2>2 DEF Fetch, Only
  <2>3. CASE Release
    BY <1>1, <1>3, <2>3, ReleaseDoes DEF Only, Fields
  <2> QED BY <2>1, <2>2, <2>3
<1>5. /\ e.sm = cd.sm /\ e.load = cd.load /\ e.rx = cd.rx /\ e.isr = cd.isr /\ e.sync = cd.sync
      /\ e.stall = cd.stall /\ e.held = cd.held
  BY <1>4 DEF Only, Fields
<1>6. FlowInv(e, Pipe(cd), 0, Passed, HeaderOut)
  BY <1>1, <1>4, <1>5, FlowKept DEF FlowOK
<1>7. FlowInv(e, Pipe(e), 0, Passed', HeaderOut')
  BY <1>2, <1>5, <1>6 DEF Pipe
<1> QED BY <1>2, <1>3, <1>4, <1>5, <1>7 DEF FlowOK, OnTheBus, HeldBack, Signals, Pipe

LEMMA RestartsKeepFlow ==
  ASSUME Base, FlowOK, ClearTx \/ Deinit \/ CanInit PROVE FlowOK'
<1>1. Driver(cd) /\ Passed \in Int /\ bus' = bus /\ foreign' = foreign /\ OnTheBus
      /\ FlowInv(cd, Pipe(cd), 0, Passed, HeaderOut)
  BY PassedInt DEF Base, DriverInv, QueueInv, ClearTx, Deinit, CanInit, Untouched, counters, FlowOK
<1>2. ASSUME NEW d, Driver(d), d.heard = cd.heard, cd' = Start(d) PROVE FlowOK'
  <2> DEFINE e == Start(d)
  <2>1. Only(d, e, Begun0) /\ Started(e)
    BY <1>2, StartDoes
  <2>2. cd' = e
    BY <1>2
  <2> HIDE DEF e
  <2>3. e.heard = cd.heard /\ ~Receiving(e) /\ e.sm \notin {"send", "sending"}
    BY <1>2, <2>1 DEF Only, Fields, Begun0, Started, Receiving
  <2>4. FlowInv(e, <<>>, 0, Passed, HeaderOut)
    BY <1>1, <2>3, Drained
  <2>5. "MAYTX" \notin e.irq /\ e.rx = <<>> /\ e.isr = <<>> /\ e.sync = "lost"
    BY <2>1 DEF Started
  <2> QED BY <1>1, <2>2, <2>3, <2>4, <2>5, FreshFlow DEF FlowInv
<1> DEFINE s == Stop(cd)
<1>3. /\ Only(cd, s, {"irq", "stall", "key", "sync", "isr", "rx", "sm", "on", "inte"})
      /\ s.irq = {"TXPENDING"} /\ s.sync = "lost" /\ s.isr = <<>> /\ s.rx = <<>>
      /\ s.sm \in {"stuck", "conflict", "off"}
  BY <1>1, StopDoes
<1> HIDE DEF s
<1>4. s.heard = cd.heard /\ s.report = cd.report /\ s.msg = cd.msg /\ Driver(s)
  BY <1>3 DEF Only, Fields
<1>5. CASE ClearTx
  <2>1. cd' = Start(s)
    BY <1>5 DEF ClearTx, s
  <2> QED BY <1>2, <1>4, <2>1
<1>6. CASE Deinit
  <2>1. cd' = s
    BY <1>6 DEF Deinit, s
  <2>2. FlowInv(s, <<>>, 0, Passed, HeaderOut)
    BY <1>1, <1>3, <1>4, Drained DEF Receiving
  <2> QED BY <1>1, <1>3, <2>1, <2>2, FreshFlow DEF FlowInv
<1>7. CASE CanInit
  <2> DEFINE z == [cd EXCEPT !.head = 0, !.tail = 0, !.rxLost = FALSE, !.bufferLost = FALSE]
  <2>1. cd' = Start(z)
    BY <1>7 DEF CanInit
  <2>2. Driver(z) /\ z.heard = cd.heard
    BY <1>1 DEF Driver, Fields
  <2> HIDE DEF z
  <2> QED BY <1>2, <2>1, <2>2
<1> QED BY <1>5, <1>6, <1>7

LEMMA InitFlow ==
  ASSUME Init PROVE FlowOK
<1> DEFINE e == Start(Zeroed)
<1>1. Only(Zeroed, e, Begun0) /\ Started(e)
  BY ZeroedDoes, StartDoes
<1>2. cd = e /\ bus.at = "free" /\ foreign = 0
  BY FreeAt DEF Init
<1> HIDE DEF e
<1>3. e.heard = <<>>
  BY <1>1, ZeroedDoes DEF Only, Fields, Begun0
<1>4. Passed = 0 /\ HeaderOut = FALSE
  BY <1>2 DEF Passed, HeaderOut
<1>5. (\A i \in 1 .. Len(<<>>) : FALSE) /\ (\A i \in 0 + 1 .. Len(<<>>) : FALSE)
      /\ <<>> \in Seq(Foreign)
  OBVIOUS
<1>6. HeardInOrder(e, 0)
  BY <1>3, <1>5 DEF HeardInOrder
<1>7. FlowInv(e, <<>>, 0, 0, FALSE)
  BY <1>1, <1>5, <1>6 DEF FlowInv, Coming, Arriving, Recognised, Loaded, Started, Receiving
<1>8. Pipe(e) = <<>>
  <2>1. IsASequence(<<>>)
    BY <1>5 DEF IsASequence
  <2>2. <<>> \o <<>> = <<>>
    BY <2>1, PipeOf
  <2> QED BY <1>1, <2>2 DEF Pipe, Started
<1>9. FlowInv(e, Pipe(e), 0, Passed, HeaderOut)
  BY <1>4, <1>7, <1>8
<1>10. HeldBack(e, "free") /\ Signals(e) /\ e.sync = "lost"
  BY <1>1, <1>5 DEF HeldBack, Signals, Started
<1> QED BY <1>2, <1>9, <1>10 DEF FlowOK, OnTheBus, Still

LEMMA NextKeepsFlow ==
  ASSUME Base, FlowOK, [Next]_vars PROVE FlowOK'
<1>1. CASE UNCHANGED vars
  BY <1>1 DEF vars, counters, history, FlowOK, OnTheBus, HeldBack, Signals, Pipe, Passed, HeaderOut
<1>2. CASE Irq
  BY <1>2, IrqKeepsFlow
<1>3. CASE OwnFrame \/ \E same \in BOOLEAN : OtherFrame(same)
  BY <1>3, FramesKeepFlow
<1>4. CASE LineStep
  BY <1>4, LineKeepsFlow
<1>5. CASE Field
  BY <1>5, FieldKeepsFlow
<1>6. CASE Enqueue
  BY <1>6, EnqueueKeepsFlow
<1>7. CASE WakeUp \/ Fetch \/ Release
  BY <1>7, CallsKeepFlow
<1>8. CASE ClearTx \/ Deinit \/ CanInit
  BY <1>8, RestartsKeepFlow
<1> QED BY <1>1, <1>2, <1>3, <1>4, <1>5, <1>6, <1>7, <1>8 DEF Next, LineStep

LEMMA AlwaysFlow == Spec => [](Base /\ FlowOK)
<1>1. Init => Base /\ FlowOK
  BY InitBase, InitFlow
<1>2. Base /\ FlowOK /\ [Next]_vars => (Base /\ FlowOK)'
  BY NextKeepsBase, NextKeepsFlow
<1> QED BY <1>1, <1>2, PTL DEF Spec

(* What can1_callback reports as received are frames of other boards, in   *)
(* the order in which these began them and each once: the parser never     *)
(* takes a frame of this board for another's, whatever bits are lost,      *)
(* however late the handler is and whenever the interface is restarted.    *)
(* This is ReceivedOnce but for the acknowledgement.                       *)
THEOREM HeardInSequence ==
  Spec => [](/\ ToSet(cd.heard) \subseteq { f \in Frame : ~f.own }
             /\ Increasing([i \in 1 .. Len(cd.heard) |-> cd.heard[i].n]))
<1>1. Base /\ FlowOK => /\ ToSet(cd.heard) \subseteq { f \in Frame : ~f.own }
                        /\ Increasing([i \in 1 .. Len(cd.heard) |-> cd.heard[i].n])
  <2> SUFFICES ASSUME HeardInOrder(cd, Passed)
               PROVE  /\ ToSet(cd.heard) \subseteq { f \in Frame : ~f.own }
                      /\ Increasing([i \in 1 .. Len(cd.heard) |-> cd.heard[i].n])
    BY DEF FlowOK, FlowInv
  <2> DEFINE l == Len(cd.heard)
             t == [i \in 1 .. l |-> cd.heard[i].n]
  <2>1. l \in Nat /\ cd.heard \in Seq(Foreign)
    BY DEF HeardInOrder
  <2>2. Len(t) = l /\ \A i \in 1 .. l : t[i] = cd.heard[i].n
    BY <2>1
  <2>3. \A i, j \in 1 .. l : i < j => cd.heard[i].n < cd.heard[j].n
    BY DEF HeardInOrder
  <2>4. ToSet(cd.heard) \subseteq Foreign
    BY <2>1, SetOf
  <2> HIDE DEF l, t
  <2>5. Increasing(t)
    BY <2>2, <2>3 DEF Increasing
  <2> QED BY <2>4, <2>5 DEF t, l, Foreign
<1> QED BY <1>1, AlwaysFlow, PTL

-----------------------------------------------------------------------------
(***************************************************************************)
(* Steps that keep the ring.                                               *)
(***************************************************************************)
RingOK == RingInv(cd, got, main = "release", restarts)

LEMMA RingUnchanged ==
  ASSUME RingOK, SameRing(cd, cd'), got' = got, main' = main, restarts' = restarts
  PROVE  RingOK'
<1>1. PICK g, b, r : g = got /\ b = (main = "release") /\ r = restarts /\ b \in BOOLEAN
  OBVIOUS
<1>2. RingInv(cd', g, b, r)
  BY <1>1 DEF RingOK, SameRing
<1>3. PICK e : e = cd'
  OBVIOUS
<1>4. RingInv(e, got', main' = "release", restarts')
  BY <1>1, <1>2, <1>3
<1> QED BY <1>3, <1>4 DEF RingOK

LEMMA OnlySame ==
  ASSUME NEW d, NEW e, NEW S, Only(d, e, S),
         S \cap {"heard", "bufferLost", "slots", "head", "tail", "on"} = {}
  PROVE  SameRing(d, e)
BY Unheard, RingUntouched

LEMMA BusKeepsRing ==
  ASSUME Base, FlowOK, RingOK,
         \/ Irq \/ LineStep \/ OwnFrame \/ Field
         \/ \E same \in BOOLEAN : OtherFrame(same)
  PROVE  RingOK'
<1>1. Driver(cd) /\ BusOK /\ Counted
  BY DEF Base, DriverInv, QueueInv
<1>2. ASSUME NEW c, NEW S, Only(cd, c, S), S \subseteq {"sm", "irq", "sync"}, NEW f, NEW total,
             cd' = Put(c, f, total), got' = got, main' = main, restarts' = restarts
      PROVE  RingOK'
  <2> DEFINE e == Put(c, f, total)
  <2>1. Driver(c)
    BY <1>2 DEF Only
  <2>2. Only(c, e, {"isr", "held", "rx"})
    BY <2>1, PutDoes
  <2>3. cd' = e
    BY <1>2
  <2> HIDE DEF e
  <2>4. Only(cd, e, {"sm", "irq", "sync", "isr", "held", "rx"})
    BY <1>2, <2>2 DEF Only
  <2>5. SameRing(cd, cd')
    BY <2>3, <2>4, OnlySame
  <2> QED BY <1>2, <2>5, RingUnchanged
<1>3. CASE Irq
  <2>1. got' = got /\ main' = main /\ restarts' = restarts
    BY <1>3, IrqIs DEF IrqRxData, IrqLine, Untouched, counters
  <2>2. SameRing(cd, cd')
    <3>1. CASE IrqRxData
      BY <3>1, LoopFlows
    <3>2. ASSUME NEW l \in Lines, IrqLine(l) PROVE SameRing(cd, cd')
      <4>1. Rings(cd, cd')
        BY <1>1, <3>2, HandledTells DEF IrqLine, Line1
      <4>2. PICK p, k, m : HeardInOrder(cd, m) /\ Arriving(cd, p, k, m)
        BY DEF FlowOK, FlowInv
      <4> QED BY <4>1, <4>2, RingsSame
    <3> QED BY <1>3, <3>1, <3>2, IrqIs
  <2> QED BY <2>1, <2>2, RingUnchanged
<1>4. CASE Overrun
  <2>1. Only(cd, cd', {"stall", "isr"})
    BY <1>1, <1>4, OverrunDoes
  <2>2. SameRing(cd, cd')
    BY <2>1, OnlySame
  <2> QED BY <1>4, <2>2, RingUnchanged DEF Overrun
<1>5. CASE Idle
  <2>1. PICK i : /\ Only(cd, i, {"sync", "irq"})
                 /\ \/ cd' = i
                    \/ cd' = Put(i, Passive(10), i.held + 10)
    BY <1>1, <1>5, IdleDoes
  <2>2. got' = got /\ main' = main /\ restarts' = restarts
    BY <1>5 DEF Idle, Untouched, counters
  <2>3. CASE cd' = i
    BY <2>1, <2>2, <2>3, OnlySame, RingUnchanged
  <2>4. CASE cd' = Put(i, Passive(10), i.held + 10)
    BY <1>2, <2>1, <2>2, <2>4
  <2> QED BY <2>1, <2>3, <2>4
<1>6. ASSUME NEW c, Only(cd, c, {"sm"}), cd' = Begun(c), got' = got, main' = main,
             restarts' = restarts
      PROVE  RingOK'
  <2>1. Driver(c)
    BY <1>6 DEF Only
  <2>2. PICK b : Only(c, b, {"sync", "irq"}) /\ cd' = Put(b, Sof, b.held + 1)
    BY <1>6, <2>1, BegunDoes
  <2>3. Only(cd, b, {"sm", "sync", "irq"})
    BY <1>6, <2>2 DEF Only
  <2> QED BY <1>2, <1>6, <2>2, <2>3
<1>7. CASE OwnFrame
  <2>1. PICK c : Only(cd, c, {"sm"}) /\ cd' = Begun(c)
    BY <1>1, <1>7, OwnFrameDoes
  <2> QED BY <1>6, <1>7, <2>1 DEF OwnFrame, counters
<1>8. ASSUME NEW same \in BOOLEAN, OtherFrame(same) PROVE RingOK'
  <2>1. PICK c : Only(cd, c, {"sm"}) /\ cd' = Begun(c)
    BY <1>1, <1>8, OtherFrameDoes
  <2> QED BY <1>6, <1>8, <2>1 DEF OtherFrame
<1>9. CASE Field
  <2>1. got' = got /\ main' = main /\ restarts' = restarts
    <3>1. OnBus
      BY <1>9 DEF Field, SendHeader, SendCheck, SendCrc, SendAck, SendEof0, SendBit5, SendBit7, SendPause,
                  Disturb, SendFlag, SendDelimiter
    <3> QED BY <3>1 DEF OnBus
  <2>2. CASE SendHeader
    <3>1. PICK r \in 0 .. 9 : cd' = Put(cd, Header(bus), 20 + r)
      BY <1>1, <2>2, HeaderDoes
    <3>2. Only(cd, cd, {})
      BY <1>1 DEF Only
    <3> QED BY <1>2, <2>1, <3>1, <3>2
  <2>3. CASE PlainField
    <3>1. PICK c, f, total : Passing(c, f, total)
      BY <2>3 DEF PlainField
    <3>2. Only(cd, c, {"sm", "irq"}) /\ cd' = Put(c, f, total)
      BY <3>1 DEF Passing
    <3> QED BY <1>2, <2>1, <3>2
  <2> QED BY <1>1, <1>9, <2>2, <2>3, FieldIs
<1>10. CASE CounterOverflow
  <2>1. PICK i : Only(cd, i, {"sync"}) /\ cd' = Put(i, Passive(10), 10)
    BY <1>1, <1>10, CounterOverflowDoes
  <2> QED BY <1>2, <1>10, <2>1 DEF CounterOverflow
<1>11. CASE QuietBits
  <2>1. PICK r \in 1 .. 10 : cd' = Put(cd, Quiet, r)
    BY <1>11, QuietBitsDoes
  <2>2. Only(cd, cd, {})
    BY <1>1 DEF Only
  <2> QED BY <1>2, <1>11, <2>1, <2>2 DEF QuietBits, Untouched, counters
<1> QED BY <1>3, <1>4, <1>5, <1>7, <1>8, <1>9, <1>10, <1>11 DEF LineStep

LEMMA EnqueueKeepsRing ==
  ASSUME Base, RingOK, Enqueue \/ WakeUp PROVE RingOK'
<1>1. Driver(cd) BY DEF Base, DriverInv, QueueInv
<1>2. got' = got /\ restarts' = restarts /\ ((main' = "release") <=> (main = "release"))
  BY DEF Enqueue, WakeUp, counters
<1>3. SameRing(cd, cd')
  BY <1>1, EnqueueDoes, WakeUpDoes, OnlySame
<1>4. PICK g, b, r, e : g = got /\ b = (main = "release") /\ r = restarts /\ b \in BOOLEAN /\ e = cd'
  OBVIOUS
<1>5. RingInv(e, g, b, r)
  BY <1>3, <1>4 DEF RingOK, SameRing
<1>6. (main' = "release") = b
  BY <1>2, <1>4
<1>7. RingInv(e, got', main' = "release", restarts')
  BY <1>2, <1>4, <1>5, <1>6
<1> QED BY <1>4, <1>7 DEF RingOK

(* LibPQP takes the oldest message, which leaves its place occupied.       *)
LEMMA FetchKeepsRing ==
  ASSUME Base, RingOK, Fetch PROVE RingOK'
<1> DEFINE t == cd.tail
           x == cd.slots[t]
           h == got'
           n == Len(got)
<1>1. /\ cd' = cd /\ restarts' = restarts /\ got' = Append(got, x) /\ cd.head # cd.tail
      /\ (main' = "release") = TRUE /\ (main = "release") = FALSE
  BY DEF Fetch, counters
<1>2. /\ IsASequence(got) /\ cd.head \in Places /\ t \in Places /\ DOMAIN cd.slots = Places
      /\ (restarts = 0 => cd.on = TRUE)
      /\ RingReported(cd, got) /\ RingOrder(cd, got, FALSE) /\ RingCount(cd, got, FALSE, restarts)
  BY <1>1 DEF RingOK, RingInv, RingShape
<1>3. Unread(cd) \in Nat /\ Unread(cd) > 0 /\ Age(cd, t) = 0 /\ Waiting(cd, t)
  <2>1. Age(cd, cd.head) \in 0 .. RingSize - 1 /\ Age(cd, cd.head) # 0 /\ Age(cd, t) = 0
    BY <1>1, <1>2, AgeBound
  <2> QED BY <1>2, <2>1, CanAssumption DEF Waiting, Unread
<1> HIDE DEF x
<1>4. /\ IsASequence(h) /\ n \in Nat /\ Len(h) = n + 1 /\ h[n + 1] = x
      /\ \A i \in 1 .. n : h[i] = got[i]
  <2>1. IsASequence(Append(got, x))
    BY <1>2, OneMore
  <2>2. /\ Len(got) \in Nat /\ Len(Append(got, x)) = Len(got) + 1
        /\ Append(got, x)[Len(got) + 1] = x
        /\ \A i \in 1 .. Len(got) : Append(got, x)[i] = got[i]
    BY <1>2, AppendedAt
  <2> QED BY <1>1, <2>1, <2>2, Zenon
<1> HIDE DEF h
<1>5. \A i \in 1 .. Len(h) : i = n + 1 \/ (i \in 1 .. n /\ h[i] = got[i])
  BY <1>4
<1>6. RingShape(cd, TRUE, restarts)
  BY <1>2, <1>3 DEF RingShape
<1>7. RingReported(cd, h)
  <2>1. Reported1(cd, x)
    BY <1>2, <1>3 DEF RingReported, x
  <2>2. \A i \in 1 .. Len(h) : Reported1(cd, h[i])
    BY <1>2, <1>4, <1>5, <2>1 DEF RingReported
  <2> QED BY <1>2, <2>2 DEF RingReported
<1>8. RingOrder(cd, h, TRUE)
  <2>1. \A i \in 1 .. n : got[i].n < x.n
    BY <1>2, <1>3 DEF RingOrder, x
  <2>2. ASSUME NEW i \in 1 .. Len(h), NEW j \in 1 .. Len(h), i < j PROVE h[i].n < h[j].n
    <3>1. i \in 1 .. n
      BY <1>4, <2>2
    <3>2. CASE j = n + 1
      BY <1>4, <2>1, <3>1, <3>2
    <3>3. CASE j \in 1 .. n
      BY <1>2, <1>4, <2>2, <3>1, <3>3 DEF RingOrder
    <3> QED BY <1>5, <3>2, <3>3
  <2>3. ASSUME NEW i \in 1 .. Len(h), NEW j \in Places, Waiting(cd, j), Age(cd, j) > 0
        PROVE  h[i].n < cd.slots[j].n
    <3>1. CASE i = n + 1
      <4>1. x.n < cd.slots[j].n
        BY <1>2, <1>3, <2>3 DEF RingOrder, x
      <4> QED BY <1>4, <3>1, <4>1
    <3>2. CASE i \in 1 .. n
      BY <1>2, <1>4, <2>3, <3>2 DEF RingOrder
    <3> QED BY <1>5, <3>1, <3>2
  <2>4. \A i, j \in Places :
          Waiting(cd, j) /\ Age(cd, i) < Age(cd, j) => cd.slots[i].n < cd.slots[j].n
    BY <1>2 DEF RingOrder
  <2> QED BY <2>2, <2>3, <2>4 DEF RingOrder
<1>9. RingCount(cd, h, TRUE, restarts)
  BY <1>2, <1>3, <1>4 DEF RingCount
<1>10. RingInv(cd, h, TRUE, restarts)
  BY <1>4, <1>6, <1>7, <1>8, <1>9 DEF RingInv
<1>11. PICK b : b = TRUE
  OBVIOUS
<1>12. RingInv(cd, h, b, restarts)
  BY <1>10, <1>11
<1>13. RingInv(cd', got', main' = "release", restarts')
  BY <1>1, <1>11, <1>12 DEF h
<1> QED BY <1>13 DEF RingOK

(* Then the place is freed.                                                *)
LEMMA ReleaseKeepsRing ==
  ASSUME Base, RingOK, Release PROVE RingOK'
<1>1. Driver(cd)
  BY DEF Base, DriverInv, QueueInv
<1>2. PICK e, g, r : e = cd' /\ g = got /\ r = restarts
  OBVIOUS
<1>3. /\ e.tail = Next1(cd.tail) /\ e.head = cd.head /\ e.slots = cd.slots /\ e.heard = cd.heard
      /\ e.on = cd.on /\ e.bufferLost = cd.bufferLost
  BY <1>1, <1>2, ReleaseDoes DEF Only, Fields
<1>4. /\ IsASequence(g) /\ cd.head \in Places /\ cd.tail \in Places /\ DOMAIN cd.slots = Places
      /\ (r = 0 => cd.on = TRUE) /\ Unread(cd) > 0
      /\ RingReported(cd, g) /\ RingOrder(cd, g, TRUE) /\ RingCount(cd, g, TRUE, r)
  BY <1>2 DEF RingOK, RingInv, RingShape, Release
<1>5. /\ e.tail \in Places /\ Unread(e) = Unread(cd) - 1 /\ Unread(cd) \in Nat
      /\ \A i \in Places : Waiting(e, i) => Waiting(cd, i) /\ Age(cd, i) > 0
      /\ \A i, j \in Places : Waiting(e, j) /\ Age(e, i) < Age(e, j) => Age(cd, i) < Age(cd, j)
  BY <1>3, <1>4, TailMoves
<1>6. RingShape(e, FALSE, r)
  BY <1>3, <1>4, <1>5 DEF RingShape
<1>7. RingReported(e, g)
  BY <1>3, <1>4, <1>5 DEF RingReported, Reported1
<1>8. RingOrder(e, g, FALSE)
  BY <1>3, <1>4, <1>5 DEF RingOrder
<1>9. RingCount(e, g, FALSE, r)
  BY <1>3, <1>4, <1>5 DEF RingCount
<1>10. RingInv(e, g, FALSE, r)
  BY <1>4, <1>6, <1>7, <1>8, <1>9 DEF RingInv
<1>11. PICK b : b = FALSE
  OBVIOUS
<1>12. RingInv(e, g, b, r)
  BY <1>10, <1>11
<1>13. got' = got /\ restarts' = restarts /\ (main' = "release") = FALSE
  BY DEF Release, counters
<1>14. RingInv(cd', got', main' = "release", restarts')
  BY <1>2, <1>11, <1>12, <1>13
<1> QED BY <1>14 DEF RingOK

(* A restart leaves the ring alone, but for a start that empties it.       *)
LEMMA RestartsKeepRing ==
  ASSUME Base, RingOK, ClearTx \/ Deinit \/ CanInit PROVE RingOK'
<1>1. Driver(cd) /\ restarts \in Nat
  BY DEF Base, DriverInv, QueueInv, Counted
<1>2. PICK g, r : g = got /\ r = restarts
  OBVIOUS
<1>3. /\ got' = g /\ (main' = "release") = FALSE /\ (main = "release") = FALSE
      /\ RingInv(cd, g, FALSE, r) /\ r \in Nat
  BY <1>1, <1>2 DEF ClearTx, Deinit, CanInit, Untouched, counters, RingOK
<1>4. ASSUME NEW e, NEW q, RingInv(e, g, FALSE, q), cd' = e, restarts' = q PROVE RingOK'
  <2>1. PICK b : b = FALSE
    OBVIOUS
  <2>2. RingInv(e, g, b, q)
    BY <1>4, <2>1
  <2>3. RingInv(cd', got', main' = "release", restarts')
    BY <1>3, <1>4, <2>1, <2>2
  <2> QED BY <2>3 DEF RingOK
<1>5. ASSUME NEW e, HearsNothing(cd, e), e.tail = cd.tail, NEW q, q # 0
      PROVE  RingInv(e, g, FALSE, q)
  <2>1. /\ \A i : Age(e, i) = Age(cd, i) /\ (Waiting(e, i) <=> Waiting(cd, i))
        /\ \A x : Reported1(e, x) <=> Reported1(cd, x)
    BY <1>5 DEF HearsNothing, Age, Unread, Waiting, Reported1
  <2> QED BY <1>3, <1>5, <2>1
          DEF HearsNothing, RingInv, RingShape, RingReported, RingOrder, RingCount
<1> DEFINE s == Stop(cd)
<1>6. Driver(s) /\ HearsNothing(cd, s) /\ s.tail = cd.tail
  <2>1. Only(cd, s, {"irq", "stall", "key", "sync", "isr", "rx", "sm", "on", "inte"})
    BY <1>1, StopDoes
  <2> HIDE DEF s
  <2> QED BY <2>1 DEF Only, Fields, HearsNothing
<1> HIDE DEF s
<1>7. CASE ClearTx
  <2> DEFINE e == Start(s)
  <2>1. Only(s, e, Begun0)
    BY <1>6, StartDoes
  <2>2. cd' = e
    BY <1>7 DEF ClearTx, s
  <2> HIDE DEF e
  <2>3. HearsNothing(cd, e) /\ e.tail = cd.tail
    BY <1>6, <2>1 DEF Only, Fields, Begun0, HearsNothing
  <2>4. restarts' = r + 1 /\ r + 1 # 0
    BY <1>2, <1>3, <1>7 DEF ClearTx
  <2> QED BY <1>4, <1>5, <2>2, <2>3, <2>4
<1>8. CASE Deinit
  <2>1. cd' = s /\ restarts' = r + 1 /\ r + 1 # 0
    BY <1>2, <1>3, <1>8 DEF Deinit, s
  <2> QED BY <1>4, <1>5, <1>6, <2>1
<1>9. CASE CanInit
  <2> DEFINE z == [cd EXCEPT !.head = 0, !.tail = 0, !.rxLost = FALSE, !.bufferLost = FALSE]
             e == Start(z)
  <2>1. Only(cd, z, {"head", "tail", "rxLost", "bufferLost"}) /\ z.head = 0 /\ z.tail = 0
    BY <1>1 DEF Only, Driver, Fields
  <2>2. cd' = e
    BY <1>9 DEF CanInit
  <2> HIDE DEF z
  <2>3. Driver(z) /\ z.heard = cd.heard /\ z.slots = cd.slots
    BY <2>1 DEF Only, Fields
  <2>4. Only(z, e, Begun0) /\ Started(e)
    BY <2>3, StartDoes
  <2> HIDE DEF e
  <2>5. /\ e.head = 0 /\ e.tail = 0 /\ e.heard = cd.heard /\ e.slots = cd.slots /\ e.on = TRUE
    BY <2>1, <2>3, <2>4 DEF Only, Fields, Begun0, Started
  <2>6. r # 0
    BY <1>2, <1>3, <1>9 DEF CanInit, RingInv, RingShape
  <2>7. 0 \in Places /\ \A i \in Places : ~Waiting(e, i)
    BY <2>5, CanAssumption DEF Places, Waiting, Unread, Age
  <2>8. RingInv(e, g, FALSE, r)
    <3>1. RingShape(e, FALSE, r)
      BY <1>3, <2>5, <2>7 DEF RingInv, RingShape
    <3>2. RingReported(e, g)
      BY <1>3, <2>5, <2>7 DEF RingInv, RingReported, Reported1
    <3>3. RingOrder(e, g, FALSE)
      BY <1>3, <2>7 DEF RingInv, RingOrder
    <3> QED BY <1>3, <2>6, <3>1, <3>2, <3>3 DEF RingInv, RingCount
  <2>9. restarts' = r
    BY <1>2, <1>9 DEF CanInit, Untouched, counters
  <2> QED BY <1>4, <2>2, <2>8, <2>9
<1> QED BY <1>7, <1>8, <1>9

LEMMA InitRing ==
  ASSUME Init PROVE RingOK
<1> DEFINE e == Start(Zeroed)
<1>1. Only(Zeroed, e, Begun0) /\ Started(e)
  BY ZeroedDoes, StartDoes
<1>2. cd = e /\ got = <<>> /\ restarts = 0 /\ (main = "release") = FALSE
  BY DEF Init
<1> HIDE DEF e
<1>3. /\ e.head = 0 /\ e.tail = 0 /\ e.heard = <<>> /\ e.slots = [i \in Places |-> NoFrame]
      /\ e.on = TRUE
  BY <1>1, ZeroedDoes DEF Only, Fields, Begun0, Started
<1>4. 0 \in Places /\ Unread(e) = 0 /\ \A i \in Places : ~Waiting(e, i)
  BY <1>3, CanAssumption DEF Places, Waiting, Unread, Age
<1>5. IsASequence(<<>>) /\ Len(<<>>) = 0 /\ \A i \in 1 .. Len(<<>>) : FALSE
  BY OneMore DEF IsASequence
<1>6. RingShape(e, FALSE, 0)
  BY <1>3, <1>4 DEF RingShape
<1>7. RingReported(e, <<>>)
  BY <1>4, <1>5 DEF RingReported
<1>8. RingOrder(e, <<>>, FALSE)
  BY <1>4, <1>5 DEF RingOrder
<1>9. RingCount(e, <<>>, FALSE, 0)
  BY <1>3, <1>4, <1>5 DEF RingCount
<1>10. RingInv(e, <<>>, FALSE, 0)
  BY <1>5, <1>6, <1>7, <1>8, <1>9 DEF RingInv
<1> QED BY <1>2, <1>10 DEF RingOK

LEMMA NextKeepsRing ==
  ASSUME Base, FlowOK, RingOK, [Next]_vars PROVE RingOK'
<1>1. CASE UNCHANGED vars
  BY <1>1 DEF vars, counters, RingOK
<1>2. CASE \/ Irq \/ LineStep \/ OwnFrame \/ Field
           \/ \E same \in BOOLEAN : OtherFrame(same)
  BY <1>2, BusKeepsRing
<1>3. CASE Enqueue \/ WakeUp
  BY <1>3, EnqueueKeepsRing
<1>4. CASE Fetch
  BY <1>4, FetchKeepsRing
<1>5. CASE Release
  BY <1>5, ReleaseKeepsRing
<1>6. CASE ClearTx \/ Deinit \/ CanInit
  BY <1>6, RestartsKeepRing
<1> QED BY <1>1, <1>2, <1>3, <1>4, <1>5, <1>6 DEF Next, LineStep

LEMMA AlwaysRing == Spec => [](Base /\ FlowOK /\ RingOK)
<1>1. Init => Base /\ FlowOK /\ RingOK
  BY InitBase, InitFlow, InitRing
<1>2. Base /\ FlowOK /\ RingOK /\ [Next]_vars => (Base /\ FlowOK /\ RingOK)'
  BY NextKeepsBase, NextKeepsFlow, NextKeepsRing
<1> QED BY <1>1, <1>2, PTL DEF Spec

(* The handler's head and LibPQP's tail never run over each other: what    *)
(* pqpf_can_if1_received_fragment copies are the messages in the order in  *)
(* which can1_callback put them there, for every size of the ring, and     *)
(* only the overflow that is flagged makes a gap.                          *)
THEOREM RingInOrder == Spec => []RingFaithful
<1>1. Base /\ RingOK => RingFaithful
  <2> SUFFICES ASSUME Base, RingOK PROVE RingFaithful
    OBVIOUS
  <2> DEFINE l == Len(got)
             gotten == [i \in 1 .. l |-> got[i].n]
  <2>1. PICK S : got \in Seq(S)
    BY DEF RingOK, RingInv, IsASequence
  <2>2. l \in Nat
    BY <2>1
  <2>3. Len(gotten) = l /\ \A i \in 1 .. l : gotten[i] = got[i].n
    BY <2>2
  <2>4. \A i, j \in 1 .. l : i < j => got[i].n < got[j].n
    BY DEF RingOK, RingInv, RingOrder
  <2>5. cd.head \in Places /\ cd.tail \in Places
    BY DEF RingOK, RingInv, RingShape
  <2>6. (cd.head - cd.tail) % RingSize = Unread(cd)
    <3>1. \A a, b \in Places : (a - b) % RingSize = IF a >= b THEN a - b ELSE (a - b) + RingSize
      BY CanAssumption DEF Places
    <3> QED BY <2>5, <3>1 DEF Unread, Age
  <2>7. restarts = 0 /\ ~cd.bufferLost /\ main # "release" => Len(cd.heard) = l + Unread(cd)
    BY DEF RingOK, RingInv, RingCount
  <2> HIDE DEF gotten
  <2>8. Increasing(gotten)
    BY <2>3, <2>4 DEF Increasing
  <2> QED BY <2>6, <2>7, <2>8 DEF RingFaithful, gotten
<1> QED BY <1>1, AlwaysRing, PTL

(* And they are messages that the handler told LibPQP of: no call of       *)
(* pqpf_can_if1_received_fragment returns a place that was never filled.   *)
THEOREM OnlyWhatWasHeard == Spec => [](\A i \in 1 .. Len(got) : Reported1(cd, got[i]))
<1>1. RingOK => \A i \in 1 .. Len(got) : Reported1(cd, got[i])
  BY DEF RingOK, RingInv, RingReported
<1> QED BY <1>1, AlwaysRing, PTL

(* A fragment that a restart withdrew is never put on the bus: this is the *)
(* first half of NeverSentAgain, and holds although bits are lost.         *)
THEOREM WithdrawnForGood ==
  Spec => [][\A m \in 1 .. MaxEvents :
               bus = Free /\ bus' # Free /\ bus'.own /\ bus'.n = m => m \notin withdrawn]_vars
<1> DEFINE Again == \A m \in 1 .. MaxEvents :
               bus = Free /\ bus' # Free /\ bus'.own /\ bus'.n = m => m \notin withdrawn
<1>1. Base /\ [Next]_vars => [Again]_vars
  <2> SUFFICES ASSUME Base, [Next]_vars, bus = Free, bus' # Free, bus'.own
               PROVE  bus'.n \notin withdrawn
    OBVIOUS
  <2>1. bus' # bus
    OBVIOUS
  <2>2. CASE OwnFrame
    BY <2>2 DEF OwnFrame, Begin, Base, DriverInv, QueueInv, Wanted
  <2>3. CASE \E same \in BOOLEAN : OtherFrame(same)
    BY <2>3 DEF OtherFrame, Begin
  <2>4. CASE Field
    BY <2>4, FreeAt DEF Field, SendHeader, SendCheck, SendCrc, SendAck, SendEof0, SendBit5, SendBit7,
       SendPause, Disturb, SendFlag, SendDelimiter
  <2>5. CASE Irq \/ LineStep \/ Enqueue \/ WakeUp \/ Fetch \/ Release
             \/ ClearTx \/ Deinit \/ CanInit \/ UNCHANGED vars
    BY <2>1, <2>5, IrqIs DEF Irq, IrqRxData, IrqLine, Untouched, LineStep, Overrun, Idle,
       CounterOverflow, QuietBits, Enqueue, WakeUp,
       Fetch, Release, ClearTx, Deinit, CanInit, vars,
       IrqAckDone, IrqMatched, IrqMayTx, IrqTxPending
  <2> QED BY <2>2, <2>3, <2>4, <2>5 DEF Next, LineStep
<1> QED BY <1>1, AlwaysBase, PTL DEF Spec

-----------------------------------------------------------------------------
(***************************************************************************)
(* What a field does while no bits are lost, function by function.         *)
(***************************************************************************)
Local(d, f) == ~f.same /\ f.own /\ f.n = Head(d.queue)

(* A field the parser does not wait for, or a bad one.                     *)
Wrong(d, f) ==
  /\ f.is \notin {"part", "passive", "quiet"}
  /\ f.is = "sof" => d.parse # "START"
  /\ f.is = "header" /\ d.parse = "HEADER" => d.tx = "QUEUED" /\ f.frame.same
  /\ f.is \in {"crc", "ack"} /\ d.parse \in {"CRC", "ACK"} /\ f.good
       => ~(f.is = "crc" /\ d.parse = "CRC") /\ ~(f.is = "ack" /\ d.parse = "ACK")
  /\ f.is = "eof0" => d.parse # "EOF0"
  /\ f.is = "eof1" => d.parse \notin {"EOF1", "DISCARD"} \/ f.first # "none"
  /\ f.is = "eof1" /\ d.parse = "EOF1"
       => f.first # "pause" /\ ~(f.first = "bit7" /\ d.report \notin {"TX_ACK", "TX_EOF"})

Discards(d, f, e) ==
  /\ Wrong(d, f)
  /\ Only(d, e, {"report", "slow", "key", "inte", "parse", "msg"}) /\ (f.is # "header" => e.msg = d.msg)
  /\ e.parse = "DISCARD" /\ e.report = "IDLE" /\ e.inte = {"MAYTX", "TXPENDING"}
  /\ e.key = IF d.report = "IDLE" THEN d.key ELSE NoKey

Settles(d, f, e) ==
  /\ f.is = "passive" \/ (f.is = "eof1" /\ f.first = "none" /\ d.parse = "DISCARD")
  /\ Only(d, e, {"report", "slow", "key", "inte", "parse"})
  /\ e.parse = "START" /\ e.report = "IDLE" /\ e.inte = {"MAYTX", "TXPENDING"}
  /\ e.key = IF d.report = "IDLE" THEN d.key ELSE NoKey

Starts(d, f, e) ==
  /\ f.is = "sof" /\ d.parse = "START"
  /\ Only(d, e, {"parse", "inte"}) /\ e.parse = "HEADER" /\ e.inte = {"MAYTX"}

TakesOwn(d, f, e) ==
  /\ f.is = "header" /\ d.parse = "HEADER" /\ d.tx = "QUEUED" /\ Local(d, f.frame)
  /\ Only(d, e, {"msg", "tx", "report", "key", "parse"}) /\ e.msg = f.frame /\ e.parse = "CRC"
  /\ e.tx = "CONFIRM_TX" /\ e.report = "TX_ACK" /\ e.key = Key("txeof", f.frame)

TakesOther(d, f, e) ==
  /\ f.is = "header" /\ d.parse = "HEADER"
  /\ ~(d.tx = "QUEUED" /\ (f.frame.same \/ Local(d, f.frame)))
  /\ Only(d, e, {"msg", "inte", "report", "irq", "parse"}) /\ e.msg = f.frame /\ e.parse = "CRC"
  /\ e.report = "RX_ACK" /\ e.inte = {"MAYTX", "TXPENDING"} /\ e.irq = d.irq \cup {"TXPENDING"}

CrcGood(d, f, e) ==
  /\ f.is = "crc" /\ d.parse = "CRC" /\ f.good
  /\ Only(d, e, {"inte", "parse"}) /\ e.parse = "ACK"
  /\ e.inte = IF d.report = "TX_ACK" THEN {"MAYTX", "MATCHED"} ELSE d.inte

AckGood(d, f, e) ==
  /\ f.is = "ack" /\ d.parse = "ACK" /\ f.good
  /\ Only(d, e, {"report", "parse"}) /\ e.parse = "EOF0"
  /\ e.report = CASE d.report = "RX_ACK" -> "RX_EOF" [] d.report = "TX_ACK" -> "TX_EOF"
                  [] OTHER -> d.report

Eof0Good(d, f, e) ==
  f.is = "eof0" /\ d.parse = "EOF0" /\ Only(d, e, {"parse"}) /\ e.parse = "EOF1"

Reporting == {"report", "key", "slow", "confirmed", "queue", "heard", "bufferLost", "slots", "head"}

Ends(d, f, e) ==
  /\ f.is = "eof1" /\ d.parse = "EOF1"
  /\ \/ f.first = "none" /\ e.parse = "START"
        /\ e.inte = IF d.report = "IDLE" THEN d.inte ELSE {"TXPENDING"}
     \/ (f.first = "pause" \/ (f.first = "bit7" /\ d.report \notin {"TX_ACK", "TX_EOF"}))
        /\ e.parse = "DISCARD" /\ e.inte = {"MAYTX", "TXPENDING"}
  /\ Only(d, e, Reporting \cup {"inte", "parse"}) /\ e.report = "IDLE"
  /\ e.key = IF d.report = "IDLE" THEN d.key ELSE NoKey
  /\ e.queue = IF d.report = "TX_EOF" THEN Tail(d.queue) ELSE d.queue
  /\ e.heard = IF d.report = "RX_EOF" THEN Append(d.heard, d.msg) ELSE d.heard

Reads(d, f, e) ==
  \/ f.is = "part" /\ e = d
  \/ Discards(d, f, e) \/ Settles(d, f, e) \/ Starts(d, f, e)
  \/ TakesOwn(d, f, e) \/ TakesOther(d, f, e)
  \/ CrcGood(d, f, e) \/ AckGood(d, f, e) \/ Eof0Good(d, f, e) \/ Ends(d, f, e)

LEMMA DiscardIs ==
  ASSUME NEW d, Driver(d), ~d.stall, NEW f, Wrong(d, f)
  PROVE  Discards(d, f, GoDiscard(d))
<1> DEFINE e == GoDiscard(d)
<1>1. /\ e.report = "IDLE" /\ e.parse = "DISCARD" /\ e.inte = {"MAYTX", "TXPENDING"}
      /\ Only(d, e, {"report", "slow", "key", "inte", "parse"})
      /\ e.key = IF d.report = "IDLE" THEN d.key ELSE NoKey
  BY GoDiscardDoes
<1> HIDE DEF e
<1>2. e.msg = d.msg /\ Only(d, e, {"report", "slow", "key", "inte", "parse", "msg"})
  BY <1>1 DEF Only, Fields
<1> QED BY <1>1, <1>2 DEF Discards, e

LEMMA PassiveIs ==
  ASSUME NEW d, Driver(d), ~d.stall, NEW f,
         f.is = "passive" \/ (f.is = "eof1" /\ f.first = "none" /\ d.parse = "DISCARD")
  PROVE  Settles(d, f, LinePassive(d))
<1> DEFINE g == GoDiscard(d)
           e == LinePassive(d)
<1>1. /\ g.report = "IDLE" /\ g.inte = {"MAYTX", "TXPENDING"}
      /\ Only(d, g, {"report", "slow", "key", "inte", "parse"})
      /\ g.key = IF d.report = "IDLE" THEN d.key ELSE NoKey
  BY GoDiscardDoes
<1>2. Only(g, e, {"parse"}) /\ e.parse = "START"
  BY LinePassiveDoes
<1> HIDE DEF g, e
<1>3. Only(d, e, {"report", "slow", "key", "inte", "parse"})
  BY <1>1, <1>2 DEF Only
<1>4. e.report = g.report /\ e.inte = g.inte /\ e.key = g.key
  BY <1>2 DEF Only, Fields
<1> QED BY <1>1, <1>2, <1>3, <1>4 DEF Settles, e

LEMMA HeaderIs ==
  ASSUME NEW d, Driver(d), ~d.stall, NEW f, f.is = "header", d.parse = "HEADER"
  PROVE  Reads(d, f, GoCrc(Parsed(d, f.frame)))
<1> DEFINE p == Parsed(d, f.frame)
           e == GoCrc(p)
<1>1. Only(d, p, {"msg"}) /\ p.msg = f.frame
  BY ParsedDoes
<1>2. \/ LocalMessage(p) = "clash" /\ e = GoDiscard(p)
      \/ Accepted(p, e)
  BY <1>1, GoCrcDoes DEF Only
<1> HIDE DEF p
<1>3. /\ Driver(p) /\ p.tx = d.tx /\ p.queue = d.queue /\ p.stall = d.stall /\ p.report = d.report
      /\ p.key = d.key /\ p.irq = d.irq
  BY <1>1 DEF Only, Fields
<1>4. CASE LocalMessage(p) = "clash" /\ e = GoDiscard(p)
  <2>1. p.tx = "QUEUED" /\ p.msg.same
    BY <1>4 DEF LocalMessage
  <2> HIDE DEF e
  <2>2. /\ e.report = "IDLE" /\ e.parse = "DISCARD" /\ e.inte = {"MAYTX", "TXPENDING"}
        /\ Only(p, e, {"report", "slow", "key", "inte", "parse"})
        /\ e.key = IF p.report = "IDLE" THEN p.key ELSE NoKey
    <3>1. ~p.stall
      BY <1>3
    <3> QED BY <1>3, <1>4, <3>1, GoDiscardDoes
  <2>3. Only(d, e, {"report", "slow", "key", "inte", "parse", "msg"})
    BY <1>1, <2>2 DEF Only
  <2>4. Wrong(d, f)
    BY <1>1, <1>3, <2>1 DEF Wrong
  <2> QED BY <1>3, <2>2, <2>3, <2>4 DEF Reads, Discards, e, p
<1>5. CASE Accepted(p, e)
  <2> HIDE DEF e
  <2>1. CASE LocalMessage(p) = "local"
    <3>1. Local(d, f.frame) /\ d.tx = "QUEUED"
      BY <1>1, <1>3, <2>1 DEF LocalMessage, Local
    <3>2. /\ Only(p, e, {"tx", "report", "key", "parse"}) /\ e.parse = "CRC"
          /\ e.tx = "CONFIRM_TX" /\ e.report = "TX_ACK" /\ e.key = Key("txeof", p.msg)
      BY <1>5, <2>1 DEF Accepted
    <3>3. Only(d, e, {"msg", "tx", "report", "key", "parse"}) /\ e.msg = p.msg
      BY <1>1, <3>2 DEF Only, Fields
    <3> QED BY <1>1, <3>1, <3>2, <3>3 DEF Reads, TakesOwn, e, p
  <2>2. CASE LocalMessage(p) = "other"
    <3>1. ~(d.tx = "QUEUED" /\ (f.frame.same \/ Local(d, f.frame)))
      BY <1>1, <1>3, <2>2 DEF LocalMessage, Local
    <3>2. /\ Only(p, e, {"inte", "report", "irq", "parse"}) /\ e.parse = "CRC"
          /\ e.report = "RX_ACK" /\ e.inte = {"MAYTX", "TXPENDING"}
          /\ e.irq = p.irq \cup {"TXPENDING"}
      BY <1>5, <2>2 DEF Accepted
    <3>3. Only(d, e, {"msg", "inte", "report", "irq", "parse"}) /\ e.msg = p.msg
      BY <1>1, <3>2 DEF Only, Fields
    <3> QED BY <1>1, <1>3, <3>1, <3>2, <3>3 DEF Reads, TakesOther, e, p
  <2> QED BY <1>5, <2>1, <2>2 DEF Accepted
<1> QED BY <1>2, <1>4, <1>5 DEF p

LEMMA EofSuccessIs ==
  ASSUME NEW d, Driver(d)
  PROVE  LET s == EofSuccess(d)
         IN /\ Only(d, s, Reporting \cup {"inte"}) /\ s.report = "IDLE"
            /\ s.inte = IF d.report = "IDLE" THEN d.inte ELSE {"TXPENDING"}
            /\ s.key = IF d.report = "IDLE" THEN d.key ELSE NoKey
            /\ s.queue = IF d.report = "TX_EOF" THEN Tail(d.queue) ELSE d.queue
            /\ s.heard = IF d.report = "RX_EOF" THEN Append(d.heard, d.msg) ELSE d.heard
<1> DEFINE h == HandleEof(d)
           s == EofSuccess(d)
<1>1. CASE d.report = "IDLE"
  <2>1. s = d
    BY <1>1 DEF EofSuccess
  <2> HIDE DEF s
  <2>2. Only(d, s, Reporting \cup {"inte"})
    BY <2>1 DEF Only
  <2> QED BY <1>1, <2>1, <2>2 DEF s
<1>2. CASE d.report # "IDLE"
  <2>1. Told(d, h) /\ h.report = "IDLE" /\ h.key = NoKey
    BY HandleEofDoes
  <2> HIDE DEF h
  <2>2. /\ Only(d, h, Reporting)
        /\ h.queue = IF d.report = "TX_EOF" THEN Tail(d.queue) ELSE d.queue
        /\ h.heard = IF d.report = "RX_EOF" THEN Append(d.heard, d.msg) ELSE d.heard
    BY <2>1 DEF Told, Only, Fields, Reporting
  <2>3. s = IrqSet(h, {"TXPENDING"})
    BY <1>2 DEF EofSuccess, h
  <2> HIDE DEF s
  <2>4. Only(h, s, {"inte"}) /\ s.inte = {"TXPENDING"}
    BY <2>2, <2>3, IrqSetDoes DEF Only
  <2>5. Only(d, s, Reporting \cup {"inte"})
    BY <2>2, <2>4, Composed
  <2>6. s.report = h.report /\ s.key = h.key /\ s.queue = h.queue /\ s.heard = h.heard
    BY <2>4 DEF Only, Fields
  <2> QED BY <1>2, <2>1, <2>2, <2>4, <2>5, <2>6 DEF s
<1> QED BY <1>1, <1>2

LEMMA UpdateEof1Is ==
  ASSUME NEW d, Driver(d), ~d.stall, d.parse = "EOF1", NEW f, f.is = "eof1"
  PROVE  Reads(d, f, UpdateEof1(d, f.first))
<1> DEFINE s == EofSuccess(d)
           e == UpdateEof1(d, f.first)
           r == [s EXCEPT !.parse = "START"]
           g == GoDiscard(s)
<1>1. /\ Only(d, s, Reporting \cup {"inte"}) /\ s.report = "IDLE"
      /\ s.inte = IF d.report = "IDLE" THEN d.inte ELSE {"TXPENDING"}
      /\ s.key = IF d.report = "IDLE" THEN d.key ELSE NoKey
      /\ s.queue = IF d.report = "TX_EOF" THEN Tail(d.queue) ELSE d.queue
      /\ s.heard = IF d.report = "RX_EOF" THEN Append(d.heard, d.msg) ELSE d.heard
  BY EofSuccessIs
<1> DEFINE over == f.first = "pause" \/ (f.first = "bit7" /\ d.report \notin {"TX_ACK", "TX_EOF"})
<1>2. e = CASE f.first = "none" -> r [] over -> g [] OTHER -> GoDiscard(d)
  BY DEF UpdateEof1
<1>3. Driver(s) /\ s.stall = d.stall
  BY <1>1 DEF Only, Fields, Reporting
<1> HIDE DEF s
<1>4. CASE f.first = "none"
  <2>1. e = r
    BY <1>2, <1>4
  <2>2. Only(s, r, {"parse"}) /\ r.parse = "START"
    BY <1>3 DEF Only, Driver, Fields
  <2> HIDE DEF e, r
  <2>3. Only(d, e, Reporting \cup {"inte", "parse"})
    BY <1>1, <2>1, <2>2 DEF Only
  <2>4. e.report = s.report /\ e.inte = s.inte /\ e.key = s.key /\ e.queue = s.queue
        /\ e.heard = s.heard
    BY <2>1, <2>2 DEF Only, Fields
  <2> QED BY <1>1, <1>4, <2>1, <2>2, <2>3, <2>4 DEF Reads, Ends, e
<1>5. CASE f.first # "none" /\ over
  <2>1. e = g
    BY <1>2, <1>5
  <2>2. /\ g.report = "IDLE" /\ g.parse = "DISCARD" /\ g.inte = {"MAYTX", "TXPENDING"}
        /\ Only(s, g, {"report", "slow", "key", "inte", "parse"})
        /\ g.key = IF s.report = "IDLE" THEN s.key ELSE NoKey
    BY <1>3, GoDiscardDoes
  <2> HIDE DEF e, g
  <2>3. Only(d, e, Reporting \cup {"inte", "parse"})
    BY <1>1, <2>1, <2>2 DEF Only, Reporting
  <2>4. e.queue = s.queue /\ e.heard = s.heard
    BY <2>1, <2>2 DEF Only, Fields
  <2> QED BY <1>1, <1>5, <2>1, <2>2, <2>3, <2>4 DEF Reads, Ends, e
<1>6. CASE f.first # "none" /\ ~over
  <2>1. e = GoDiscard(d)
    BY <1>2, <1>6
  <2>2. Wrong(d, f)
    BY <1>6 DEF Wrong
  <2> QED BY <2>1, <2>2, DiscardIs DEF Reads
<1> QED BY <1>4, <1>5, <1>6

LEMMA ProcessRxIs ==
  ASSUME NEW d, Driver(d), ~d.stall, NEW f, f.is # "quiet"
  PROVE  Reads(d, f, ProcessRx(d, f))
<1> DEFINE e == ProcessRx(d, f)
<1>1. Parses(d, f, e)
  BY ProcessRxDoes
<1> SUFFICES Reads(d, f, e)
  OBVIOUS
<1> HIDE DEF e
<1>2. CASE f.is = "passive" /\ e = LinePassive(d)
  BY <1>2, PassiveIs DEF Reads
<1>3. CASE f.is = "sof" /\ d.parse = "START" /\ e = MessageStart(d)
  <2>1. Only(d, e, {"parse", "inte"}) /\ e.parse = "HEADER" /\ e.inte = {"MAYTX"}
    BY <1>3 DEF MessageStart, IrqSet, Only, Driver, Fields
  <2> QED BY <1>3, <2>1 DEF Reads, Starts
<1>4. CASE f.is = "header" /\ d.parse = "HEADER" /\ e = GoCrc(Parsed(d, f.frame))
  BY <1>4, HeaderIs
<1>5. CASE f.is = "crc" /\ d.parse = "CRC" /\ e = UpdateCrc(d, f.good)
  <2>1. CASE f.good
    <3>1. e = [NoteCrcSuccess(d) EXCEPT !.parse = "ACK"]
      BY <1>5, <2>1 DEF UpdateCrc
    <3>2. Only(d, NoteCrcSuccess(d), {"inte"})
          /\ NoteCrcSuccess(d).inte = IF d.report = "TX_ACK" THEN {"MAYTX", "MATCHED"} ELSE d.inte
      BY DEF NoteCrcSuccess, IrqSet, Only, Driver, Fields
    <3> DEFINE c == NoteCrcSuccess(d)
    <3> HIDE DEF c
    <3>3. Only(c, e, {"parse"}) /\ e.parse = "ACK"
      BY <3>1, <3>2 DEF Only, Driver, Fields, c
    <3>4. Only(d, e, {"inte", "parse"}) /\ e.inte = c.inte
      BY <3>2, <3>3 DEF Only, Fields, c
    <3> QED BY <1>5, <2>1, <3>2, <3>3, <3>4 DEF Reads, CrcGood, c
  <2>2. CASE ~f.good
    <3>1. e = GoDiscard(d) /\ Wrong(d, f)
      BY <1>5, <2>2 DEF UpdateCrc, Wrong
    <3> QED BY <3>1, DiscardIs DEF Reads
  <2> QED BY <2>1, <2>2
<1>6. CASE f.is = "ack" /\ d.parse = "ACK" /\ e = UpdateAck(d, f.good)
  <2>1. CASE f.good
    <3>1. e = UpdateAck(d, TRUE)
      BY <1>6, <2>1 DEF UpdateAck
    <3>2. /\ Only(d, e, {"report", "parse"}) /\ e.parse = "EOF0"
          /\ e.report = CASE d.report = "RX_ACK" -> "RX_EOF" [] d.report = "TX_ACK" -> "TX_EOF"
                          [] OTHER -> d.report
      BY <3>1, UpdateAckDoes
    <3> QED BY <1>6, <2>1, <3>2 DEF Reads, AckGood
  <2>2. CASE ~f.good
    <3>1. e = GoDiscard(d) /\ Wrong(d, f)
      BY <1>6, <2>2 DEF UpdateAck, Wrong
    <3> QED BY <3>1, DiscardIs DEF Reads
  <2> QED BY <2>1, <2>2
<1>7. CASE f.is = "eof0" /\ d.parse = "EOF0" /\ e = UpdateEof0(d)
  <2>1. Only(d, e, {"parse"}) /\ e.parse = "EOF1"
    BY <1>7 DEF UpdateEof0, Only, Driver, Fields
  <2> QED BY <1>7, <2>1 DEF Reads, Eof0Good
<1>8. CASE f.is = "eof1" /\ d.parse = "EOF1" /\ e = UpdateEof1(d, f.first)
  BY <1>8, UpdateEof1Is
<1>9. CASE f.is = "eof1" /\ d.parse = "DISCARD" /\ f.first = "none" /\ e = LinePassive(d)
  BY <1>9, PassiveIs DEF Reads
<1>10. ASSUME f.is \notin {"part", "passive", "quiet"},
              f.is = "sof" => d.parse # "START",
              f.is = "header" => d.parse # "HEADER",
              f.is = "crc" => d.parse # "CRC",
              f.is = "ack" => d.parse # "ACK",
              f.is = "eof0" => d.parse # "EOF0",
              f.is = "eof1" => d.parse # "EOF1" /\ ~(d.parse = "DISCARD" /\ f.first = "none"),
              e = GoDiscard(d)
       PROVE  Reads(d, f, e)
  <2>1. Wrong(d, f)
    BY <1>10 DEF Wrong
  <2> QED BY <1>10, <2>1, DiscardIs DEF Reads
<1>11. CASE f.is = "part" /\ e = d
  BY <1>11 DEF Reads
<1> QED BY <1>1, <1>2, <1>3, <1>4, <1>5, <1>6, <1>7, <1>8, <1>9, <1>10, <1>11 DEF Parses

-----------------------------------------------------------------------------
(***************************************************************************)
(* The order in which fields come on the bus, and the parser that is       *)
(* behind: d has still to handle the fields of p after the first k.        *)
(***************************************************************************)
(* Where the bus is behind a field, and where a field may come.            *)
Leads(f) ==
  CASE f.is = "sof" -> "header"
    [] f.is = "header" -> "check"
    [] f.is = "crc" -> "ack"
    [] f.is = "ack" -> IF f.good THEN "eof0" ELSE "flag"
    [] f.is = "eof0" -> "bit5"
    [] f.is = "part" -> IF f.bits = 9 THEN "crc" ELSE IF f.bits = 2 THEN "bit7" ELSE "pause"
    [] f.is = "eof1" -> IF f.first = "none" THEN "free" ELSE "flag"
    [] f.is = "flag" -> "delimiter"
    [] OTHER -> "free"

Comes(at, f) ==
  \/ f.is \in {"sof", "passive", "quiet"} /\ at = "free"
  \/ f.is \in {"header", "crc", "ack", "eof0"} /\ at = f.is
  \/ f.is = "part" /\ f.bits = 9 /\ at = "check"
  \/ f.is = "part" /\ f.bits = 2 /\ at = "bit5"
  \/ f.is = "part" /\ f.bits = 1 /\ at = "bit7"
  \/ f.is = "eof1" /\ f.first = "none" /\ at = "pause"
  \/ f.is = "eof1" /\ f.first = at /\ at \in {"bit5", "bit7", "pause"}
  \/ f.is = "flag" /\ at \in {"header", "check", "crc", "ack", "eof0", "flag"}
  \/ f.is = "passive" /\ at = "delimiter"

(* What the parser may wait for when the bus is at a place.                *)
Fits(parse, at) ==
  \/ parse = "DISCARD"
  \/ parse = "START" /\ at = "free"
  \/ parse = "HEADER" /\ at = "header"
  \/ parse = "CRC" /\ at \in {"check", "crc"}
  \/ parse = "ACK" /\ at = "ack"
  \/ parse = "EOF0" /\ at = "eof0"
  \/ parse = "EOF1" /\ at \in {"bit5", "bit7", "pause"}

Awaits(parse, f) == \E at \in At \cup {"free"} : Fits(parse, at) /\ Comes(at, f)

Grammar(d, p, k, at) ==
  /\ \A i \in k + 1 .. Len(p) - 1 : Comes(Leads(p[i]), p[i + 1])
  /\ k < Len(p) => Leads(p[Len(p)]) = at /\ Awaits(d.parse, p[k + 1])
  /\ k = Len(p) => Fits(d.parse, at)

(* A parser that is not behind knows that the bus is free.                 *)
Rests(d, p, k, at) == k = Len(p) /\ at = "free" => d.parse = "START"

Follows(d, p, k, at) ==
  IF d.sync = "lost" THEN d.parse = "DISCARD"
  ELSE Grammar(d, p, k, at) /\ Rests(d, p, k, at)

(* The parser will be waiting for the header of a frame when the i-th      *)
(* field, which is or may become that header, is handed to it.             *)
Due(d, k, i) == /\ i = k + 1 => d.parse = "HEADER"
                /\ i = k + 2 => d.parse = "START"

LEMMA FieldFits ==
  ASSUME NEW d, NEW f, NEW e, Reads(d, f, e), Awaits(d.parse, f)
  PROVE  /\ Fits(e.parse, Leads(f))
         /\ Leads(f) = "free" => e.parse = "START"
         /\ f.is = "sof" /\ d.parse = "START" => e.parse = "HEADER"
<1>1. PICK at : at \in At \cup {"free"} /\ Fits(d.parse, at) /\ Comes(at, f)
  BY DEF Awaits
<1>2. CASE f.is = "part" /\ e = d
  <2>1. Leads(f) = IF f.bits = 9 THEN "crc" ELSE IF f.bits = 2 THEN "bit7" ELSE "pause"
    BY <1>2 DEF Leads
  <2>2. d.parse \in {IF f.bits = 9 THEN "CRC" ELSE "EOF1", "DISCARD"}
    BY <1>1, <1>2 DEF Fits, Comes
  <2> QED BY <1>2, <2>1, <2>2 DEF Fits
<1>3. CASE Discards(d, f, e)
  <2>1. e.parse = "DISCARD" /\ Wrong(d, f)
    BY <1>3 DEF Discards
  <2>2. Fits(e.parse, Leads(f))
    BY <2>1 DEF Fits
  <2>3. ASSUME Leads(f) = "free" PROVE FALSE
    <3>1. f.is \notin {"sof", "header", "crc", "ack", "eof0", "part", "flag"}
      BY <2>3 DEF Leads
    <3>2. CASE f.is = "eof1"
      <4>1. f.first = "none"
        BY <2>3, <3>2 DEF Leads
      <4>2. d.parse \in {"EOF1", "DISCARD"}
        BY <1>1, <3>2, <4>1 DEF Fits, Comes
      <4> QED BY <2>1, <3>2, <4>1, <4>2 DEF Wrong
    <3>3. CASE f.is # "eof1"
      <4>1. f.is \in {"passive", "quiet"}
        BY <1>1, <3>1, <3>3 DEF Comes
      <4> QED BY <2>1, <4>1 DEF Wrong
    <3> QED BY <3>2, <3>3
  <2> QED BY <2>1, <2>2, <2>3 DEF Wrong
<1>4. CASE Settles(d, f, e)
  <2>1. e.parse = "START" /\ Leads(f) = "free" /\ f.is # "sof"
    BY <1>4 DEF Settles, Leads
  <2> QED BY <2>1 DEF Fits
<1>5. CASE Starts(d, f, e)
  <2>1. e.parse = "HEADER" /\ Leads(f) = "header"
    BY <1>5 DEF Starts, Leads
  <2> QED BY <2>1 DEF Fits
<1>6. CASE TakesOwn(d, f, e) \/ TakesOther(d, f, e)
  <2>1. e.parse = "CRC" /\ Leads(f) = "check" /\ f.is # "sof"
    BY <1>6 DEF TakesOwn, TakesOther, Leads
  <2> QED BY <2>1 DEF Fits
<1>7. CASE CrcGood(d, f, e)
  <2>1. e.parse = "ACK" /\ Leads(f) = "ack" /\ f.is # "sof"
    BY <1>7 DEF CrcGood, Leads
  <2> QED BY <2>1 DEF Fits
<1>8. CASE AckGood(d, f, e)
  <2>1. e.parse = "EOF0" /\ Leads(f) = "eof0" /\ f.is # "sof"
    BY <1>8 DEF AckGood, Leads
  <2> QED BY <2>1 DEF Fits
<1>9. CASE Eof0Good(d, f, e)
  <2>1. e.parse = "EOF1" /\ Leads(f) = "bit5" /\ f.is # "sof"
    BY <1>9 DEF Eof0Good, Leads
  <2> QED BY <2>1 DEF Fits
<1>10. CASE Ends(d, f, e)
  <2>1. f.is = "eof1" /\ Leads(f) = IF f.first = "none" THEN "free" ELSE "flag"
    BY <1>10 DEF Ends, Leads
  <2>2. \/ f.first = "none" /\ e.parse = "START"
        \/ f.first # "none" /\ e.parse = "DISCARD"
    BY <1>10 DEF Ends
  <2> QED BY <2>1, <2>2 DEF Fits
<1> QED BY <1>2, <1>3, <1>4, <1>5, <1>6, <1>7, <1>8, <1>9, <1>10 DEF Reads

LEMMA LeadsIn ==
  ASSUME NEW f
  PROVE  /\ Leads(f) \in At \cup {"free"}
         /\ Leads(f) = "header" => f.is = "sof"
         /\ \A at : Comes(at, f) => at \in At \cup {"free"}
         /\ \A at : Comes(at, f) /\ f.is = "sof" => at = "free"
         /\ \A at : Comes(at, f) /\ f.is = "header" => at = "header"
<1>1. Leads(f) \in At \cup {"free"} /\ (Leads(f) = "header" => f.is = "sof")
  BY DEF Leads, At
<1>2. /\ \A at : Comes(at, f) => at \in At \cup {"free"}
      /\ \A at : Comes(at, f) /\ f.is = "sof" => at = "free"
      /\ \A at : Comes(at, f) /\ f.is = "header" => at = "header"
  BY DEF Comes, At
<1> QED BY <1>1, <1>2

(* One field is handled.                                                   *)
LEMMA GrammarStep ==
  ASSUME NEW d, NEW e, NEW p, NEW k \in Nat, Len(p) \in Nat, k < Len(p), NEW at,
         Grammar(d, p, k, at), Reads(d, p[k + 1], e)
  PROVE  /\ Grammar(e, p, k + 1, at) /\ Rests(e, p, k + 1, at)
         /\ \A i \in k + 2 .. Len(p) + 1 :
              /\ i <= Len(p) => p[i].is = "header"
              /\ i = Len(p) + 1 => at = "header"
              /\ Due(d, k, i)
              => Due(e, k + 1, i)
<1> DEFINE f == p[k + 1]
           n == Len(p)
<1>1. Awaits(d.parse, f) /\ Leads(p[n]) = at
      /\ \A i \in k + 1 .. n - 1 : Comes(Leads(p[i]), p[i + 1])
  BY DEF Grammar
<1>2. /\ Fits(e.parse, Leads(f))
      /\ Leads(f) = "free" => e.parse = "START"
      /\ f.is = "sof" /\ d.parse = "START" => e.parse = "HEADER"
  BY <1>1, FieldFits
<1> HIDE DEF f
<1>3. k + 1 = n \/ (k + 1 < n /\ k + 1 \in k + 1 .. n - 1)
  OBVIOUS
<1>4. (k + 1) + 1 = k + 2 /\ \A i \in k + 2 .. n - 1 : i \in k + 1 .. n - 1
  OBVIOUS
<1>5. Grammar(e, p, k + 1, at) /\ Rests(e, p, k + 1, at)
  <2>1. CASE k + 1 = n
    <3>1. Leads(f) = at
      BY <1>1, <2>1 DEF f
    <3>2. ~(k + 1 < n) /\ \A i \in (k + 1) + 1 .. n - 1 : FALSE
      BY <2>1
    <3> QED BY <1>2, <2>1, <3>1, <3>2 DEF Grammar, Rests
  <2>2. CASE k + 1 < n
    <3>1. Comes(Leads(f), p[(k + 1) + 1])
      BY <1>1, <1>3, <2>2 DEF f
    <3>2. Leads(f) \in At \cup {"free"}
      BY LeadsIn
    <3>3. Awaits(e.parse, p[(k + 1) + 1])
      BY <1>2, <3>1, <3>2 DEF Awaits
    <3>4. k + 1 # n
      BY <2>2
    <3> QED BY <1>1, <1>4, <3>3, <3>4 DEF Grammar, Rests
  <2> QED BY <1>3, <2>1, <2>2
<1>6. ASSUME NEW i \in k + 2 .. n + 1, i <= n => p[i].is = "header", i = n + 1 => at = "header",
             Due(d, k, i)
      PROVE  Due(e, k + 1, i)
  <2>1. p[i - 1].is = "sof"
    <3>1. CASE i = n + 1
      <4>1. i - 1 = n
        BY <3>1
      <4> QED BY <1>1, <1>6, <3>1, <4>1, LeadsIn
    <3>2. CASE i # n + 1
      <4>1. i - 1 \in k + 1 .. n - 1 /\ (i - 1) + 1 = i /\ i <= n
        BY <3>2
      <4>2. Comes(Leads(p[i - 1]), p[i])
        BY <1>1, <4>1
      <4>3. Leads(p[i - 1]) = "header"
        BY <1>6, <4>1, <4>2, LeadsIn
      <4> QED BY <4>3, LeadsIn
    <3> QED BY <3>1, <3>2
  <2>2. ASSUME i = k + 2 PROVE e.parse = "HEADER"
    <3>1. i - 1 = k + 1
      BY <2>2
    <3>2. d.parse = "START"
      BY <1>6, <2>2 DEF Due
    <3> QED BY <1>2, <2>1, <3>1, <3>2 DEF f
  <2>3. ASSUME i = k + 3 PROVE e.parse = "START"
    <3>1. i - 1 = k + 2 /\ (k + 1) + 1 = k + 2 /\ k + 1 \in k + 1 .. n - 1
      BY <2>3
    <3>2. Comes(Leads(f), p[k + 2])
      BY <1>1, <3>1 DEF f
    <3>3. Leads(f) = "free"
      BY <2>1, <3>1, <3>2, LeadsIn
    <3> QED BY <1>2, <3>3
  <2>4. (k + 1) + 1 = k + 2 /\ (k + 1) + 2 = k + 3
    OBVIOUS
  <2> QED BY <2>2, <2>3, <2>4 DEF Due
<1> QED BY <1>5, <1>6

-----------------------------------------------------------------------------
(***************************************************************************)
(* Something is watched that will wake the handler, while a frame is       *)
(* queued: a line, or the header of this board's frame, which is still to  *)
(* be met (out: it is the next field on the bus).                          *)
(***************************************************************************)
Headed(d, p, k, out) ==
  \/ \E i \in k + 1 .. Len(p) : Own(p, i) /\ Due(d, k, i)
  \/ out /\ Due(d, k, Len(p) + 1)

SofAhead(p, k) == \E j \in k + 1 .. Len(p) : p[j].is = "sof"

Watched(d, p, k) ==
  /\ \/ "MAYTX" \in d.inte \/ "TXPENDING" \in d.inte
     \/ d.tx = "QUEUED" /\ (d.sm \in {"send", "stuck"} \/ SofAhead(p, k))
  /\ d.parse = "HEADER" => "MAYTX" \in d.inte

Busy(d, p, k, out) ==
  d.tx = "QUEUED" => /\ d.sm \in {"send", "sending", "sent", "conflict", "stuck"}
                     /\ d.sm \in {"sending", "sent"} => d.sync # "lost" /\ Headed(d, p, k, out)

WakeInv(d, p, k, out) == Watched(d, p, k) /\ Busy(d, p, k, out)

LEMMA ReadsKeeps ==
  ASSUME NEW d, Driver(d), NEW f, NEW e, Reads(d, f, e)
  PROVE  /\ Driver(e) /\ e.sm = d.sm /\ e.load = d.load /\ e.sync = d.sync /\ e.rx = d.rx
         /\ e.isr = d.isr /\ e.held = d.held /\ e.stall = d.stall /\ e.on = d.on
         /\ d.irq \subseteq e.irq /\ (e.tx = d.tx \/ TakesOwn(d, f, e))
<1> DEFINE Kept == {"sm", "load", "sync", "rx", "isr", "held", "stall", "on", "tx"}
           R == Reporting \cup {"inte", "parse"}
           Good(x) == /\ Driver(x) /\ x.sm = d.sm /\ x.load = d.load /\ x.sync = d.sync
                      /\ x.rx = d.rx /\ x.isr = d.isr /\ x.held = d.held /\ x.stall = d.stall
                      /\ x.on = d.on
<1>1. ASSUME NEW S, S \cap Kept = {}, Only(d, e, S)
      PROVE  Good(e) /\ e.tx = d.tx
  BY <1>1 DEF Only, Fields
<1>2. ASSUME NEW S, "irq" \notin S, Only(d, e, S)
      PROVE  d.irq \subseteq e.irq
  BY <1>2 DEF Only, Fields
<1>3. CASE f.is = "part" /\ e = d
  BY <1>3
<1>4. CASE Discards(d, f, e)
  BY <1>1, <1>2, <1>4 DEF Discards
<1>5. CASE Settles(d, f, e)
  BY <1>1, <1>2, <1>5 DEF Settles
<1>6. CASE Starts(d, f, e)
  BY <1>1, <1>2, <1>6 DEF Starts
<1>7. CASE TakesOwn(d, f, e)
  <2>1. Only(d, e, {"msg", "tx", "report", "key", "parse"})
    BY <1>7 DEF TakesOwn
  <2>2. Good(e)
    BY <2>1 DEF Only, Fields
  <2> QED BY <1>2, <1>7, <2>1, <2>2
<1>8. CASE TakesOther(d, f, e)
  BY <1>1, <1>8 DEF TakesOther
<1>9. CASE CrcGood(d, f, e)
  BY <1>1, <1>2, <1>9 DEF CrcGood
<1>10. CASE AckGood(d, f, e)
  BY <1>1, <1>2, <1>10 DEF AckGood
<1>11. CASE Eof0Good(d, f, e)
  BY <1>1, <1>2, <1>11 DEF Eof0Good
<1>12. CASE Ends(d, f, e)
  <2>1. Only(d, e, R) /\ R \cap Kept = {} /\ "irq" \notin R
    BY <1>12 DEF Ends, Reporting
  <2> QED BY <1>1, <1>2, <2>1
<1> QED BY <1>3, <1>4, <1>5, <1>6, <1>7, <1>8, <1>9, <1>10, <1>11, <1>12 DEF Reads

LEMMA ReadsWatch ==
  ASSUME NEW d, Driver(d), NEW f, NEW e, Reads(d, f, e), d.parse = "HEADER" => "MAYTX" \in d.inte
  PROVE  /\ \/ "MAYTX" \in e.inte \/ "TXPENDING" \in e.inte
            \/ e.inte = d.inte /\ e.tx = d.tx /\ f.is # "sof"
         /\ e.parse = "HEADER" => "MAYTX" \in e.inte
<1>1. CASE f.is = "part" /\ e = d
  BY <1>1
<1>2. CASE Discards(d, f, e)
  BY <1>2 DEF Discards
<1>3. CASE Settles(d, f, e)
  BY <1>3 DEF Settles, Only, Fields
<1>4. CASE Starts(d, f, e)
  BY <1>4 DEF Starts
<1>5. CASE TakesOwn(d, f, e)
  BY <1>5 DEF TakesOwn, Only, Fields
<1>6. CASE TakesOther(d, f, e)
  BY <1>6 DEF TakesOther
<1>7. CASE CrcGood(d, f, e)
  BY <1>7 DEF CrcGood, Only, Fields
<1>8. CASE AckGood(d, f, e)
  BY <1>8 DEF AckGood, Only, Fields
<1>9. CASE Eof0Good(d, f, e)
  BY <1>9 DEF Eof0Good, Only, Fields
<1>10. CASE Ends(d, f, e)
  <2>1. "tx" \notin Reporting \cup {"inte", "parse"}
    BY DEF Reporting
  <2> QED BY <1>10, <2>1 DEF Ends, Only, Fields
<1> QED BY <1>1, <1>2, <1>3, <1>4, <1>5, <1>6, <1>7, <1>8, <1>9, <1>10 DEF Reads

LEMMA WakeStep ==
  ASSUME NEW d, NEW e, NEW p, NEW k \in Nat, Len(p) \in Nat, k < Len(p), NEW at, NEW out,
         Driver(d), ~d.stall, Grammar(d, p, k, at), Reads(d, p[k + 1], e),
         Recognised(d, p, k), WakeInv(d, p, k, out), out => at = "header"
  PROVE  WakeInv(e, p, k + 1, out)
<1> DEFINE f == p[k + 1]
           n == Len(p)
<1>1. /\ e.sm = d.sm /\ e.sync = d.sync /\ (e.tx = d.tx \/ TakesOwn(d, f, e))
      /\ \/ "MAYTX" \in e.inte \/ "TXPENDING" \in e.inte
         \/ e.inte = d.inte /\ e.tx = d.tx /\ f.is # "sof"
      /\ e.parse = "HEADER" => "MAYTX" \in e.inte
  BY ReadsKeeps, ReadsWatch DEF WakeInv, Watched
<1>2. \A i \in k + 2 .. n + 1 :
        /\ i <= n => p[i].is = "header"
        /\ i = n + 1 => at = "header"
        /\ Due(d, k, i)
        => Due(e, k + 1, i)
  BY GrammarStep
<1>3. \A i \in k + 1 .. n : i = k + 1 \/ (i \in k + 2 .. n + 1 /\ i \in (k + 1) + 1 .. n /\ i <= n /\ i # n + 1)
  OBVIOUS
<1>4. n + 1 \in k + 2 .. n + 1 /\ ~(n + 1 <= n)
  OBVIOUS
<1>5. ASSUME SofAhead(p, k), f.is # "sof" PROVE SofAhead(p, k + 1)
  BY <1>3, <1>5 DEF SofAhead
<1>6. Watched(e, p, k + 1)
  BY <1>1, <1>5 DEF WakeInv, Watched
<1>7. ASSUME e.tx = "QUEUED", e.sm \in {"sending", "sent"} PROVE Headed(e, p, k + 1, out)
  <2>1. d.tx = "QUEUED" /\ ~TakesOwn(d, f, e)
    BY <1>1, <1>7 DEF TakesOwn
  <2>2. Headed(d, p, k, out)
    BY <1>1, <1>7, <2>1 DEF WakeInv, Busy
  <2>3. CASE out /\ Due(d, k, n + 1)
    BY <1>2, <1>4, <2>3 DEF Headed
  <2>4. ASSUME NEW i \in k + 1 .. n, Own(p, i), Due(d, k, i) PROVE Headed(e, p, k + 1, out)
    <3>1. CASE i = k + 1
      <4>1. f.is = "header" /\ f.frame.own /\ d.parse = "HEADER"
        BY <2>4, <3>1 DEF Own, Due
      <4>2. Live(d, p, k, k + 1)
        BY <2>4, <3>1, <4>1 DEF Live, Dazed
      <4>3. k + 1 \in k + 1 .. n
        OBVIOUS
      <4>4. f.frame.n = Head(d.queue) /\ ~f.frame.same
        BY <4>2, <4>3 DEF Recognised
      <4>5. ~Discards(d, f, e) /\ ~TakesOther(d, f, e)
        BY <2>1, <4>1, <4>4 DEF Discards, Wrong, TakesOther, Local
      <4> HIDE DEF f
      <4>6. /\ ~Settles(d, f, e) /\ ~Starts(d, f, e) /\ ~CrcGood(d, f, e) /\ ~AckGood(d, f, e)
            /\ ~Eof0Good(d, f, e) /\ ~Ends(d, f, e)
        BY <4>1 DEF Settles, Starts, CrcGood, AckGood, Eof0Good, Ends
      <4> QED BY <2>1, <4>1, <4>5, <4>6 DEF Reads, f
    <3>2. CASE i # k + 1
      <4>1. Due(e, k + 1, i) /\ i \in (k + 1) + 1 .. n
        BY <1>2, <1>3, <2>4, <3>2 DEF Own
      <4> QED BY <2>4, <4>1 DEF Headed
    <3> QED BY <3>1, <3>2
  <2> QED BY <2>2, <2>3, <2>4 DEF Headed
<1>8. Busy(e, p, k + 1, out)
  <2>1. e.tx = "QUEUED" => d.tx = "QUEUED"
    BY <1>1 DEF TakesOwn
  <2> QED BY <1>1, <1>7, <2>1 DEF WakeInv, Busy
<1> QED BY <1>6, <1>8 DEF WakeInv

(* The driver d, on the way from c through the fields that were received.  *)
Steady(c, d) ==
  /\ ~d.stall /\ d.sync = c.sync /\ d.isr = c.isr /\ d.rx = <<>> /\ d.on = c.on
  /\ d.sm = c.sm /\ d.load = c.load /\ c.irq \subseteq d.irq

(* The reset of a quiet line is the last of what is under way.             *)
QuietLast(d) ==
  \A i \in 1 .. Len(Pipe(d)) : Pipe(d)[i].is = "quiet" => i = Len(Pipe(d)) /\ d.sync = "quiet"

(* The loop goes through n fields, from u[0] to u[n], by drivers of which  *)
(* all holds that is known of one between two interrupts; then the FIFO is *)
(* empty, or the reset of a quiet line follows.                            *)
Loop(u, n) ==
  LET p == Pipe(cd)
  IN /\ u[0] = Flushed(cd) /\ n \in Nat /\ Len(p) \in Nat /\ n <= Len(p)
     /\ \A i \in 0 .. n : /\ DriverInv(u[i], sent, withdrawn) /\ Steady(cd, u[i])
                          /\ FlowInv(u[i], p, i, Passed, HeaderOut)
     /\ \A i \in 1 .. n : Reads(u[i - 1], p[i], u[i])
     /\ \/ cd' = u[n] /\ n = Len(cd.rx) /\ n # 0
        \/ cd' = LineQuiet(u[n]) /\ n + 1 = Len(p) /\ p[n + 1].is = "quiet" /\ cd.isr = <<>>

LEMMA QuietSplits ==
  ASSUME NEW a, IsASequence(a), NEW l \in Nat, l # 0, l <= Len(a),
         \A i \in 1 .. Len(a) : a[i].is = "quiet" => i = Len(a)
  PROVE  \E n \in Nat : /\ n <= l
                        /\ \A i \in 1 .. n : i \in 1 .. l /\ a[i].is # "quiet"
                        /\ n = l \/ (n + 1 = l /\ l = Len(a) /\ a[l].is = "quiet")
<1>1. PICK T : a \in Seq(T)
  BY DEF IsASequence
<1>2. Len(a) \in Nat
  BY <1>1
<1>3. CASE a[l].is # "quiet"
  <2>1. ASSUME NEW i \in 1 .. l PROVE a[i].is # "quiet"
    <3>1. i \in 1 .. Len(a) /\ (i = Len(a) => i = l)
      BY <1>2
    <3> QED BY <1>3, <3>1
  <2> QED BY <2>1
<1>4. CASE a[l].is = "quiet"
  <2>1. l \in 1 .. Len(a) /\ l - 1 \in Nat /\ l - 1 <= l /\ (l - 1) + 1 = l
    BY <1>2
  <2>2. l = Len(a)
    BY <1>4, <2>1
  <2>3. ASSUME NEW i \in 1 .. l - 1 PROVE i \in 1 .. l /\ a[i].is # "quiet"
    <3>1. i \in 1 .. Len(a) /\ i # Len(a) /\ i \in 1 .. l
      BY <2>2
    <3> QED BY <3>1
  <2> QED BY <1>4, <2>1, <2>2, <2>3
<1> QED BY <1>3, <1>4

LEMMA LoopReads ==
  ASSUME IrqRxData, Base, FlowOK, ~cd.stall, QuietLast(cd)
  PROVE  \E u, n : Loop(u, n)
<1>1. IsASequence(cd.rx) /\ IsASequence(cd.isr) /\ DriverInv(cd, sent, withdrawn) /\ Driver(cd)
      /\ sent \in Nat /\ Passed \in Int
  BY PassedInt DEF Base, Machine, DriverInv, QueueInv, Counted
<1>2. PICK u : /\ cd' = u[Len(cd.rx)] /\ u[0] = Flushed(cd)
               /\ \A i \in 1 .. Len(cd.rx) : u[i] = Processed(u[i - 1], cd.rx[i])
  BY <1>1, IrqRxDataRuns
<1> DEFINE c == cd
           s == c.rx
           l == Len(s)
           p == Pipe(c)
           m == Passed
           h == HeaderOut
           ns == sent
           W == withdrawn
           At0(e, i) == DriverInv(e, ns, W) /\ Steady(c, e) /\ FlowInv(e, p, i, m, h)
<1>3. ASSUME NEW x, IsASequence(x), x # <<>> PROVE Len(x) # 0
  <2>1. PICK S : x \in Seq(S)
    BY <1>3 DEF IsASequence
  <2> QED BY <1>3, <2>1
<1>4. /\ l \in Nat /\ l # 0 /\ Len(p) \in Nat /\ l <= Len(p) /\ IsASequence(p)
      /\ \A i \in 1 .. l : p[i] = s[i]
      /\ l = Len(p) => c.isr = <<>>
  <2> DEFINE a == c.rx
             b == c.isr
  <2>1. IsASequence(a) /\ IsASequence(b) /\ Len(a) # 0 /\ (b # <<>> => Len(b) # 0)
    BY <1>1, <1>3 DEF IrqRxData
  <2>2. Pipe(c) = a \o b
    BY DEF Pipe
  <2> HIDE DEF a, b
  <2>3. /\ Len(a) \in Nat /\ Len(b) \in Nat /\ Len(a \o b) = Len(a) + Len(b)
        /\ \A i \in 1 .. Len(a) : (a \o b)[i] = a[i]
        /\ IsASequence(a \o b)
    BY <2>1, JoinedAt, Joined
  <2>4. Len(a \o b) \in Nat /\ Len(a) <= Len(a \o b) /\ (Len(a) = Len(a \o b) => b = <<>>)
    BY <2>1, <2>3
  <2> QED BY <2>1, <2>2, <2>3, <2>4, Zenon DEF a, b
<1>a. PICK n \in Nat : /\ n <= l
                       /\ \A i \in 1 .. n : i \in 1 .. l /\ p[i].is # "quiet"
                       /\ n = l \/ (n + 1 = l /\ l = Len(p) /\ p[l].is = "quiet")
  <2>1. \A i \in 1 .. Len(p) : p[i].is = "quiet" => i = Len(p)
    BY DEF QuietLast
  <2> HIDE DEF p, l
  <2> QED BY <1>4, <2>1, QuietSplits
<1> DEFINE T == { i \in 0 .. n : At0(u[i], i) }
<1>5. c.sync # "lost" /\ FlowInv(c, p, 0, m, h) /\ DriverInv(c, ns, W) /\ Driver(c) /\ ~c.stall
  BY <1>1 DEF FlowOK, Signals, IrqRxData
<1>6. m \in Int /\ ns \in Nat
  BY <1>1
<1>b. n <= Len(p) /\ \A i \in 1 .. n : p[i] = s[i] /\ i \in 1 .. l /\ p[i].is # "quiet"
  BY <1>4, <1>a
<1> HIDE DEF m, h, ns, W, c
<1>7. 0 \in T
  <2> DEFINE e == Flushed(c)
  <2>1. Only(c, e, {"rx"}) /\ e.rx = <<>>
    BY <1>5, FlushedDoes
  <2>2. u[0] = e
    BY <1>2 DEF c
  <2> HIDE DEF e, p
  <2>3. /\ e.sm = c.sm /\ e.load = c.load /\ e.sync = c.sync /\ e.isr = c.isr /\ e.on = c.on
        /\ e.stall = c.stall /\ e.irq = c.irq
    BY <2>1 DEF Only, Fields
  <2>4. DriverInv(e, ns, W)
    BY <1>5, <2>1, <2>3, DriverKept
  <2>5. FlowInv(e, p, 0, m, h)
    BY <1>5, <1>6, <2>1, <2>3, FlowKept
  <2>6. Steady(c, e)
    BY <1>5, <2>1, <2>3 DEF Steady
  <2> QED BY <1>4, <2>2, <2>4, <2>5, <2>6
<1>8. ASSUME NEW i \in 1 .. n, i - 1 \in T PROVE i \in T /\ Reads(u[i - 1], p[i], u[i])
  <2> DEFINE d == u[i - 1]
             k == i - 1
             e == ProcessRx(d, p[k + 1])
  <2>1. At0(d, k) /\ k \in Nat /\ k + 1 = i /\ k < Len(p) /\ i \in 0 .. n
    BY <1>4, <1>8, <1>b
  <2>2. d.sync # "lost" /\ d.rx = <<>> /\ ~d.stall
    BY <1>5, <2>1 DEF Steady
  <2>3. u[i] = e
    <3>1. u[i] = Processed(d, p[k + 1])
      BY <1>2, <1>b, <2>1 DEF c
    <3> QED BY <2>2, <3>1 DEF Processed
  <2>q. p[k + 1].is # "quiet"
    BY <1>b, <2>1
  <2> HIDE DEF d, p, k, s, l
  <2>4. DriverInv(d, ns, W) /\ Steady(c, d) /\ FlowInv(d, p, k, m, h) /\ Driver(d)
    BY <2>1 DEF DriverInv, QueueInv
  <2>5. \/ e.sync = "lost"
        \/ FlowInv(e, p, k + 1, m, h)
    BY <1>4, <1>6, <2>1, <2>2, <2>4, LoopStep
  <2>6. DriverInv(e, ns, W)
    BY <1>6, <2>4, ProcessRxKeeps
  <2>7. Reads(d, p[k + 1], e)
    BY <2>2, <2>4, <2>q, ProcessRxIs
  <2> HIDE DEF e
  <2>8. /\ e.sm = d.sm /\ e.load = d.load /\ e.sync = d.sync /\ e.rx = d.rx /\ e.isr = d.isr
        /\ e.stall = d.stall /\ e.on = d.on /\ d.irq \subseteq e.irq
    BY <2>4, <2>7, ReadsKeeps
  <2>9. Steady(c, e)
    BY <2>4, <2>8 DEF Steady
  <2>10. FlowInv(e, p, i, m, h)
    BY <2>1, <2>2, <2>5, <2>8
  <2> QED BY <2>1, <2>3, <2>6, <2>7, <2>9, <2>10 DEF d
<1> HIDE DEF T
<1>9. \A i \in 0 .. n : i \in T
  BY <1>4, <1>7, <1>8, CountUp
<1>10. \A i \in 0 .. n : At0(u[i], i)
  BY <1>9 DEF T
<1>11. \A i \in 1 .. n : i - 1 \in 0 .. n
  BY <1>4
<1>12. \A i \in 1 .. n : Reads(u[i - 1], p[i], u[i])
  BY <1>8, <1>9, <1>11
<1>13. \/ cd' = u[n] /\ n = l /\ n # 0
       \/ cd' = LineQuiet(u[n]) /\ n + 1 = Len(p) /\ p[n + 1].is = "quiet" /\ c.isr = <<>>
  <2>1. CASE n = l
    BY <1>2, <1>4, <2>1 DEF c
  <2>2. CASE n + 1 = l /\ l = Len(p) /\ p[l].is = "quiet"
    <3> DEFINE d == u[n]
               f == p[l]
    <3>1. l \in 1 .. l /\ n = l - 1 /\ n \in 0 .. n
      BY <1>4, <2>2
    <3>2. cd' = Processed(d, f)
      BY <1>2, <1>4, <3>1 DEF c
    <3>3. d.sync # "lost"
      BY <1>5, <1>10, <3>1 DEF Steady
    <3>4. f.is = "quiet"
      BY <2>2
    <3> HIDE DEF d, f
    <3>5. cd' = ProcessRx(d, f)
      BY <3>2, <3>3 DEF Processed
    <3>6. cd' = LineQuiet(d)
      BY <3>4, <3>5, ProcessRxDoes DEF Parses
    <3> QED BY <1>4, <2>2, <3>6 DEF d
  <2> QED BY <1>a, <2>1, <2>2
<1>14. Loop(u, n)
  BY <1>2, <1>4, <1>b, <1>10, <1>12, <1>13 DEF Loop, c, m, h, ns, W
<1> QED BY <1>14

-----------------------------------------------------------------------------
(***************************************************************************)
(* The order of the fields and what is watched: through the loop, and when *)
(* the fields that have been handled are dropped.                          *)
(***************************************************************************)
(* What these invariants depend on.                                        *)
Looks(d, e) ==
  e.parse = d.parse /\ e.sync = d.sync /\ e.tx = d.tx /\ e.sm = d.sm /\ e.inte = d.inte

LEMMA LooksSame ==
  ASSUME NEW d, NEW e, Looks(d, e), NEW p, NEW k, NEW at, NEW out
  PROVE  /\ Grammar(d, p, k, at) => Grammar(e, p, k, at)
         /\ Rests(d, p, k, at) => Rests(e, p, k, at)
         /\ Follows(d, p, k, at) => Follows(e, p, k, at)
         /\ WakeInv(d, p, k, out) => WakeInv(e, p, k, out)
<1>1. Headed(d, p, k, out) => Headed(e, p, k, out)
  BY DEF Headed, Due, Looks
<1>2. WakeInv(d, p, k, out) => WakeInv(e, p, k, out)
  BY <1>1 DEF WakeInv, Watched, Busy, Looks
<1> QED BY <1>2 DEF Grammar, Rests, Follows, Looks

LEMMA Rebased ==
  ASSUME NEW d, NEW a, NEW b, IsASequence(a), IsASequence(b), NEW at, NEW out
  PROVE  /\ Grammar(d, a \o b, Len(a), at) => Grammar(d, b, 0, at)
         /\ Rests(d, a \o b, Len(a), at) => Rests(d, b, 0, at)
         /\ WakeInv(d, a \o b, Len(a), out) => WakeInv(d, b, 0, out)
<1> DEFINE p == a \o b
           l == Len(a)
           n == Len(b)
<1>1. /\ l \in Nat /\ n \in Nat /\ Len(p) = l + n
      /\ \A j \in 1 .. n : p[l + j] = b[j]
  BY JoinedAt
<1> HIDE DEF p, l, n
<1>2. /\ \A i \in l + 1 .. l + n : i - l \in 1 .. n /\ l + (i - l) = i
      /\ \A i \in 1 .. n : i \in 0 + 1 .. n
      /\ (l = l + n <=> 0 = n) /\ (l < l + n <=> 0 < n)
      /\ 0 < n => n \in 1 .. n /\ 1 \in 1 .. n
      /\ 0 + 1 = 1 /\ 0 + 2 = 2
  BY <1>1
<1>3. \A i \in 1 .. n - 1 : l + i \in l + 1 .. (l + n) - 1 /\ i \in 1 .. n /\ i + 1 \in 1 .. n
                            /\ l + (i + 1) = (l + i) + 1
  BY <1>1
<1>4. \A i \in 1 .. n + 1 : (l + i = l + 1 <=> i = 1) /\ (l + i = l + 2 <=> i = 2)
  BY <1>1
<1>5. l + (n + 1) = (l + n) + 1 /\ n + 1 \in 1 .. n + 1 /\ \A i \in 1 .. n : i \in 1 .. n + 1
  BY <1>1
<1>6. Grammar(d, p, l, at) => Grammar(d, b, 0, at)
  <2> SUFFICES ASSUME Grammar(d, p, l, at) PROVE Grammar(d, b, 0, at)
    OBVIOUS
  <2>1. \A i \in 1 .. n - 1 : Comes(Leads(b[i]), b[i + 1])
    <3> TAKE i \in 1 .. n - 1
    <3>1. Comes(Leads(p[l + i]), p[(l + i) + 1])
      BY <1>1, <1>3 DEF Grammar
    <3>2. p[l + i] = b[i] /\ p[l + (i + 1)] = b[i + 1] /\ l + (i + 1) = (l + i) + 1
      BY <1>1, <1>3
    <3> QED BY <3>1, <3>2
  <2>2. 0 < n => Leads(b[n]) = at /\ Awaits(d.parse, b[0 + 1])
    BY <1>1, <1>2 DEF Grammar
  <2>3. 0 = n => Fits(d.parse, at)
    BY <1>1, <1>2 DEF Grammar
  <2>4. 0 + 1 = 1
    OBVIOUS
  <2> QED BY <2>1, <2>2, <2>3, <2>4 DEF Grammar, n
<1>7. Rests(d, p, l, at) => Rests(d, b, 0, at)
  BY <1>1, <1>2 DEF Rests, n
<1>8. \A i \in 1 .. n + 1 : Due(d, l, l + i) <=> Due(d, 0, i)
  BY <1>2, <1>4 DEF Due
<1>9. Headed(d, p, l, out) => Headed(d, b, 0, out)
  <2>1. \A i \in 1 .. n : Own(p, l + i) <=> Own(b, i)
    BY <1>1 DEF Own
  <2>2. ASSUME NEW i \in l + 1 .. Len(p), Own(p, i), Due(d, l, i) PROVE Headed(d, b, 0, out)
    <3>1. i - l \in 0 + 1 .. Len(b) /\ i - l \in 1 .. n /\ l + (i - l) = i
      BY <1>1, <1>2, <2>2 DEF n
    <3>2. i - l \in 1 .. n + 1
      BY <1>5, <3>1
    <3>3. Own(b, i - l) /\ Due(d, 0, i - l)
      BY <1>8, <2>1, <2>2, <3>1, <3>2
    <3> QED BY <3>1, <3>3 DEF Headed
  <2>3. ASSUME out, Due(d, l, Len(p) + 1) PROVE Headed(d, b, 0, out)
    <3>1. Due(d, 0, n + 1)
      BY <1>1, <1>5, <1>8, <2>3
    <3> QED BY <2>3, <3>1 DEF Headed, n
  <2> QED BY <2>2, <2>3 DEF Headed
<1>10. SofAhead(p, l) => SofAhead(b, 0)
  <2> SUFFICES ASSUME NEW i \in l + 1 .. Len(p), p[i].is = "sof" PROVE SofAhead(b, 0)
    BY DEF SofAhead
  <2>1. i - l \in 0 + 1 .. Len(b) /\ i - l \in 1 .. n /\ l + (i - l) = i
    BY <1>1, <1>2 DEF n
  <2>2. b[i - l].is = "sof"
    BY <1>1, <2>1
  <2> QED BY <2>1, <2>2 DEF SofAhead
<1>11. WakeInv(d, p, l, out) => WakeInv(d, b, 0, out)
  BY <1>9, <1>10 DEF WakeInv, Watched, Busy
<1> QED BY <1>6, <1>7, <1>11 DEF p, l

(* What is left after the loop.                                            *)
LEMMA LoopLeaves ==
  ASSUME Base, NEW e, Steady(cd, e)
  PROVE  Pipe(e) = cd.isr /\ IsASequence(cd.rx) /\ IsASequence(cd.isr)
<1>1. IsASequence(cd.rx) /\ IsASequence(cd.isr)
  BY DEF Base, Machine
<1>2. e.rx = <<>> /\ e.isr = cd.isr
  BY DEF Steady
<1>3. Pipe(e) = cd.isr
  BY <1>1, <1>2, PipeOf DEF Pipe
<1> QED BY <1>1, <1>3

(* What the reset of a quiet line comes to, and where it may be.           *)
LEMMA ResetIs ==
  ASSUME NEW d, Driver(d)
  PROVE  LET e == LineQuiet(d)
         IN /\ Reset(e) /\ e.inte = {"MAYTX", "TXPENDING"}
            /\ e.queue = d.queue /\ e.tx = d.tx /\ e.on = d.on /\ e.load = d.load
            /\ e.heard = d.heard /\ e.msg = d.msg /\ e.held = d.held
            /\ d.sm \in {"send", "conflict", "stuck"} => e.sm \in {"conflict", "stuck"}
<1> DEFINE s == SmSetup(d)
           e == LineQuiet(d)
<1>1. /\ Only(d, e, {"report", "slow", "key", "inte", "parse", "irq", "stall", "sync", "isr",
                     "rx", "sm"})
      /\ e.report = "IDLE" /\ e.parse = "DISCARD" /\ e.inte = {"MAYTX", "TXPENDING"}
      /\ e.irq = {"TXPENDING"} /\ e.stall = FALSE /\ e.key = NoKey /\ e.sync = "lost"
      /\ e.isr = <<>> /\ e.rx = <<>> /\ e.sm \in {"stuck", "conflict", "off"}
  BY LineQuietDoes
<1>2. e = GoDiscard(s)
  BY DEF LineQuiet
<1>3. Driver(s) /\ ~s.stall /\ (d.sm \in {"send", "conflict", "stuck"} => s.sm \in {"conflict", "stuck"})
  BY DEF SmSetup, Driver, Fields
<1> HIDE DEF s, e
<1>4. e.sm = s.sm
  <2>1. Only(s, GoDiscard(s), {"report", "slow", "key", "inte", "parse"})
    BY <1>3, GoDiscardDoes, Zenon
  <2> QED BY <1>2, <2>1 DEF Only, Fields
<1>5. /\ e.queue = d.queue /\ e.tx = d.tx /\ e.on = d.on /\ e.load = d.load
      /\ e.heard = d.heard /\ e.msg = d.msg /\ e.held = d.held
  BY <1>1 DEF Only, Fields
<1> QED BY <1>1, <1>3, <1>4, <1>5 DEF Reset, e

LEMMA QuietFree ==
  ASSUME IrqRxData, FlowOK, QuietLast(cd), NEW i \in 1 .. Len(Pipe(cd)), Pipe(cd)[i].is = "quiet"
  PROVE  bus.at = "free" /\ ~HeaderOut
<1>1. bus = Free
  BY DEF QuietLast, FlowOK, Still
<1> QED BY <1>1, FreeAt DEF HeaderOut

LEMMA ResetWakes ==
  ASSUME NEW d, Driver(d), NEW p, NEW n \in Nat, n + 1 = Len(p), p[n + 1].is = "quiet",
         WakeInv(d, p, n, FALSE), NEW at
  PROVE  LET e == LineQuiet(d) IN Follows(e, Pipe(e), 0, at) /\ WakeInv(e, Pipe(e), 0, FALSE)
<1> DEFINE e == LineQuiet(d)
<1>1. /\ Reset(e) /\ e.inte = {"MAYTX", "TXPENDING"} /\ e.tx = d.tx
      /\ d.sm \in {"send", "conflict", "stuck"} => e.sm \in {"conflict", "stuck"}
  BY ResetIs
<1> HIDE DEF e
<1>2. ~Headed(d, p, n, FALSE)
  <2>1. \A i \in n + 1 .. Len(p) : i = n + 1
    OBVIOUS
  <2> QED BY <2>1 DEF Headed, Own
<1>3. d.tx = "QUEUED" => d.sm \in {"send", "conflict", "stuck"}
  BY <1>2 DEF WakeInv, Busy
<1>4. WakeInv(e, Pipe(e), 0, FALSE)
  BY <1>1, <1>3 DEF WakeInv, Watched, Busy, Reset
<1>5. Follows(e, Pipe(e), 0, at)
  BY <1>1 DEF Follows, Reset
<1> QED BY <1>4, <1>5 DEF e

LEMMA LoopWakes ==
  ASSUME IrqRxData, Base, FlowOK, ~cd.stall, QuietLast(cd),
         Follows(cd, Pipe(cd), 0, bus.at), WakeInv(cd, Pipe(cd), 0, HeaderOut)
  PROVE  /\ Follows(cd', Pipe(cd'), 0, bus.at) /\ WakeInv(cd', Pipe(cd'), 0, HeaderOut)
         /\ QuietLast(cd') /\ (Steady(cd, cd') \/ Reset(cd'))
<1>1. PICK u, n : Loop(u, n)
  BY LoopReads
<1> DEFINE p == Pipe(cd)
           at == bus.at
           out == HeaderOut
           At0(e, i) == Grammar(e, p, i, at) /\ WakeInv(e, p, i, out)
           T == { i \in 0 .. n : At0(u[i], i) }
<1>2. /\ n \in Nat /\ Len(p) \in Nat /\ n <= Len(p)
      /\ \/ cd' = u[n] /\ n = Len(cd.rx) /\ n # 0
         \/ cd' = LineQuiet(u[n]) /\ n + 1 = Len(p) /\ p[n + 1].is = "quiet" /\ cd.isr = <<>>
  BY <1>1 DEF Loop
<1>3. \A i \in 0 .. n : /\ Driver(u[i]) /\ Steady(cd, u[i]) /\ ~u[i].stall /\ Recognised(u[i], p, i)
  BY <1>1 DEF Loop, DriverInv, QueueInv, Steady, FlowInv
<1>4. \A i \in 1 .. n : Reads(u[i - 1], p[i], u[i])
  BY <1>1 DEF Loop
<1>5. u[0] = Flushed(cd)
  BY <1>1 DEF Loop
<1>6. Grammar(cd, p, 0, at) /\ WakeInv(cd, p, 0, out) /\ cd.sync # "lost" /\ Driver(cd) /\ (out => at = "header")
  BY DEF Follows, FlowOK, Signals, IrqRxData, Base, DriverInv, QueueInv, HeaderOut
<1>q. p = cd.rx \o cd.isr
  BY DEF Pipe
<1>r. ASSUME NEW i \in 1 .. Len(p), p[i].is = "quiet"
      PROVE  at = "free" /\ out = FALSE /\ i = Len(p) /\ cd.sync = "quiet"
  <2>1. out \in BOOLEAN
    BY DEF HeaderOut
  <2>2. bus.at = "free" /\ ~out
    BY <1>r, QuietFree
  <2> QED BY <1>r, <2>1, <2>2 DEF QuietLast
<1> HIDE DEF p, at, out
<1>7. 0 \in T
  <2> DEFINE e == Flushed(cd)
  <2>1. Only(cd, e, {"rx"})
    BY <1>6, FlushedDoes
  <2> HIDE DEF e
  <2>2. Looks(cd, e)
    BY <2>1 DEF Only, Fields, Looks
  <2>3. At0(e, 0)
    BY <1>6, <2>2, LooksSame
  <2> QED BY <1>2, <1>5, <2>3 DEF e
<1>8. ASSUME NEW i \in 1 .. n, i - 1 \in T
      PROVE  At0(u[i], i) /\ Rests(u[i], p, i, at)
  <2> DEFINE d == u[i - 1]
             e == u[i]
             k == i - 1
  <2>1. At0(d, k) /\ k \in Nat /\ k + 1 = i /\ k < Len(p) /\ k \in 0 .. n
    BY <1>2, <1>8
  <2>2. Driver(d) /\ ~d.stall /\ Recognised(d, p, k) /\ Reads(d, p[k + 1], e)
    BY <1>3, <1>4, <2>1
  <2> HIDE DEF d, e, k
  <2>3. Grammar(e, p, k + 1, at) /\ Rests(e, p, k + 1, at)
    BY <1>2, <2>1, <2>2, GrammarStep
  <2>4. WakeInv(e, p, k + 1, out)
    BY <1>2, <1>6, <2>1, <2>2, WakeStep
  <2> QED BY <2>1, <2>3, <2>4 DEF e
<1>9. \A i \in 1 .. n : i - 1 \in T => i \in T
  <2>1. \A i \in 1 .. n : i \in 0 .. n
    BY <1>2
  <2> QED BY <1>8, <2>1
<1>10. \A i \in 0 .. n : i \in T
  <2> HIDE DEF T
  <2> QED BY <1>2, <1>7, <1>9, CountUp
<1> DEFINE e == u[n]
<1>11. Grammar(e, p, n, at) /\ WakeInv(e, p, n, out) /\ Steady(cd, e) /\ Driver(e)
  <2>1. n \in 0 .. n
    BY <1>2
  <2> QED BY <1>3, <1>10, <2>1
<1>12. CASE cd' = e /\ n = Len(cd.rx) /\ n # 0
  <2>1. Rests(e, p, n, at)
    <3>1. n \in 1 .. n /\ n - 1 \in 0 .. n
      BY <1>2, <1>12
    <3> QED BY <1>8, <1>10, <3>1
  <2> HIDE DEF e
  <2>2. Pipe(e) = cd.isr /\ IsASequence(cd.rx) /\ IsASequence(cd.isr)
    BY <1>11, LoopLeaves
  <2>3. Grammar(e, Pipe(e), 0, at) /\ Rests(e, Pipe(e), 0, at) /\ WakeInv(e, Pipe(e), 0, out)
    BY <1>11, <1>12, <1>q, <2>1, <2>2, Rebased
  <2>4. e.sync # "lost" /\ e.sync = cd.sync
    BY <1>6, <1>11 DEF Steady
  <2>5. QuietLast(e)
    <3> DEFINE a == cd.rx
               b == cd.isr
    <3>1. IsASequence(a) /\ IsASequence(b) /\ p = a \o b /\ Pipe(e) = b
      BY <1>q, <2>2
    <3> HIDE DEF a, b
    <3>2. /\ Len(a) \in Nat /\ Len(b) \in Nat /\ Len(p) = Len(a) + Len(b)
          /\ \A i \in 1 .. Len(b) : p[Len(a) + i] = b[i]
      BY <3>1, JoinedAt
    <3> SUFFICES ASSUME NEW i \in 1 .. Len(b), b[i].is = "quiet"
                 PROVE  i = Len(b) /\ e.sync = "quiet"
      BY <3>1 DEF QuietLast
    <3>3. Len(a) + i \in 1 .. Len(p) /\ p[Len(a) + i].is = "quiet"
      BY <3>2
    <3>4. Len(a) + i = Len(p) /\ cd.sync = "quiet"
      BY <1>r, <3>3
    <3> QED BY <2>4, <3>2, <3>4
  <2> QED BY <1>11, <1>12, <2>3, <2>4, <2>5 DEF Follows, at, out
<1>13. CASE cd' = LineQuiet(e) /\ n + 1 = Len(p) /\ p[n + 1].is = "quiet"
  <2>1. n + 1 \in 1 .. Len(p)
    BY <1>2, <1>13
  <2>2. out = FALSE
    BY <1>r, <1>13, <2>1
  <2> DEFINE g == LineQuiet(e)
  <2>3. Reset(g)
    BY <1>11, ResetIs
  <2>4. Follows(g, Pipe(g), 0, at) /\ WakeInv(g, Pipe(g), 0, out)
    BY <1>2, <1>11, <1>13, <2>2, ResetWakes
  <2> HIDE DEF g
  <2>5. Pipe(g) = <<>>
    <3>1. <<>> \o <<>> = <<>>
      OBVIOUS
    <3> QED BY <2>3, <3>1 DEF Reset, Pipe
  <2>6. \A i \in 1 .. Len(<<>>) : FALSE
    OBVIOUS
  <2>7. QuietLast(g)
    BY <2>5, <2>6 DEF QuietLast
  <2>8. cd' = g
    BY <1>13 DEF g
  <2> QED BY <2>3, <2>4, <2>7, <2>8 DEF at, out
<1> QED BY <1>2, <1>12, <1>13

-----------------------------------------------------------------------------
(***************************************************************************)
(* What a line does, function by function.                                 *)
(***************************************************************************)
Finishes(d, h, received, transmitted) ==
  /\ Driver(h) /\ Only(d, h, Reporting)
  /\ IF d.report = "IDLE" THEN h = d ELSE h.report = "IDLE" /\ h.key = NoKey
  /\ h.queue = IF d.report \in transmitted THEN Tail(d.queue) ELSE d.queue
  /\ h.heard = IF d.report \in received THEN Append(d.heard, d.msg) ELSE d.heard

Schedules(h, e, lines) ==
  /\ Only(h, e, {"tx", "irq", "sm", "load", "inte"})
  /\ e.inte = lines \cup (IF e.tx = "IDLE" THEN {"TXPENDING"} ELSE {})
  /\ \/ /\ h.tx = "QUEUED" /\ ~TxDidFail(h)
        /\ e.tx = "QUEUED" /\ e.irq = h.irq /\ e.sm = h.sm /\ e.load = h.load
     \/ /\ h.queue = <<>> /\ e.tx = "IDLE" /\ e.irq = h.irq \ {"TXPENDING"}
        /\ e.sm = h.sm /\ e.load = h.load
     \/ /\ h.queue # <<>> /\ e.tx = "QUEUED" /\ e.irq = h.irq \ {"MATCHED", "ACKDONE"}
        /\ e.sm = "send" /\ e.load = Head(h.queue)

Injects(d, e) ==
  /\ d.inte = {"MAYTX", "TXPENDING"} /\ d.report = "RX_ACK"
  /\ Only(d, e, {"tx", "irq", "key", "sm", "inte"})
  /\ e.tx = "ACKING_RX" /\ e.irq = d.irq \ {"MATCHED", "ACKDONE"}
  /\ e.key = Key("crc", d.msg) /\ e.sm = "inject" /\ e.inte = {"MAYTX", "ACKDONE"}

Acts(l, d, e) ==
  \/ /\ l = "ACKDONE"
     /\ \E h : /\ Only(d, h, {"key"}) /\ h.key = Key("rxeof", d.msg)
               /\ Schedules(h, e, {"MAYTX", "MATCHED"})
  \/ /\ l = "MATCHED"
     /\ \E h : /\ Finishes(d, h, {"RX_ACK", "RX_EOF"}, {"TX_ACK", "TX_EOF"})
               /\ Schedules(h, e, {})
  \/ /\ l = "MAYTX"
     /\ \E h : Finishes(d, h, {"RX_EOF"}, {"TX_EOF"}) /\ Schedules(h, e, {})
  \/ l = "TXPENDING" /\ Injects(d, e)
  \/ /\ l = "TXPENDING" /\ ~(d.inte = {"MAYTX", "TXPENDING"} /\ d.report = "RX_ACK")
     /\ Schedules(d, e, d.inte \ {"TXPENDING"})

LEMMA ScheduleIs ==
  ASSUME NEW h, Driver(h), NEW lines
  PROVE  LET s == TxSchedule(h) IN Schedules(h, IrqSet(s, lines \cup CheckTxPending(s)), lines)
<1> DEFINE s == TxSchedule(h)
           watched == lines \cup CheckTxPending(s)
           e == IrqSet(s, watched)
<1>1. /\ Only(h, s, {"tx", "irq", "sm", "load"})
      /\ \/ h.tx = "QUEUED" /\ ~TxDidFail(h) /\ s = h
         \/ /\ ~(h.tx = "QUEUED" /\ ~TxDidFail(h))
            /\ h.queue = <<>> /\ s.tx = "IDLE" /\ s.irq = h.irq \ {"TXPENDING"}
            /\ s.sm = h.sm /\ s.load = h.load
         \/ /\ ~(h.tx = "QUEUED" /\ ~TxDidFail(h))
            /\ h.queue # <<>> /\ s.tx = "QUEUED" /\ s.irq = h.irq \ {"MATCHED", "ACKDONE"}
            /\ s.sm = "send" /\ s.load = Head(h.queue)
  BY TxScheduleDoes
<1> HIDE DEF s
<1>2. Only(s, e, {"inte"}) /\ e.inte = watched
  BY <1>1, IrqSetDoes DEF Only
<1> HIDE DEF e
<1>3. e.tx = s.tx /\ e.sm = s.sm /\ e.load = s.load /\ e.irq = s.irq
  BY <1>1, <1>2 DEF Only, Fields
<1>4. Only(h, e, {"tx", "irq", "sm", "load", "inte"})
  BY <1>1, <1>2 DEF Only
<1>5. e.inte = lines \cup (IF e.tx = "IDLE" THEN {"TXPENDING"} ELSE {})
  BY <1>2, <1>3 DEF CheckTxPending
<1>6. \/ /\ h.tx = "QUEUED" /\ ~TxDidFail(h)
         /\ e.tx = "QUEUED" /\ e.irq = h.irq /\ e.sm = h.sm /\ e.load = h.load
      \/ /\ h.queue = <<>> /\ e.tx = "IDLE" /\ e.irq = h.irq \ {"TXPENDING"}
         /\ e.sm = h.sm /\ e.load = h.load
      \/ /\ h.queue # <<>> /\ e.tx = "QUEUED" /\ e.irq = h.irq \ {"MATCHED", "ACKDONE"}
         /\ e.sm = "send" /\ e.load = Head(h.queue)
  BY <1>1, <1>3
<1> QED BY <1>4, <1>5, <1>6 DEF Schedules, e, s

LEMMA FinishIs ==
  ASSUME NEW d, Driver(d)
  PROVE  Finishes(d, IF d.report = "IDLE" THEN d ELSE HandleEof(d), {"RX_EOF"}, {"TX_EOF"})
<1> DEFINE h == HandleEof(d)
<1>1. CASE d.report = "IDLE"
  <2>1. Only(d, d, Reporting)
    BY DEF Only
  <2> QED BY <1>1, <2>1 DEF Finishes
<1>2. CASE d.report # "IDLE"
  <2>1. Told(d, h) /\ h.report = "IDLE" /\ h.key = NoKey
    BY HandleEofDoes
  <2> HIDE DEF h
  <2>2. /\ Only(d, h, Reporting) /\ Driver(h)
        /\ h.queue = IF d.report = "TX_EOF" THEN Tail(d.queue) ELSE d.queue
        /\ h.heard = IF d.report = "RX_EOF" THEN Append(d.heard, d.msg) ELSE d.heard
    BY <2>1 DEF Told, Only, Fields, Reporting
  <2> QED BY <1>2, <2>1, <2>2 DEF Finishes, h
<1> QED BY <1>1, <1>2

LEMMA MatchedIs ==
  ASSUME NEW d, Driver(d)
  PROVE  Finishes(d, IF d.report = "IDLE" THEN d ELSE HandleEof(WithEofFlag(d)),
                  {"RX_ACK", "RX_EOF"}, {"TX_ACK", "TX_EOF"})
<1> DEFINE f == WithEofFlag(d)
           h == HandleEof(f)
<1>1. CASE d.report = "IDLE"
  <2>1. Only(d, d, Reporting)
    BY DEF Only
  <2> QED BY <1>1, <2>1 DEF Finishes
<1>2. CASE d.report # "IDLE"
  <2>1. /\ Only(d, f, {"report"})
        /\ f.report = CASE d.report = "RX_ACK" -> "RX_EOF"
                        [] d.report = "TX_ACK" -> "TX_EOF"
                        [] OTHER -> d.report
    BY WithEofFlagDoes
  <2> HIDE DEF f
  <2>2. Driver(f) /\ f.queue = d.queue /\ f.heard = d.heard /\ f.msg = d.msg
    BY <2>1 DEF Only, Fields
  <2>3. f.report # "IDLE" /\ (f.report = "RX_EOF" <=> d.report \in {"RX_ACK", "RX_EOF"})
        /\ (f.report = "TX_EOF" <=> d.report \in {"TX_ACK", "TX_EOF"})
    BY <1>2, <2>1
  <2>4. Finishes(f, h, {"RX_EOF"}, {"TX_EOF"})
    BY <2>2, <2>3, FinishIs
  <2> HIDE DEF h
  <2>5. /\ Driver(h) /\ Only(f, h, Reporting) /\ h.report = "IDLE" /\ h.key = NoKey
        /\ h.queue = IF d.report \in {"TX_ACK", "TX_EOF"} THEN Tail(d.queue) ELSE d.queue
        /\ h.heard = IF d.report \in {"RX_ACK", "RX_EOF"} THEN Append(d.heard, d.msg) ELSE d.heard
    BY <2>2, <2>3, <2>4 DEF Finishes
  <2>6. Only(d, h, Reporting)
    BY <2>1, <2>5 DEF Only, Reporting
  <2> QED BY <1>2, <2>5, <2>6 DEF Finishes, h, f
<1> QED BY <1>1, <1>2

LEMMA HandledActs ==
  ASSUME NEW l, NEW d, Driver(d), NEW e, Handled(l, d, e)
  PROVE  Acts(l, d, e)
<1>1. ASSUME NEW h, Driver(h), NEW x, x = LET s == TxSchedule(h) IN IrqSet(s, CheckTxPending(s))
      PROVE  Schedules(h, x, {})
  <2>1. {} \cup CheckTxPending(TxSchedule(h)) = CheckTxPending(TxSchedule(h))
    OBVIOUS
  <2>2. LET s == TxSchedule(h) IN Schedules(h, IrqSet(s, {} \cup CheckTxPending(s)), {})
    BY <1>1, ScheduleIs
  <2> QED BY <1>1, <2>1, <2>2
<1>2. CASE l = "ACKDONE" /\ e = LineAckDone(d)
  <2> DEFINE h == Match(d, Key("rxeof", d.msg))
  <2>1. Only(d, h, {"key"}) /\ h.key = Key("rxeof", d.msg)
    BY MatchDoes
  <2>2. e = LET s == TxSchedule(h) IN IrqSet(s, {"MAYTX", "MATCHED"} \cup CheckTxPending(s))
    BY <1>2 DEF LineAckDone
  <2> HIDE DEF h
  <2>3. Schedules(h, e, {"MAYTX", "MATCHED"})
    BY <2>1, <2>2, ScheduleIs DEF Only
  <2> QED BY <1>2, <2>1, <2>3 DEF Acts
<1>3. CASE l = "MATCHED" /\ e = LineMatched(d)
  <2> DEFINE h == IF d.report = "IDLE" THEN d ELSE HandleEof(WithEofFlag(d))
  <2>1. Finishes(d, h, {"RX_ACK", "RX_EOF"}, {"TX_ACK", "TX_EOF"})
    BY MatchedIs
  <2>2. e = LET s == TxSchedule(h) IN IrqSet(s, CheckTxPending(s))
    BY <1>3 DEF LineMatched
  <2> HIDE DEF h
  <2>3. Schedules(h, e, {})
    BY <1>1, <2>1, <2>2 DEF Finishes
  <2> QED BY <1>3, <2>1, <2>3 DEF Acts
<1>4. CASE l = "MAYTX" /\ e = LineMayTx(d)
  <2> DEFINE h == IF d.report = "IDLE" THEN d ELSE HandleEof(d)
  <2>1. Finishes(d, h, {"RX_EOF"}, {"TX_EOF"})
    BY FinishIs
  <2>2. e = LET s == TxSchedule(h) IN IrqSet(s, CheckTxPending(s))
    BY <1>4 DEF LineMayTx
  <2> HIDE DEF h
  <2>3. Schedules(h, e, {})
    BY <1>1, <2>1, <2>2 DEF Finishes
  <2> QED BY <1>4, <2>1, <2>3 DEF Acts
<1>5. CASE l = "TXPENDING" /\ e = LineTxPending(d)
  <2>1. CASE d.inte = {"MAYTX", "TXPENDING"} /\ d.report = "RX_ACK"
    <3> DEFINE t == [d EXCEPT !.tx = "ACKING_RX"]
               j == InjectAck(t)
    <3>1. e = IrqSet(j, {"MAYTX", "ACKDONE"})
      BY <1>5, <2>1 DEF LineTxPending
    <3>2. Only(d, t, {"tx"}) /\ t.tx = "ACKING_RX"
      BY DEF Only, Driver, Fields
    <3> HIDE DEF t
    <3>3. /\ Only(t, j, {"irq", "key", "sm"}) /\ j.irq = t.irq \ {"MATCHED", "ACKDONE"}
          /\ j.key = Key("crc", t.msg) /\ j.sm = "inject"
      BY <3>2, InjectAckDoes DEF Only
    <3> HIDE DEF j
    <3>4. Only(j, e, {"inte"}) /\ e.inte = {"MAYTX", "ACKDONE"}
      BY <3>1, <3>3, IrqSetDoes DEF Only
    <3>5. Only(d, e, {"tx", "irq", "key", "sm", "inte"})
      BY <3>2, <3>3, <3>4 DEF Only
    <3>6. e.tx = t.tx /\ e.irq = j.irq /\ t.irq = d.irq /\ e.key = j.key /\ t.msg = d.msg /\ e.sm = j.sm
      BY <3>2, <3>3, <3>4 DEF Only, Fields
    <3> QED BY <1>5, <2>1, <3>2, <3>3, <3>4, <3>5, <3>6 DEF Acts, Injects
  <2>2. CASE ~(d.inte = {"MAYTX", "TXPENDING"} /\ d.report = "RX_ACK")
    <3>1. e = LET s == TxSchedule(d) IN IrqSet(s, (d.inte \ {"TXPENDING"}) \cup CheckTxPending(s))
      BY <1>5, <2>2 DEF LineTxPending
    <3>2. Schedules(d, e, d.inte \ {"TXPENDING"})
      BY <3>1, ScheduleIs
    <3> QED BY <1>5, <2>2, <3>2 DEF Acts
  <2> QED BY <2>1, <2>2
<1> QED BY <1>2, <1>3, <1>4, <1>5 DEF Handled

-----------------------------------------------------------------------------
(***************************************************************************)
(* The lines, and what is watched after them.                              *)
(***************************************************************************)
(* The beginning of a frame, or an error flag, is handed over before the   *)
(* bus is free.                                                            *)
Cleared(d, at) ==
  \A i \in 1 .. Len(d.isr) : /\ d.isr[i].is = "sof" => at \in {"header", "delimiter"}
                             /\ d.isr[i].is = "flag" => at = "delimiter"

(* On an idle line the parser waits for no header.                         *)
LEMMA NoHeader ==
  ASSUME NEW d, NEW at, NEW p, p = d.isr, IsASequence(p), "MAYTX" \in d.irq, Signals(d), ~d.stall,
         d.sync \in Still => at = "free", Follows(d, p, 0, at), HeldBack(d, at), Cleared(d, at)
  PROVE  d.parse # "HEADER"
<1> SUFFICES ASSUME d.parse = "HEADER" PROVE FALSE
  OBVIOUS
<1>1. at = "free" /\ Grammar(d, p, 0, at)
  BY DEF Signals, Follows
<1>2. PICK S : p \in Seq(S)
  BY DEF IsASequence
<1>3. Len(p) \in Nat /\ (0 < Len(p) \/ 0 = Len(p)) /\ (0 < Len(p) => 1 \in 1 .. Len(p)) /\ 0 + 1 = 1
  BY <1>2
<1>4. CASE 0 = Len(p)
  BY <1>1, <1>4 DEF Grammar, Fits
<1>5. CASE 0 < Len(p)
  <2>1. Awaits("HEADER", p[1])
    BY <1>1, <1>3, <1>5 DEF Grammar
  <2>2. Comes("header", p[1])
    BY <2>1 DEF Awaits, Fits
  <2>3. p[1].is \in {"header", "flag"}
    BY <2>2 DEF Comes
  <2> QED BY <1>1, <1>3, <1>5, <2>3 DEF HeldBack, Cleared
<1> QED BY <1>3, <1>4, <1>5

(* A header that is still to be met, when all that the FIFO held has been  *)
(* handled, comes behind a start that has not, or the parser awaits it.    *)
LEMMA HeadedSof ==
  ASSUME NEW d, NEW at, NEW p, p = d.isr, IsASequence(p), ~d.stall, d.sync # "lost",
         Follows(d, p, 0, at), HeldBack(d, at), NEW out, out => at = "header", Headed(d, p, 0, out)
  PROVE  SofAhead(p, 0) \/ d.parse = "HEADER"
<1>1. PICK S : p \in Seq(S)
  BY DEF IsASequence
<1>2. Len(p) \in Nat /\ (0 < Len(p) \/ 0 = Len(p)) /\ (0 < Len(p) => Len(p) \in 0 + 1 .. Len(p))
      /\ 0 + 1 = 1
  BY <1>1
<1>3. ASSUME NEW i \in 0 + 1 .. Len(p), Own(p, i), Due(d, 0, i) PROVE d.parse = "HEADER"
  BY <1>2, <1>3 DEF HeldBack, Own, Due
<1>4. ASSUME out, Due(d, 0, Len(p) + 1) PROVE SofAhead(p, 0) \/ d.parse = "HEADER"
  <2>1. CASE 0 = Len(p)
    BY <1>4, <2>1 DEF Due
  <2>2. CASE 0 < Len(p)
    <3>1. Leads(p[Len(p)]) = "header"
      BY <1>4, <2>2 DEF Follows, Grammar
    <3>2. p[Len(p)].is = "sof"
      BY <3>1, LeadsIn
    <3> QED BY <1>2, <2>2, <3>2 DEF SofAhead
  <2> QED BY <1>2, <2>1, <2>2
<1> QED BY <1>3, <1>4 DEF Headed

LEMMA ScheduledWakes ==
  ASSUME NEW h, NEW e, NEW lines, Schedules(h, e, lines), h.rx = <<>>,
         h.tx = "QUEUED" => h.sm \in {"send", "sending", "sent", "conflict", "stuck"}
  PROVE  /\ lines \subseteq e.inte /\ h.irq \ {"MATCHED", "ACKDONE", "TXPENDING"} \subseteq e.irq
         /\ e.queue # <<>> /\ "TXPENDING" \in h.irq => "TXPENDING" \in e.irq
         /\ \/ e.tx = "IDLE" /\ "TXPENDING" \in e.inte /\ e.sm = h.sm
            \/ e.tx = "QUEUED" /\ e.sm = "send"
            \/ h.tx = "QUEUED" /\ e.tx = "QUEUED" /\ e.sm = h.sm /\ e.sm \in {"sending", "sent", "stuck"}
<1>1. e.queue = h.queue
  BY DEF Schedules, Only, Fields
<1>2. h.sm = "conflict" => TxDidFail(h)
  BY DEF TxDidFail
<1> QED BY <1>1, <1>2 DEF Schedules

(* What any line comes to.                                                 *)
LEMMA ActsWakes ==
  ASSUME NEW l, NEW d, NEW e, Acts(l, d, e), d.rx = <<>>, Driver(d),
         d.tx = "QUEUED" => d.sm \in {"send", "sending", "sent", "conflict", "stuck"}
  PROVE  /\ d.irq \ {"MATCHED", "ACKDONE", "TXPENDING"} \subseteq e.irq
         /\ e.queue # <<>> /\ "TXPENDING" \in d.irq => "TXPENDING" \in e.irq
         /\ l \in {"ACKDONE", "TXPENDING"} /\ "MAYTX" \in d.inte => "MAYTX" \in e.inte
         /\ l = "ACKDONE" => "MAYTX" \in e.inte
         /\ \/ e.tx = "IDLE" /\ "TXPENDING" \in e.inte /\ e.sm = d.sm
            \/ e.tx = "QUEUED" /\ e.sm = "send"
            \/ e.tx = "ACKING_RX" /\ "MAYTX" \in e.inte /\ e.sm = "inject"
            \/ d.tx = "QUEUED" /\ e.tx = "QUEUED" /\ e.sm = d.sm /\ e.sm \in {"sending", "sent", "stuck"}
<1>1. ASSUME NEW h, NEW lines, Schedules(h, e, lines), h.rx = d.rx, h.tx = d.tx, h.sm = d.sm, h.irq = d.irq
      PROVE  /\ lines \subseteq e.inte /\ d.irq \ {"MATCHED", "ACKDONE", "TXPENDING"} \subseteq e.irq
             /\ e.queue # <<>> /\ "TXPENDING" \in d.irq => "TXPENDING" \in e.irq
             /\ \/ e.tx = "IDLE" /\ "TXPENDING" \in e.inte /\ e.sm = d.sm
                \/ e.tx = "QUEUED" /\ e.sm = "send"
                \/ d.tx = "QUEUED" /\ e.tx = "QUEUED" /\ e.sm = d.sm /\ e.sm \in {"sending", "sent", "stuck"}
  BY <1>1, ScheduledWakes
<1>2. ASSUME NEW h, NEW received, NEW transmitted, Finishes(d, h, received, transmitted)
      PROVE  h.rx = d.rx /\ h.tx = d.tx /\ h.sm = d.sm /\ h.irq = d.irq
  BY <1>2 DEF Finishes, Only, Fields, Reporting
<1>3. CASE l = "ACKDONE"
  <2>1. PICK h : Only(d, h, {"key"}) /\ Schedules(h, e, {"MAYTX", "MATCHED"})
    BY <1>3 DEF Acts
  <2>2. h.rx = d.rx /\ h.tx = d.tx /\ h.sm = d.sm /\ h.irq = d.irq
    BY <2>1 DEF Only, Fields
  <2>3. /\ {"MAYTX", "MATCHED"} \subseteq e.inte /\ d.irq \ {"MATCHED", "ACKDONE", "TXPENDING"} \subseteq e.irq
        /\ e.queue # <<>> /\ "TXPENDING" \in d.irq => "TXPENDING" \in e.irq
        /\ \/ e.tx = "IDLE" /\ "TXPENDING" \in e.inte /\ e.sm = d.sm
           \/ e.tx = "QUEUED" /\ e.sm = "send"
           \/ d.tx = "QUEUED" /\ e.tx = "QUEUED" /\ e.sm = d.sm /\ e.sm \in {"sending", "sent", "stuck"}
    BY <1>1, <2>1, <2>2
  <2> QED BY <1>3, <2>3
<1>4. CASE l \in {"MATCHED", "MAYTX"}
  <2>1. PICK h, received, transmitted : Finishes(d, h, received, transmitted) /\ Schedules(h, e, {})
    BY <1>4 DEF Acts
  <2>2. h.rx = d.rx /\ h.tx = d.tx /\ h.sm = d.sm /\ h.irq = d.irq
    BY <1>2, <2>1
  <2> QED BY <1>1, <1>4, <2>1, <2>2
<1>5. CASE l = "TXPENDING" /\ Injects(d, e)
  <2>1. e.tx = "ACKING_RX" /\ e.sm = "inject" /\ e.inte = {"MAYTX", "ACKDONE"}
        /\ e.irq = d.irq \ {"MATCHED", "ACKDONE"}
    BY <1>5 DEF Injects
  <2> QED BY <1>5, <2>1
<1>6. CASE l = "TXPENDING" /\ Schedules(d, e, d.inte \ {"TXPENDING"})
  BY <1>1, <1>6
<1> QED BY <1>3, <1>4, <1>5, <1>6 DEF Acts

LEMMA LineWakes ==
  ASSUME NEW l, NEW d, NEW e, Acts(l, d, e), Line1(d, e), NEW n, NEW W, DriverInv(d, n, W),
         l \in d.irq, l \in d.inte, d.rx = <<>>, NEW p, p = d.isr, IsASequence(p), ~d.stall,
         NEW at, HeldBack(d, at), Cleared(d, at), Signals(d), d.sync \in Still => at = "free",
         Follows(d, p, 0, at), NEW out, out => at = "header", WakeInv(d, p, 0, out)
  PROVE  Follows(e, p, 0, at) /\ WakeInv(e, p, 0, out)
<1>1. e.parse = d.parse /\ e.sync = d.sync
  BY DEF Line1, Streams
<1>2. Follows(e, p, 0, at)
  BY <1>1 DEF Follows, Grammar, Rests
<1>3. Driver(d) /\ Duties(d)
  BY DEF DriverInv, QueueInv
<1>4. /\ l \in {"ACKDONE", "TXPENDING"} /\ "MAYTX" \in d.inte => "MAYTX" \in e.inte
      /\ \/ e.tx = "IDLE" /\ "TXPENDING" \in e.inte /\ e.sm = d.sm
         \/ e.tx = "QUEUED" /\ e.sm = "send"
         \/ e.tx = "ACKING_RX" /\ "MAYTX" \in e.inte /\ e.sm = "inject"
         \/ d.tx = "QUEUED" /\ e.tx = "QUEUED" /\ e.sm = d.sm /\ e.sm \in {"sending", "sent", "stuck"}
  BY <1>3, ActsWakes DEF WakeInv, Busy
<1>5. Headed(d, p, 0, out) => Headed(e, p, 0, out)
  BY <1>1 DEF Headed, Due
<1>6. Busy(e, p, 0, out)
  BY <1>1, <1>4, <1>5 DEF WakeInv, Busy
<1>7. d.parse = "HEADER" => "MAYTX" \in e.inte
  <2> SUFFICES ASSUME d.parse = "HEADER" PROVE "MAYTX" \in e.inte
    OBVIOUS
  <2>1. "MAYTX" \notin d.irq
    BY NoHeader
  <2>2. l = "TXPENDING" /\ "MAYTX" \in d.inte
    BY <1>3, <2>1 DEF Duties, WakeInv, Watched
  <2> QED BY <1>4, <2>2
<1>8. d.tx = "QUEUED" /\ d.sm \in {"sending", "sent"} => SofAhead(p, 0) \/ d.parse = "HEADER"
  <2> SUFFICES ASSUME d.tx = "QUEUED", d.sm \in {"sending", "sent"}
               PROVE  SofAhead(p, 0) \/ d.parse = "HEADER"
    OBVIOUS
  <2>1. d.sync # "lost" /\ Headed(d, p, 0, out)
    BY DEF WakeInv, Busy
  <2>2. /\ p = d.isr /\ IsASequence(p) /\ ~d.stall /\ Follows(d, p, 0, at) /\ HeldBack(d, at)
        /\ (out => at = "header")
    OBVIOUS
  <2> QED BY ONLY <2>1, <2>2, HeadedSof, Zenon
<1>9. Watched(e, p, 0)
  BY <1>1, <1>4, <1>7, <1>8 DEF Watched
<1> QED BY <1>2, <1>6, <1>9 DEF WakeInv

-----------------------------------------------------------------------------
(***************************************************************************)
(* What a field that passes on the bus does.                               *)
(***************************************************************************)
BadCrc(f) == f.is = "crc" /\ ~f.good

(* The end of a frame that the match machine sees in a field.              *)
EndIn(f) ==
  CASE f.is = "crc" -> IF f.good THEN "crc" ELSE "nothing"
    [] f.is = "part" /\ f.bits = 2 -> "rxeof"
    [] f.is = "part" /\ f.bits = 1 -> "txeof"
    [] OTHER -> "nothing"

Raises(c, f) ==
  \/ c.irq = cd.irq
  \/ /\ c.irq = cd.irq \cup {"MATCHED"} /\ cd.key = Key(EndIn(f), Name(bus))
     /\ cd.sm # "inject"
  \/ c.irq = cd.irq \cup {"ACKDONE"} /\ f.is = "ack" /\ cd.sm = "acking"

Turns(c, f) ==
  \/ c.sm = cd.sm /\ ~(f.is = "crc" /\ bus.own)
  \/ c.sm = "sent" /\ f.is = "crc" /\ bus.own /\ cd.sm = "sending"
  \/ c.sm = "acking" /\ cd.sm = "inject" /\ cd.key = Key(EndIn(f), Name(bus)) /\ c.irq = cd.irq
  \/ c.sm = "acked" /\ cd.sm = "acking" /\ f.is = "ack"
  \/ c.sm = "conflict" /\ cd.sm \in {"sending", "acking"} /\ f.is \in {"flag", "eof1"}

Carries(c, f, total) ==
  /\ Only(cd, c, {"sm", "irq"}) /\ cd' = Put(c, f, total)
  /\ IF f.is = "header" THEN total \in 20 .. 29 /\ f.frame = Name(bus)
                        ELSE total = cd.held + Bits(f)
  /\ f.is = "passive" => f.bits = 10
  /\ bus # Free /\ Comes(bus.at, f) /\ bus'.at = Leads(f)
  /\ IF bus'.at = "free" THEN bus' = Free
     ELSE /\ Name(bus') = Name(bus) /\ bus'.own = bus.own
          /\ bus'.clean = IF BadCrc(f) THEN FALSE ELSE bus.clean
  /\ Raises(c, f) /\ Turns(c, f)
  /\ cd.sm = "sending" /\ f.is = "flag" => c.sm = "conflict"
  /\ complete' = IF f.is = "part" /\ f.bits = 2 /\ bus.clean /\ cd.sync # "lost" /\ ~bus.own
                 THEN complete \cup {Name(bus)} ELSE complete
  /\ delivered' = IF f.is = "part" /\ f.bits = 1 /\ bus.clean /\ bus.own
                  THEN delivered \cup {bus.n} ELSE delivered
  /\ UNCHANGED <<sent, foreign, restarts, main, got, withdrawn, overrun>>

LEMMA AdvancedAll ==
  ASSUME BusOK, bus # Free, NEW at \in At, Advance(at)
  PROVE  /\ bus'.at = at /\ at # "free" /\ Name(bus') = Name(bus) /\ bus'.own = bus.own
         /\ bus'.clean = bus.clean
<1>1. /\ bus'.at = at /\ bus'.own = bus.own /\ bus'.n = bus.n /\ bus'.same = bus.same
      /\ bus'.clean = bus.clean
  BY Advanced
<1> QED BY <1>1 DEF Name, At

(* The cases in which the transmitter takes no notice.                     *)
LEMMA PlainCarries ==
  ASSUME Driver(cd), BusOK, bus # Free, NEW f, f.is \notin {"header", "crc"}, f.is = "part" => f.bits = 9, cd' = Emit(cd, f),
         ~(cd.sm = "sending" /\ f.is = "flag"), f.is = "passive" => f.bits = 10,
         Comes(bus.at, f), \/ Leads(f) \in At /\ Advance(Leads(f))
                           \/ Leads(f) = "free" /\ bus' = Free,
         UNCHANGED history, OnBus
  PROVE  \E c, g, total : Carries(c, g, total)
<1>1. Only(cd, cd, {"sm", "irq"})
  BY SameDriver
<1>2. cd' = Put(cd, f, cd.held + Bits(f))
  BY EmitIs
<1>3. Raises(cd, f) /\ Turns(cd, f)
  BY DEF Raises, Turns
<1>4. /\ bus'.at = Leads(f)
      /\ IF bus'.at = "free" THEN bus' = Free
         ELSE Name(bus') = Name(bus) /\ bus'.own = bus.own /\ bus'.clean = bus.clean
  BY AdvancedAll, FreeAt
<1>5. ~(f.is = "part" /\ f.bits = 2) /\ ~(f.is = "part" /\ f.bits = 1)
  OBVIOUS
<1>6. complete' = complete /\ delivered' = delivered
      /\ UNCHANGED <<sent, foreign, restarts, main, got, withdrawn, overrun>>
  BY DEF history, OnBus
<1> DEFINE total == cd.held + Bits(f)
<1>7. cd' = Put(cd, f, total) /\ total = cd.held + Bits(f)
  BY <1>2
<1> HIDE DEF total
<1>8. Carries(cd, f, total)
  BY <1>1, <1>3, <1>4, <1>5, <1>6, <1>7 DEF Carries, BadCrc
<1> QED BY <1>8

LEMMA CrcCarries ==
  ASSUME Driver(cd), BusOK, NEW good \in BOOLEAN, SendCrc(good)
  PROVE  \E c, f, total : Carries(c, f, total)
<1> DEFINE f == Crc(good)
           e == IF bus.own THEN [cd EXCEPT !.sm = "sent"] ELSE cd
           c == IF good THEN Matched(e, "crc") ELSE e
<1>1. f.is = "crc" /\ f.good = good
  BY FieldKinds
<1>2. bus.at = "crc" /\ bus # Free /\ cd' = Emit(c, f)
      /\ bus' = [bus EXCEPT !.at = "ack", !.clean = @ /\ good] /\ UNCHANGED history /\ OnBus
      /\ (bus.own => cd.sm = "sending")
  BY FreeAt DEF SendCrc, Driven
<1>3. Only(cd, e, {"sm", "irq"}) /\ e.irq = cd.irq /\ e.key = cd.key
      /\ e.sm = IF bus.own THEN "sent" ELSE cd.sm
  BY DEF Only, Driver, Fields
<1> HIDE DEF e
<1>4. Driver(e)
  BY <1>3 DEF Only
<1>5. Only(cd, c, {"sm", "irq"}) /\ Raises(c, f) /\ Turns(c, f)
  <2>1. CASE ~good
    <3>1. c = e
      BY <2>1
    <3> QED BY <1>1, <1>2, <1>3, <2>1, <3>1 DEF Raises, Turns
  <2>2. CASE good
    <3>1. c = Matched(e, "crc") /\ EndIn(f) = "crc"
      BY <1>1, <2>2 DEF EndIn
    <3> HIDE DEF c, f
    <3>2. /\ Only(e, c, {"sm", "irq"})
          /\ \/ c = e /\ e.key # Key("crc", Name(bus))
             \/ /\ e.key = Key("crc", Name(bus)) /\ e.sm = "inject"
                /\ c.sm = "acking" /\ c.irq = e.irq
             \/ /\ e.key = Key("crc", Name(bus)) /\ e.sm # "inject"
                /\ c.sm = e.sm /\ c.irq = e.irq \cup {"MATCHED"}
      BY <1>4, <3>1, MatchedDoes
    <3>3. Only(cd, c, {"sm", "irq"})
      BY <1>3, <3>2 DEF Only
    <3>4. Raises(c, f)
      BY <1>2, <1>3, <3>1, <3>2 DEF Raises
    <3>5. Turns(c, f)
      <4>1. CASE c.sm = "acking" /\ e.sm = "inject"
        BY <1>3, <3>1, <3>2, <4>1 DEF Turns
      <4>2. CASE c.sm = e.sm
        BY <1>1, <1>2, <1>3, <4>2 DEF Turns
      <4> QED BY <3>2, <4>1, <4>2
    <3> QED BY <3>3, <3>4, <3>5
  <2> QED BY <2>1, <2>2
<1> HIDE DEF c
<1>6. c.held = cd.held /\ cd' = Put(c, f, cd.held + Bits(f))
  BY <1>2, <1>5, EmitIs DEF Only, Fields
<1>7. /\ bus'.at = "ack" /\ Name(bus') = Name(bus) /\ bus'.own = bus.own
      /\ bus'.clean = (bus.clean /\ good)
  BY <1>2 DEF BusOK, BusFields, Name
<1>8. bus'.clean = IF BadCrc(f) THEN FALSE ELSE bus.clean
  BY <1>1, <1>2, <1>7 DEF BusOK, BadCrc
<1>9. Comes(bus.at, f) /\ Leads(f) = "ack"
  BY <1>1, <1>2 DEF Comes, Leads
<1> HIDE DEF f
<1>10. Carries(c, f, cd.held + Bits(f))
  BY <1>1, <1>2, <1>5, <1>6, <1>7, <1>8, <1>9 DEF Carries, history, OnBus
<1> QED BY <1>10

LEMMA PartCarries ==
  ASSUME Driver(cd), BusOK, SendBit5 \/ SendBit7
  PROVE  \E c, f, total : Carries(c, f, total)
<1>1. PICK n, end, at :
        /\ bus # Free /\ cd' = Emit(Matched(cd, end), Part(n)) /\ Advance(at) /\ at \in At /\ OnBus
        /\ \/ n = 2 /\ end = "rxeof" /\ bus.at = "bit5" /\ at = "bit7"
           \/ n = 1 /\ end = "txeof" /\ bus.at = "bit7" /\ at = "pause"
        /\ complete' = IF n = 2 /\ bus.clean /\ cd.sync # "lost" /\ ~bus.own
                       THEN complete \cup {Name(bus)} ELSE complete
        /\ delivered' = IF n = 1 /\ bus.clean /\ bus.own
                        THEN delivered \cup {bus.n} ELSE delivered
  <2>1. CASE SendBit5
    <3>1. /\ bus # Free /\ cd' = Emit(Matched(cd, "rxeof"), Part(2)) /\ Advance("bit7") /\ OnBus
          /\ bus.at = "bit5" /\ "bit7" \in At
          /\ complete' = IF bus.clean /\ cd.sync # "lost" /\ ~bus.own
                         THEN complete \cup {Name(bus)} ELSE complete
          /\ delivered' = delivered
      BY <2>1, FreeAt DEF SendBit5, At
    <3> QED BY <3>1
  <2>2. CASE SendBit7
    <3>1. /\ bus # Free /\ cd' = Emit(Matched(cd, "txeof"), Part(1)) /\ Advance("pause") /\ OnBus
          /\ bus.at = "bit7" /\ "pause" \in At
          /\ delivered' = IF bus.own /\ bus.clean THEN delivered \cup {bus.n} ELSE delivered
          /\ complete' = complete
      BY <2>2, FreeAt DEF SendBit7, At
    <3> QED BY <3>1
  <2> QED BY <2>1, <2>2
<1> DEFINE f == Part(n)
           c == Matched(cd, end)
<1>2. f.is = "part" /\ f.bits = n /\ EndIn(f) = end
  BY <1>1 DEF Part, EndIn
<1>3. /\ Only(cd, c, {"sm", "irq"})
      /\ \/ c = cd /\ cd.key # Key(end, Name(bus))
         \/ /\ cd.key = Key(end, Name(bus)) /\ cd.sm = "inject"
            /\ c.sm = "acking" /\ c.irq = cd.irq
         \/ /\ cd.key = Key(end, Name(bus)) /\ cd.sm # "inject"
            /\ c.sm = cd.sm /\ c.irq = cd.irq \cup {"MATCHED"}
  BY MatchedDoes
<1> HIDE DEF f, c
<1>4. Raises(c, f)
  BY <1>2, <1>3 DEF Raises
<1>5. Turns(c, f)
  BY <1>2, <1>3 DEF Turns
<1>6. c.held = cd.held
  BY <1>3 DEF Only, Fields
<1>7. cd' = Put(c, f, cd.held + Bits(f))
  BY <1>1, <1>6, EmitIs DEF f, c
<1>8. /\ bus'.at = at /\ at # "free" /\ Name(bus') = Name(bus) /\ bus'.own = bus.own
      /\ bus'.clean = bus.clean
  BY <1>1, AdvancedAll
<1>9. Comes(bus.at, f) /\ Leads(f) = at
  BY <1>1, <1>2 DEF Comes, Leads
<1>10. Carries(c, f, cd.held + Bits(f))
  BY <1>1, <1>2, <1>3, <1>4, <1>5, <1>7, <1>8, <1>9 DEF Carries, OnBus, BadCrc
<1> QED BY <1>10

LEMMA AckCarries ==
  ASSUME Driver(cd), BusOK, NEW others \in BOOLEAN, SendAck(others)
  PROVE  \E c, f, total : Carries(c, f, total)
<1> DEFINE acked == others \/ cd.sm = "acking"
           f == Ack(acked)
           c == IF cd.sm = "acking" THEN [cd EXCEPT !.sm = "acked", !.irq = @ \cup {"ACKDONE"}] ELSE cd
           at == IF acked THEN "eof0" ELSE "flag"
<1>1. /\ bus.at = "ack" /\ bus # Free /\ cd' = Emit(c, f) /\ Advance(at) /\ OnBus
      /\ UNCHANGED history
  BY FreeAt DEF SendAck
<1>2. f.is = "ack" /\ f.good = acked
  BY FieldKinds
<1>3. /\ Only(cd, c, {"sm", "irq"})
      /\ IF cd.sm = "acking" THEN c.sm = "acked" /\ c.irq = cd.irq \cup {"ACKDONE"}
                             ELSE c.sm = cd.sm /\ c.irq = cd.irq
  BY DEF Only, Driver, Fields
<1>4. at \in At /\ Comes(bus.at, f) /\ Leads(f) = at
  BY <1>1, <1>2 DEF At, Comes, Leads
<1> HIDE DEF f, c, at, acked
<1>5. Raises(c, f) /\ Turns(c, f)
  BY <1>2, <1>3 DEF Raises, Turns
<1>6. c.held = cd.held
  BY <1>3 DEF Only, Fields
<1>7. cd' = Put(c, f, cd.held + Bits(f))
  BY <1>1, <1>6, EmitIs
<1>8. /\ bus'.at = at /\ at # "free" /\ Name(bus') = Name(bus) /\ bus'.own = bus.own
      /\ bus'.clean = bus.clean
  BY <1>1, <1>4, AdvancedAll
<1>9. Carries(c, f, cd.held + Bits(f))
  BY <1>1, <1>2, <1>3, <1>4, <1>5, <1>7, <1>8 DEF Carries, OnBus, BadCrc, history
<1> QED BY <1>9

LEMMA HeaderCarries ==
  ASSUME Driver(cd), BusOK, SendHeader
  PROVE  \E c, f, total : Carries(c, f, total)
<1> DEFINE f == Header(bus)
<1>1. PICK r \in 0 .. 9 : cd' = Put(cd, f, 20 + r)
  BY DEF SendHeader
<1>2. bus.at = "header" /\ bus # Free /\ Advance("check") /\ OnBus /\ UNCHANGED history
  BY FreeAt DEF SendHeader
<1>3. f.is = "header" /\ f.frame = Name(bus)
  BY DEF Header
<1>4. Only(cd, cd, {"sm", "irq"})
  BY SameDriver
<1> HIDE DEF f
<1>5. "check" \in At /\ Comes(bus.at, f) /\ Leads(f) = "check" /\ 20 + r \in 20 .. 29
  BY <1>2, <1>3 DEF At, Comes, Leads
<1>6. Raises(cd, f) /\ Turns(cd, f)
  BY <1>3 DEF Raises, Turns
<1>7. /\ bus'.at = "check" /\ Name(bus') = Name(bus) /\ bus'.own = bus.own /\ bus'.clean = bus.clean
  BY <1>2, <1>5, AdvancedAll
<1>8. Carries(cd, f, 20 + r)
  BY <1>1, <1>2, <1>3, <1>4, <1>5, <1>6, <1>7 DEF Carries, OnBus, BadCrc, history
<1> QED BY <1>8

LEMMA DisturbCarries ==
  ASSUME Driver(cd), BusOK, Disturb
  PROVE  \E c, f, total : Carries(c, f, total)
<1> DEFINE inEof1 == bus.at \in {"bit5", "bit7", "pause"}
           f == IF inEof1 THEN Eof1(bus.at) ELSE Flag
           c == [cd EXCEPT !.sm = IF @ \in {"sending", "acking"} THEN "conflict" ELSE @]
           at == IF inEof1 THEN "flag" ELSE "delimiter"
<1>1. /\ bus # Free /\ cd' = Emit(c, f) /\ Advance(at) /\ OnBus /\ UNCHANGED history
      /\ bus.at \in {"header", "check", "crc", "ack", "eof0", "bit5", "bit7", "pause"}
  BY FreeAt DEF Disturb
<1>2. IF inEof1 THEN f.is = "eof1" /\ f.first = bus.at ELSE f.is = "flag"
  BY FieldKinds
<1>3. /\ Only(cd, c, {"sm", "irq"}) /\ c.irq = cd.irq
      /\ c.sm = IF cd.sm \in {"sending", "acking"} THEN "conflict" ELSE cd.sm
  BY DEF Only, Driver, Fields
<1> HIDE DEF f, c
<1>4. at \in At /\ Comes(bus.at, f) /\ Leads(f) = at /\ f.is \in {"flag", "eof1"}
  BY <1>1, <1>2 DEF At, Comes, Leads
<1> HIDE DEF at, inEof1
<1>5. Raises(c, f) /\ Turns(c, f)
  BY <1>3, <1>4 DEF Raises, Turns
<1>6. c.held = cd.held
  BY <1>3 DEF Only, Fields
<1>7. cd' = Put(c, f, cd.held + Bits(f))
  BY <1>1, <1>6, EmitIs
<1>8. /\ bus'.at = at /\ at # "free" /\ Name(bus') = Name(bus) /\ bus'.own = bus.own
      /\ bus'.clean = bus.clean
  BY <1>1, <1>4, AdvancedAll
<1>9. Carries(c, f, cd.held + Bits(f))
  BY <1>1, <1>3, <1>4, <1>5, <1>7, <1>8 DEF Carries, OnBus, BadCrc, history
<1> QED BY <1>9

LEMMA FieldCarries ==
  ASSUME Driver(cd), BusOK, Field, cd.sm = "sending" => bus.at \in {"header", "check", "crc"}
  PROVE  \E c, f, total : Carries(c, f, total)
<1>1. CASE SendEof0
  <2>1. /\ bus.at = "eof0" /\ bus # Free /\ cd' = Emit(cd, Eof0) /\ Advance("bit5") /\ OnBus
        /\ UNCHANGED history
    BY <1>1, FreeAt DEF SendEof0
  <2>2. /\ Eof0.is = "eof0" /\ Comes("eof0", Eof0) /\ Leads(Eof0) = "bit5" /\ "bit5" \in At
    BY DEF Eof0, Comes, Leads, At
  <2> QED BY <2>1, <2>2, PlainCarries
<1>2. CASE SendPause
  <2>1. /\ bus.at = "pause" /\ bus # Free /\ cd' = Emit(cd, Eof1("none")) /\ bus' = Free /\ OnBus
        /\ UNCHANGED history
    BY <1>2, FreeAt DEF SendPause
  <2> DEFINE f == Eof1("none")
  <2>2. /\ f.is = "eof1" /\ Comes("pause", f) /\ Leads(f) = "free"
    BY DEF Eof1, Comes, Leads
  <2> HIDE DEF f
  <2>3. cd' = Emit(cd, f)
    BY <2>1 DEF f
  <2> QED BY <2>1, <2>2, <2>3, PlainCarries
<1>3. CASE SendFlag
  <2>1. /\ bus.at = "flag" /\ bus # Free /\ cd' = Emit(cd, Flag) /\ Advance("delimiter") /\ OnBus
        /\ UNCHANGED history
    BY <1>3, FreeAt DEF SendFlag
  <2>2. /\ Flag.is = "flag" /\ Comes("flag", Flag) /\ Leads(Flag) = "delimiter" /\ "delimiter" \in At
    BY DEF Flag, Comes, Leads, At
  <2>3. cd.sm # "sending"
    BY <2>1
  <2> QED BY <2>1, <2>2, <2>3, PlainCarries
<1>4. CASE SendDelimiter
  <2>1. /\ bus.at = "delimiter" /\ bus # Free /\ cd' = Emit(cd, Passive(10)) /\ bus' = Free /\ OnBus
        /\ UNCHANGED history
    BY <1>4, FreeAt DEF SendDelimiter
  <2> DEFINE f == Passive(10)
  <2>2. /\ f.is = "passive" /\ f.bits = 10 /\ Comes("delimiter", f) /\ Leads(f) = "free"
    BY DEF Passive, Comes, Leads
  <2> HIDE DEF f
  <2>3. cd' = Emit(cd, f)
    BY <2>1 DEF f
  <2> QED BY <2>1, <2>2, <2>3, PlainCarries
<1>5. CASE SendCheck
  <2>1. /\ bus.at = "check" /\ bus # Free /\ cd' = Emit(cd, Part(9)) /\ Advance("crc") /\ OnBus
        /\ UNCHANGED history
    BY <1>5, FreeAt DEF SendCheck
  <2> DEFINE f == Part(9)
  <2>2. /\ f.is = "part" /\ f.bits = 9 /\ Comes("check", f) /\ Leads(f) = "crc" /\ "crc" \in At
    BY DEF Part, Comes, Leads, At
  <2> HIDE DEF f
  <2>3. cd' = Emit(cd, f)
    BY <2>1 DEF f
  <2> QED BY <2>1, <2>2, <2>3, PlainCarries
<1> QED BY <1>1, <1>2, <1>3, <1>4, <1>5, HeaderCarries, PartCarries, CrcCarries, AckCarries, DisturbCarries
        DEF Field

-----------------------------------------------------------------------------
(***************************************************************************)
(* The same where the receiving machine gets a field more.                 *)
(***************************************************************************)
LEMMA PutExact ==
  ASSUME NEW d, Driver(d), Machine(d), ~d.stall, NEW f, NEW total
  PROVE  IF d.sync = "lost" THEN Put(d, f, total) = d
                            ELSE Pipe(Put(d, f, total)) = Append(Pipe(d), f)
<1> DEFINE e == Put(d, f, total)
<1>1. IF d.sync = "lost" THEN e = d
      ELSE \/ e.rx = d.rx /\ e.isr = Append(d.isr, f)
           \/ e.rx = Append(d.rx \o d.isr, f) /\ e.isr = <<>>
           \/ e.rx = d.rx \o d.isr /\ e.isr = <<f>>
  <2>1. \/ /\ d.sync = "lost" \/ (d.stall /\ d.rx # <<>>)
           /\ e = d
        \/ /\ ~(d.sync = "lost" \/ (d.stall /\ d.rx # <<>>))
           /\ \/ total < 10 /\ e.rx = d.rx /\ e.isr = Append(d.isr, f) /\ e.held = total
              \/ /\ ~(total < 10) /\ total % 10 = 0
                 /\ e.rx = Append(d.rx \o d.isr, f) /\ e.isr = <<>> /\ e.held = 0
              \/ /\ ~(total < 10) /\ total % 10 # 0
                 /\ e.rx = d.rx \o d.isr /\ e.isr = <<f>> /\ e.held = total % 10
    BY PutDoes, Zenon
  <2> HIDE DEF e
  <2> QED BY <2>1
<1> HIDE DEF e
<1>2. /\ d.rx \o Append(d.isr, f) = Append(Pipe(d), f)
      /\ Append(d.rx \o d.isr, f) \o <<>> = Append(Pipe(d), f)
      /\ (d.rx \o d.isr) \o <<f>> = Append(Pipe(d), f)
  <2> DEFINE a == d.rx
             b == d.isr
  <2>1. IsASequence(a) /\ IsASequence(b)
    BY DEF Machine
  <2> HIDE DEF a, b
  <2>2. a \o Append(b, f) = Append(a \o b, f)
    BY <2>1, PipeOf
  <2>3. Append(a \o b, f) \o <<>> = Append(a \o b, f)
    BY <2>1, PipeOf
  <2>4. (a \o b) \o <<f>> = Append(a \o b, f)
    BY <2>1, PipeOf
  <2> QED BY <2>2, <2>3, <2>4 DEF Pipe, a, b
<1> QED BY <1>1, <1>2 DEF Pipe, e

LEMMA PutClears ==
  ASSUME NEW d, Driver(d), Machine(d), ~d.stall, Signals(d), NEW at, Cleared(d, at),
         NEW f, Comes(at, f), NEW total \in Nat,
         f.is = "header" \/ (f.is = "passive" /\ at # "free") => total >= 10
  PROVE  Cleared(Put(d, f, total), Leads(f))
<1> DEFINE e == Put(d, f, total)
           at2 == Leads(f)
           Fine(g) == /\ g.is = "sof" => at2 \in {"header", "delimiter"}
                      /\ g.is = "flag" => at2 = "delimiter"
<1>1. \/ /\ d.sync = "lost" \/ (d.stall /\ d.rx # <<>>)
         /\ e = d
      \/ /\ ~(d.sync = "lost" \/ (d.stall /\ d.rx # <<>>))
         /\ \/ total < 10 /\ e.rx = d.rx /\ e.isr = Append(d.isr, f) /\ e.held = total
            \/ /\ ~(total < 10) /\ total % 10 = 0
               /\ e.rx = Append(d.rx \o d.isr, f) /\ e.isr = <<>> /\ e.held = 0
            \/ /\ ~(total < 10) /\ total % 10 # 0
               /\ e.rx = d.rx \o d.isr /\ e.isr = <<f>> /\ e.held = total % 10
  BY PutDoes, Zenon
<1>2. e.isr = <<>> \/ e.isr = <<f>> \/ (total < 10 /\ e.isr = Append(d.isr, f))
  <2> HIDE DEF e
  <2>1. d.sync = "lost" => d.isr = <<>>
    BY DEF Signals
  <2> QED BY <1>1, <2>1
<1> HIDE DEF e
<1>3. Fine(f)
  BY DEF Leads
<1>4. ASSUME total < 10, NEW i \in 1 .. Len(d.isr) PROVE Fine(d.isr[i])
  <2>1. f.is # "header" /\ (f.is = "passive" => at = "free")
    BY <1>4
  <2>2. at # "delimiter" /\ (at = "header" => f.is = "flag")
    BY <2>1 DEF Comes
  <2>3. f.is = "flag" => at2 = "delimiter"
    BY DEF Leads
  <2> HIDE DEF at2
  <2> QED BY <1>4, <2>2, <2>3 DEF Cleared
<1> HIDE DEF at2
<1>5. \A i \in 1 .. Len(<<>>) : FALSE
  OBVIOUS
<1>6. \A i \in 1 .. Len(<<f>>) : <<f>>[i] = f
  OBVIOUS
<1>7. ASSUME total < 10, e.isr = Append(d.isr, f), NEW i \in 1 .. Len(e.isr) PROVE Fine(e.isr[i])
  <2> DEFINE s == d.isr
             t == Append(s, f)
  <2>1. IsASequence(s)
    BY DEF Machine
  <2>2. t = e.isr /\ i \in 1 .. Len(t)
    BY <1>7
  <2> HIDE DEF s
  <2>3. /\ Len(s) \in Nat /\ Len(t) = Len(s) + 1 /\ t[Len(s) + 1] = f
        /\ \A j \in 1 .. Len(s) : t[j] = s[j]
    BY <2>1, AppendedAt
  <2> HIDE DEF t
  <2>4. i = Len(s) + 1 \/ i \in 1 .. Len(s)
    BY <2>2, <2>3
  <2>5. CASE i = Len(s) + 1
    <3>1. t[i] = f
      BY <2>3, <2>5
    <3> QED BY <1>3, <2>2, <3>1
  <2>6. CASE i \in 1 .. Len(s)
    <3>1. t[i] = s[i] /\ Fine(s[i])
      BY <1>4, <1>7, <2>3, <2>6 DEF s
    <3> QED BY <2>2, <3>1
  <2> QED BY <2>4, <2>5, <2>6
<1>8. \A i \in 1 .. Len(e.isr) : Fine(e.isr[i])
  BY <1>2, <1>3, <1>5, <1>6, <1>7
<1> QED BY <1>8 DEF Cleared, e, at2

(* The grammar does not depend on when the receiving machine falls into    *)
(* step with the bus.                                                      *)
LEMMA GrammarAny ==
  ASSUME NEW d, NEW p, NEW at, Follows(d, p, 0, at), d.sync = "lost" => p = <<>>
  PROVE  Grammar(d, p, 0, at)
<1>1. \A i \in 0 + 1 .. Len(<<>>) - 1 : FALSE
  OBVIOUS
<1>2. Len(<<>>) = 0 /\ ~(0 < 0)
  OBVIOUS
<1> QED BY <1>1, <1>2 DEF Follows, Grammar, Fits

LEMMA GrammarLonger ==
  ASSUME NEW d, NEW e, e.parse = d.parse, NEW p, IsASequence(p), NEW at, Grammar(d, p, 0, at),
         NEW f, Comes(at, f)
  PROVE  Grammar(e, Append(p, f), 0, Leads(f)) /\ Rests(e, Append(p, f), 0, Leads(f))
<1> DEFINE q == Append(p, f)
           n == Len(p)
<1>1. /\ n \in Nat /\ Len(q) = n + 1 /\ q[n + 1] = f
      /\ \A i \in 1 .. n : q[i] = p[i]
  BY AppendedAt
<1>2. at \in At \cup {"free"}
  BY LeadsIn
<1> HIDE DEF q, n
<1>3. /\ 0 < n + 1 /\ 0 # n + 1 /\ 0 + 1 = 1 /\ (n = 0 \/ (0 < n /\ 1 \in 1 .. n))
      /\ \A i \in 0 + 1 .. (n + 1) - 1 : i = n \/ (i \in 0 + 1 .. n - 1 /\ i \in 1 .. n /\ i + 1 \in 1 .. n)
  BY <1>1
<1>4. Awaits(d.parse, q[1])
  <2>1. CASE n = 0
    <3>1. Fits(d.parse, at) /\ q[1] = f
      BY <1>1, <2>1 DEF Grammar, n
    <3> QED BY <1>2, <3>1 DEF Awaits
  <2>2. CASE n # 0
    BY <1>1, <1>3, <2>2 DEF Grammar, n
  <2> QED BY <2>1, <2>2
<1>5. ASSUME NEW i \in 0 + 1 .. (n + 1) - 1 PROVE Comes(Leads(q[i]), q[i + 1])
  <2>1. CASE i = n
    <3>1. n \in 1 .. n /\ 0 < n
      BY <1>1, <1>5, <2>1
    <3>2. Leads(p[n]) = at /\ q[n] = p[n]
      BY <1>1, <3>1 DEF Grammar, n
    <3> QED BY <1>1, <2>1, <3>2
  <2>2. CASE i # n
    <3>1. i \in 0 + 1 .. n - 1 /\ q[i] = p[i] /\ q[i + 1] = p[i + 1]
      BY <1>1, <1>3, <1>5, <2>2
    <3> QED BY <3>1 DEF Grammar, n
  <2> QED BY <2>1, <2>2
<1> QED BY <1>1, <1>3, <1>4, <1>5 DEF Grammar, Rests, q

LEMMA HeadedLonger ==
  ASSUME NEW d, NEW e, e.parse = d.parse, NEW p, IsASequence(p), NEW f, NEW out, NEW out2,
         Headed(d, p, 0, out), out => f.is = "header" /\ f.frame.own
  PROVE  Headed(e, Append(p, f), 0, out2)
<1> DEFINE q == Append(p, f)
           n == Len(p)
<1>1. /\ n \in Nat /\ Len(q) = n + 1 /\ q[n + 1] = f
      /\ \A i \in 1 .. n : q[i] = p[i]
  BY AppendedAt
<1> HIDE DEF q, n
<1>2. n + 1 \in 0 + 1 .. n + 1 /\ \A i \in 0 + 1 .. n : i \in 1 .. n /\ i \in 0 + 1 .. n + 1
  BY <1>1
<1>3. \A i : Due(d, 0, i) => Due(e, 0, i)
  BY DEF Due
<1>4. ASSUME NEW i \in 0 + 1 .. n, Own(p, i), Due(d, 0, i) PROVE Headed(e, q, 0, out2)
  <2>1. i \in 0 + 1 .. Len(q) /\ Own(q, i) /\ Due(e, 0, i)
    BY <1>1, <1>2, <1>3, <1>4 DEF Own
  <2> QED BY <2>1 DEF Headed
<1>5. ASSUME out, Due(d, 0, n + 1) PROVE Headed(e, q, 0, out2)
  <2>1. n + 1 \in 0 + 1 .. Len(q) /\ Own(q, n + 1) /\ Due(e, 0, n + 1)
    BY <1>1, <1>2, <1>3, <1>5 DEF Own
  <2> QED BY <2>1 DEF Headed
<1> QED BY <1>4, <1>5 DEF Headed, q, n

LEMMA SofLonger ==
  ASSUME NEW p, IsASequence(p), NEW f, SofAhead(p, 0) \/ f.is = "sof"
  PROVE  SofAhead(Append(p, f), 0)
<1> DEFINE q == Append(p, f)
           n == Len(p)
<1>1. /\ n \in Nat /\ Len(q) = n + 1 /\ q[n + 1] = f
      /\ \A i \in 1 .. n : q[i] = p[i]
  BY AppendedAt
<1> HIDE DEF q, n
<1>2. n + 1 \in 0 + 1 .. n + 1 /\ \A i \in 0 + 1 .. n : i \in 1 .. n /\ i \in 0 + 1 .. n + 1
  BY <1>1
<1> QED BY <1>1, <1>2 DEF SofAhead, q, n

-----------------------------------------------------------------------------
(***************************************************************************)
(* Nothing is left queued: while no bits have been lost, what is watched   *)
(* will wake the handler for every fragment in the queue.                  *)
(***************************************************************************)
(* The handler has been told of the queue, and of the idle line.           *)
Woken(d, waking) ==
  /\ d.queue # <<>> => "TXPENDING" \in d.irq \/ waking
  /\ d.sync = "idle" => "MAYTX" \in d.irq

(* The transmitter that drives a frame is on the bus with it.              *)
Drives(d, at, own) ==
  /\ d.sm = "sending" => own /\ at \in {"header", "check", "crc"}
  /\ d.sm = "sent" => ~(at = "header" /\ own)

Tracked(d, at, out, waking) ==
  Follows(d, Pipe(d), 0, at) /\ WakeInv(d, Pipe(d), 0, out) /\ Woken(d, waking)

Attended(d, at, own, out, waking) ==
  /\ ~d.stall /\ Cleared(d, at) /\ Drives(d, at, own) /\ QuietLast(d)
  /\ d.on => Tracked(d, at, out, waking)

WakeOK == ~overrun => Attended(cd, bus.at, bus.own, HeaderOut, main = "wake")

LEMMA ReadsQueue ==
  ASSUME NEW d, NEW f, NEW e, NEW n, NEW W, DriverInv(d, n, W), Reads(d, f, e), d.queue = <<>>
  PROVE  e.queue = <<>>
<1>1. d.report # "TX_EOF"
  BY DEF DriverInv, Duties
<1>2. ASSUME NEW S, Only(d, e, S), "queue" \notin S PROVE e.queue = d.queue
  BY <1>2 DEF Only, Fields
<1> QED BY <1>1, <1>2 DEF Reads, Discards, Settles, Starts, TakesOwn, TakesOther, CrcGood, AckGood,
                          Eof0Good, Ends

LEMMA LoopQueue ==
  ASSUME IrqRxData, Base, FlowOK, ~cd.stall, QuietLast(cd), cd.queue = <<>>
  PROVE  cd'.queue = <<>>
<1>1. PICK u, n : Loop(u, n)
  BY LoopReads
<1> DEFINE p == Pipe(cd)
           T == { i \in 0 .. n : u[i].queue = <<>> }
<1>2. n \in Nat /\ u[0] = Flushed(cd) /\ (cd' = u[n] \/ cd' = LineQuiet(u[n]))
  BY <1>1 DEF Loop
<1>3. \A i \in 0 .. n : DriverInv(u[i], sent, withdrawn)
  BY <1>1 DEF Loop
<1>4. \A i \in 1 .. n : Reads(u[i - 1], p[i], u[i])
  BY <1>1 DEF Loop
<1>5. Flushed(cd).queue = <<>>
  <2> DEFINE e == Flushed(cd)
  <2>1. Only(cd, e, {"rx"})
    BY FlushedDoes DEF Base, DriverInv, QueueInv
  <2> HIDE DEF e
  <2>2. e.queue = cd.queue
    BY <2>1 DEF Only, Fields
  <2> QED BY <2>2 DEF e
<1> HIDE DEF p
<1>6. 0 \in T
  BY <1>2, <1>5
<1>7. \A i \in 1 .. n : i - 1 \in T => i \in T
  <2> SUFFICES ASSUME NEW i \in 1 .. n, i - 1 \in T PROVE i \in T
    OBVIOUS
  <2>1. i - 1 \in 0 .. n /\ i \in 0 .. n /\ u[i - 1].queue = <<>>
    BY <1>2
  <2>2. u[i].queue = <<>>
    BY <1>3, <1>4, <2>1, ReadsQueue
  <2> QED BY <2>1, <2>2
<1> HIDE DEF T
<1>8. \A i \in 0 .. n : i \in T
  BY <1>2, <1>6, <1>7, CountUp
<1>9. n \in T /\ n \in 0 .. n
  BY <1>2, <1>8
<1>10. u[n].queue = <<>> /\ Driver(u[n])
  BY <1>3, <1>9 DEF T, DriverInv, QueueInv
<1>11. LineQuiet(u[n]).queue = u[n].queue
  BY <1>10, ResetIs
<1> QED BY <1>2, <1>10, <1>11

LEMMA ActsQueue ==
  ASSUME NEW l, NEW d, NEW e, NEW n, NEW W, DriverInv(d, n, W), l \in d.inte, Acts(l, d, e),
         d.queue = <<>>
  PROVE  e.queue = <<>>
<1>1. d.report \notin {"TX_ACK", "TX_EOF"}
  BY DEF DriverInv, Duties
<1>2. ASSUME NEW h, NEW lines, Schedules(h, e, lines) PROVE e.queue = h.queue
  BY <1>2 DEF Schedules, Only, Fields
<1>3. ASSUME NEW h, NEW received, NEW transmitted, Finishes(d, h, received, transmitted),
             transmitted \subseteq {"TX_ACK", "TX_EOF"}
      PROVE  h.queue = d.queue
  BY <1>1, <1>3 DEF Finishes
<1>4. CASE l = "ACKDONE"
  <2>1. PICK h : Only(d, h, {"key"}) /\ Schedules(h, e, {"MAYTX", "MATCHED"})
    BY <1>4 DEF Acts
  <2>2. h.queue = d.queue
    BY <2>1 DEF Only, Fields
  <2> QED BY <1>2, <2>1, <2>2
<1>5. CASE l = "MATCHED"
  <2>1. PICK h : Finishes(d, h, {"RX_ACK", "RX_EOF"}, {"TX_ACK", "TX_EOF"}) /\ Schedules(h, e, {})
    BY <1>5 DEF Acts
  <2> QED BY <1>2, <1>3, <2>1
<1>6. CASE l = "MAYTX"
  <2>1. PICK h : Finishes(d, h, {"RX_EOF"}, {"TX_EOF"}) /\ Schedules(h, e, {})
    BY <1>6 DEF Acts
  <2> QED BY <1>2, <1>3, <2>1
<1>7. CASE l = "TXPENDING" /\ Injects(d, e)
  BY <1>7 DEF Injects, Only, Fields
<1>8. CASE l = "TXPENDING" /\ Schedules(d, e, d.inte \ {"TXPENDING"})
  BY <1>2, <1>8
<1> QED BY <1>4, <1>5, <1>6, <1>7, <1>8 DEF Acts

(* Steps: the interrupt.                                                   *)
LEMMA IrqKeepsWake ==
  ASSUME Base, FlowOK, WakeOK, Irq PROVE WakeOK'
<1>1. bus' = bus /\ HeaderOut' = HeaderOut /\ main' = main
      /\ overrun' = overrun
  BY IrqIs DEF Irq, IrqRxData, IrqLine, Untouched, counters, HeaderOut
<1> SUFFICES ASSUME ~overrun
             PROVE  Attended(cd', bus.at, bus.own, HeaderOut, main = "wake")
  BY <1>1 DEF WakeOK
<1> DEFINE at == bus.at
           own == bus.own
           out == HeaderOut
           waking == main = "wake"
<1>2. Attended(cd, at, own, out, waking)
  BY DEF WakeOK
<1>3. /\ ~cd.stall /\ Cleared(cd, at) /\ Drives(cd, at, own) /\ QuietLast(cd) /\ cd.on
      /\ Follows(cd, Pipe(cd), 0, at) /\ WakeInv(cd, Pipe(cd), 0, out) /\ Woken(cd, waking)
  BY <1>2, IrqIs DEF Attended, Tracked, IrqRxData, IrqLine
<1>4. CASE IrqRxData
  <2>1. /\ Follows(cd', Pipe(cd'), 0, at) /\ WakeInv(cd', Pipe(cd'), 0, out)
        /\ QuietLast(cd') /\ (Steady(cd, cd') \/ Reset(cd'))
    BY <1>3, <1>4, LoopWakes
  <2>2. cd.queue = <<>> => cd'.queue = <<>>
    BY <1>3, <1>4, LoopQueue
  <2>3. Woken(cd', waking)
    BY <1>3, <2>1, <2>2 DEF Woken, Steady, Reset
  <2>4. Cleared(cd', at) /\ Drives(cd', at, own) /\ ~cd'.stall
    <3>1. CASE Steady(cd, cd')
      BY <1>3, <3>1 DEF Cleared, Drives, Steady
    <3>2. CASE Reset(cd')
      <4>1. \A i \in 1 .. Len(<<>>) : FALSE
        OBVIOUS
      <4> QED BY <3>2, <4>1 DEF Cleared, Drives, Reset
    <3> QED BY <2>1, <3>1, <3>2
  <2> QED BY <2>1, <2>3, <2>4 DEF Attended, Tracked
<1>5. ASSUME NEW l \in Lines, IrqLine(l)
      PROVE  Attended(cd', at, own, out, waking)
  <2>1. /\ cd.rx = <<>> /\ l \in cd.irq /\ l \in cd.inte /\ Handled(l, cd, cd')
        /\ DriverInv(cd, sent, withdrawn) /\ Driver(cd) /\ IsASequence(cd.isr) /\ IsASequence(cd.rx)
    BY <1>5 DEF IrqLine, Base, Machine, DriverInv, QueueInv
  <2>2. Line1(cd, cd') /\ Acts(l, cd, cd')
    BY <2>1, HandledTells, HandledActs
  <2>3. /\ cd'.rx = cd.rx /\ cd'.isr = cd.isr /\ cd'.stall = cd.stall /\ cd'.sync = cd.sync
        /\ cd'.on = cd.on
    BY <2>2 DEF Line1, Streams, Rings
  <2>4. Pipe(cd) = cd.isr
    <3> DEFINE b == cd.isr
    <3>1. IsASequence(b) /\ IsASequence(<<>>)
      BY <2>1
    <3> HIDE DEF b
    <3>2. <<>> \o b = b
      BY <3>1, PipeOf
    <3> QED BY <2>1, <3>2 DEF Pipe, b
  <2>5. Pipe(cd') = cd.isr
    BY <2>3, <2>4 DEF Pipe
  <2>6. /\ HeldBack(cd, at) /\ Signals(cd) /\ (cd.sync \in Still => at = "free")
        /\ (out => at = "header")
    BY FreeAt DEF FlowOK, HeaderOut
  <2>7. Follows(cd, cd.isr, 0, at) /\ WakeInv(cd, cd.isr, 0, out)
    BY <1>3, <2>4
  <2>8. Follows(cd', cd.isr, 0, at) /\ WakeInv(cd', cd.isr, 0, out)
    <3> DEFINE b == cd.isr
    <3> HIDE DEF at, out
    <3> QED BY <1>3, <2>1, <2>2, <2>6, <2>7, LineWakes
  <2>9. /\ cd.irq \ {"MATCHED", "ACKDONE", "TXPENDING"} \subseteq cd'.irq
        /\ cd'.queue # <<>> /\ "TXPENDING" \in cd.irq => "TXPENDING" \in cd'.irq
        /\ \/ cd'.sm = cd.sm
           \/ cd'.sm \in {"send", "inject"}
    BY <1>3, <2>1, <2>2, ActsWakes DEF WakeInv, Busy
  <2>10. cd.queue = <<>> => cd'.queue = <<>>
    BY <2>1, <2>2, ActsQueue
  <2>11. Woken(cd', waking)
    BY <1>3, <2>3, <2>9, <2>10 DEF Woken
  <2>12. Cleared(cd', at) /\ Drives(cd', at, own) /\ ~cd'.stall /\ QuietLast(cd')
    BY <1>3, <2>3, <2>4, <2>5, <2>9 DEF Cleared, Drives, QuietLast
  <2> QED BY <2>5, <2>8, <2>11, <2>12 DEF Attended, Tracked
<1> QED BY <1>4, <1>5, IrqIs

(* Where the reset of a quiet line may be after a step of the bus.         *)
LEMMA QuietLonger ==
  ASSUME NEW p, IsASequence(p), \A i \in 1 .. Len(p) : p[i].is # "quiet", NEW f, NEW e,
         Pipe(e) = Append(p, f), f.is = "quiet" => e.sync = "quiet"
  PROVE  QuietLast(e)
<1> DEFINE q == Append(p, f)
           n == Len(p)
<1>1. /\ n \in Nat /\ Len(q) = n + 1 /\ q[n + 1] = f
      /\ \A i \in 1 .. n : q[i] = p[i]
  BY AppendedAt
<1>2. Pipe(e) = q /\ \A i \in 1 .. n : p[i].is # "quiet"
  OBVIOUS
<1> HIDE DEF q, n
<1>3. ASSUME NEW i \in 1 .. Len(q), q[i].is = "quiet" PROVE i = Len(q) /\ e.sync = "quiet"
  <2>1. i \in 1 .. n \/ i = n + 1
    BY <1>1
  <2> QED BY <1>1, <1>2, <1>3, <2>1
<1> QED BY <1>2, <1>3 DEF QuietLast

LEMMA PipeIs ==
  ASSUME Base PROVE IsASequence(Pipe(cd))
<1> DEFINE a == cd.rx
           b == cd.isr
<1>1. IsASequence(a) /\ IsASequence(b)
  BY DEF Base, Machine
<1> HIDE DEF a, b
<1>2. IsASequence(a \o b)
  BY <1>1, Joined
<1> QED BY <1>2 DEF Pipe, a, b

LEMMA NoQuiet ==
  ASSUME Base, \/ ~ResetAhead
               \/ QuietLast(cd) /\ cd.sync # "quiet"
  PROVE  \A i \in 1 .. Len(Pipe(cd)) : Pipe(cd)[i].is # "quiet"
<1>1. CASE ~ResetAhead
  <2> DEFINE p == Pipe(cd)
  <2>1. ToSet(p) = { p[i] : i \in DOMAIN p } /\ \A g \in ToSet(p) : g.is # "quiet"
    BY <1>1 DEF ResetAhead, ToSet, Pipe
  <2>2. IsASequence(p)
    BY PipeIs
  <2> HIDE DEF p
  <2>3. DOMAIN p = 1 .. Len(p)
    BY <2>2 DEF IsASequence
  <2> QED BY <2>1, <2>3 DEF p
<1>2. CASE QuietLast(cd) /\ cd.sync # "quiet"
  BY <1>2 DEF QuietLast
<1> QED BY <1>1, <1>2

(* Steps: the bus.                                                         *)
LEMMA BegunWakes ==
  ASSUME Base, FlowOK, NEW c, Only(cd, c, {"sm"}), ~cd.stall, Cleared(cd, "free"),
         \A i \in 1 .. Len(Pipe(cd)) : Pipe(cd)[i].is # "quiet",
         NEW out, NEW before, ~before, NEW waking,
         cd.on => Tracked(cd, "free", before, waking),
         c.sm \in {cd.sm, "conflict"} \/ (c.sm = "sending" /\ out /\ cd.sync \in Still)
  PROVE  LET e == Begun(c)
         IN /\ ~e.stall /\ Cleared(e, "header") /\ e.sm = c.sm /\ QuietLast(e)
            /\ e.on => Tracked(e, "header", out, waking)
<1> DEFINE e == Begun(c)
           p == Pipe(cd)
           f == Sof
           q == Append(p, f)
<1>1. Driver(cd) /\ Machine(cd) /\ Driver(c) /\ IsASequence(p) /\ cd.held \in Nat /\ Signals(cd)
  BY PipeIs DEF Base, DriverInv, QueueInv, Machine, Only, FlowOK
<1>2. PICK b : /\ Only(c, b, {"sync", "irq"}) /\ b.sync = "frame" /\ b.irq = c.irq \ {"MAYTX"}
               /\ e = Put(b, f, b.held + 1)
  BY <1>1, BegunDoes
<1> HIDE DEF e
<1>3. /\ Only(cd, b, {"sm", "sync", "irq"}) /\ b.sm = c.sm /\ b.held = cd.held /\ b.rx = cd.rx
      /\ b.isr = cd.isr /\ b.stall = cd.stall /\ Driver(b) /\ b.head = cd.head /\ b.tail = cd.tail
      /\ b.irq = cd.irq \ {"MAYTX"}
  BY <1>2 DEF Only, Fields
<1>4. Machine(b) /\ b.held + 1 \in Nat /\ Pipe(b) = p /\ Signals(b) /\ Cleared(b, "free")
  BY <1>1, <1>2, <1>3 DEF Machine, Pipe, Signals, Cleared
<1>5. Only(b, e, {"isr", "held", "rx"}) /\ Pipe(e) = q
  <2>1. Only(b, e, {"isr", "held", "rx"})
    BY <1>2, <1>3, PutDoes
  <2>2. Pipe(e) = Append(Pipe(b), f)
    BY <1>2, <1>3, <1>4, PutExact
  <2> QED BY <1>4, <2>1, <2>2
<1>6. f.is = "sof" /\ Leads(f) = "header" /\ Comes("free", f)
  BY FieldKinds DEF Leads, Comes
<1>q. \A i \in 1 .. Len(p) : p[i].is # "quiet"
  OBVIOUS
<1> HIDE DEF f, p, q
<1>r. QuietLast(e)
  BY <1>1, <1>5, <1>6, <1>q, QuietLonger DEF q
<1>7. Cleared(e, "header")
  BY <1>2, <1>3, <1>4, <1>6, PutClears
<1>8. /\ e.sm = c.sm /\ e.stall = cd.stall /\ e.on = cd.on /\ e.sync = "frame" /\ e.tx = cd.tx
      /\ e.inte = cd.inte /\ e.parse = cd.parse /\ e.queue = cd.queue /\ e.irq = cd.irq \ {"MAYTX"}
  BY <1>2, <1>3, <1>5 DEF Only, Fields
<1>9. ASSUME cd.on PROVE Tracked(e, "header", out, waking)
  <2>1. Follows(cd, p, 0, "free") /\ WakeInv(cd, p, 0, before) /\ Woken(cd, waking)
    BY <1>9 DEF Tracked, p
  <2>2. cd.sync = "lost" => p = <<>>
    <3>1. cd.sync = "lost" => p = <<>> \o <<>>
      BY <1>1 DEF Signals, p, Pipe
    <3>2. <<>> \o <<>> = <<>>
      OBVIOUS
    <3> QED BY <3>1, <3>2
  <2>3. Grammar(e, q, 0, "header") /\ Rests(e, q, 0, "header")
    <3>1. Grammar(cd, p, 0, "free")
      BY <2>1, <2>2, GrammarAny
    <3> QED BY <1>1, <1>6, <1>8, <3>1, GrammarLonger DEF q
  <2>4. SofAhead(q, 0)
    BY <1>1, <1>6, SofLonger DEF q
  <2>5. Watched(e, q, 0)
    BY <1>8, <2>1, <2>4 DEF WakeInv, Watched
  <2>6. ASSUME e.tx = "QUEUED", e.sm \in {"sending", "sent"} PROVE Headed(e, q, 0, out)
    <3>1. CASE c.sm = cd.sm
      <4>1. Headed(cd, p, 0, before)
        BY <1>8, <2>1, <2>6, <3>1 DEF WakeInv, Busy
      <4> QED BY <1>1, <1>8, <4>1, HeadedLonger DEF q
    <3>2. CASE out /\ cd.sync \in Still
      <4>1. Rests(cd, p, 0, "free")
        BY <2>1, <3>2 DEF Follows, Still
      <4>2. Len(p) \in Nat /\ Len(q) = Len(p) + 1
        BY <1>1, AppendedAt DEF q
      <4>3. Due(e, 0, Len(q) + 1)
        BY <1>8, <4>1, <4>2 DEF Due, Rests
      <4> QED BY <3>2, <4>3 DEF Headed
    <3>3. CASE c.sm = "conflict"
      BY <1>8, <2>6, <3>3
    <3> QED BY <3>1, <3>2, <3>3
  <2>7. Busy(e, q, 0, out)
    <3>1. e.tx = "QUEUED" => e.sm \in {"send", "sending", "sent", "conflict", "stuck"}
      BY <1>8, <2>1 DEF WakeInv, Busy
    <3> QED BY <1>8, <2>6, <3>1 DEF Busy
  <2>8. Woken(e, waking)
    BY <1>8, <2>1 DEF Woken
  <2> QED BY <1>5, <1>8, <2>3, <2>5, <2>7, <2>8 DEF Tracked, Follows, WakeInv
<1> QED BY <1>r, <1>7, <1>8, <1>9 DEF e

LEMMA FramesKeepWake ==
  ASSUME Base, FlowOK, WakeOK, OwnFrame \/ \E same \in BOOLEAN : OtherFrame(same)
  PROVE  WakeOK'
<1>0. overrun' = (overrun \/ ResetAhead)
  BY DEF OwnFrame, OtherFrame
<1> SUFFICES ASSUME ~overrun, ~ResetAhead, ~overrun' PROVE WakeOK'
  BY <1>0 DEF WakeOK
<1>q. \A i \in 1 .. Len(Pipe(cd)) : Pipe(cd)[i].is # "quiet"
  BY NoQuiet
<1>1. Driver(cd) /\ bus = Free /\ bus.at = "free" /\ main' = main
  BY FreeAt DEF Base, DriverInv, QueueInv, OwnFrame, OtherFrame
<1> DEFINE waking == main = "wake"
<1>2. PICK before : before = HeaderOut
  OBVIOUS
<1>3. ~before
  BY <1>1, <1>2 DEF HeaderOut
<1>4. /\ ~cd.stall /\ Cleared(cd, "free") /\ Drives(cd, "free", bus.own)
      /\ cd.on => Tracked(cd, "free", before, waking)
  BY <1>1, <1>2 DEF WakeOK, Attended
<1>5. ASSUME NEW e, NEW c, e = Begun(c), Only(cd, c, {"sm"}), cd' = e, NEW out, out = HeaderOut',
             c.sm \in {cd.sm, "conflict"} \/ (c.sm = "sending" /\ out /\ cd.sync \in Still),
             bus'.at = "header", c.sm = "sent" => ~bus'.own, c.sm = "sending" => bus'.own
      PROVE  WakeOK'
  <2>1. /\ ~e.stall /\ Cleared(e, "header") /\ e.sm = c.sm /\ QuietLast(e)
        /\ e.on => Tracked(e, "header", out, waking)
    BY <1>q, <1>3, <1>4, <1>5, BegunWakes
  <2>2. Attended(e, bus'.at, bus'.own, HeaderOut', waking)
    BY <1>5, <2>1 DEF Attended, Drives
  <2> QED BY <1>1, <1>5, <2>2 DEF WakeOK
<1>6. CASE OwnFrame
  <2>1. PICK c : Only(cd, c, {"sm"}) /\ c.sm = "sending" /\ cd' = Begun(c)
    BY <1>1, <1>6, OwnFrameDoes
  <2>2. bus'.at = "header" /\ bus'.own
    BY <1>6, BeginOK DEF OwnFrame
  <2>3. HeaderOut' = TRUE
    BY <2>2 DEF HeaderOut
  <2>4. cd.sync \in Still
    BY <1>6 DEF OwnFrame, FlowOK, Signals
  <2> QED BY <1>5, <2>1, <2>2, <2>3, <2>4
<1>7. ASSUME NEW same \in BOOLEAN, OtherFrame(same) PROVE WakeOK'
  <2>1. PICK c : /\ Only(cd, c, {"sm"}) /\ cd' = Begun(c)
                 /\ c.sm = cd.sm \/ c.sm = "conflict"
    BY <1>1, <1>7, OtherFrameDoes
  <2>2. bus'.at = "header" /\ ~bus'.own
    BY <1>7, BeginOK DEF OtherFrame
  <2>3. c.sm # "sending"
    BY <1>4, <2>1 DEF Drives
  <2> QED BY <1>5, <2>1, <2>2, <2>3
<1> QED BY <1>6, <1>7

LEMMA QuietKeepsWake ==
  ASSUME Base, FlowOK, WakeOK, CounterOverflow \/ QuietBits PROVE WakeOK'
<1>1. Driver(cd) /\ Machine(cd) /\ Signals(cd) /\ IsASequence(Pipe(cd))
  BY PipeIs DEF Base, DriverInv, QueueInv, FlowOK
<1>2. /\ bus.at = "free" /\ bus' = bus /\ main' = main /\ overrun' = overrun
      /\ HeaderOut' = HeaderOut /\ ~HeaderOut
  BY FreeAt DEF CounterOverflow, QuietBits, Untouched, HeaderOut
<1> SUFFICES ASSUME ~overrun
             PROVE  Attended(cd', "free", bus.own, HeaderOut, main = "wake")
  BY <1>2 DEF WakeOK
<1> DEFINE out == HeaderOut
           own == bus.own
           waking == main = "wake"
           p == Pipe(cd)
<1>3. /\ ~cd.stall /\ Cleared(cd, "free") /\ Drives(cd, "free", own) /\ QuietLast(cd)
      /\ cd.on => Tracked(cd, "free", out, waking)
  BY <1>2 DEF WakeOK, Attended
<1>4. PICK b, f, total :
        /\ total \in Nat
        /\ Only(cd, b, {"sync"}) /\ b.sync = "quiet" /\ cd' = Put(b, f, total)
        /\ f.is \in {"passive", "quiet"} /\ cd.sync \in Still
        /\ ~ResetAhead \/ cd.sync # "quiet"
  <2>1. CASE CounterOverflow
    <3>1. PICK b : /\ Only(cd, b, {"sync"}) /\ b.sync = "quiet"
                   /\ cd' = Put(b, Passive(10), 10) /\ cd.sync = "idle"
      BY <1>1, <2>1, CounterOverflowDoes
    <3> DEFINE x == Passive(10)
    <3>2. x.is \in {"passive", "quiet"} /\ 10 \in Nat /\ cd.sync \in Still /\ cd.sync # "quiet"
      BY <3>1 DEF Passive, Still
    <3>3. cd' = Put(b, x, 10)
      BY <3>1
    <3> HIDE DEF x
    <3> QED BY <3>1, <3>2, <3>3, Zenon
  <2>2. CASE QuietBits
    <3>1. PICK r \in 1 .. 10 : cd' = Put(cd, Quiet, r)
      BY <2>2, QuietBitsDoes
    <3>2. Only(cd, cd, {"sync"}) /\ r \in Nat /\ cd.sync = "quiet" /\ ~ResetAhead
      BY <1>1, <2>2, QuietBitsDoes DEF Only
    <3>3. Quiet.is \in {"passive", "quiet"} /\ cd.sync \in Still
      BY <3>2 DEF Quiet, Still
    <3> QED BY <3>1, <3>2, <3>3, Zenon
  <2> QED BY <2>1, <2>2
<1> DEFINE q == Append(p, f)
           e == Put(b, f, total)
<1>5. \A i \in 1 .. Len(p) : p[i].is # "quiet"
  BY <1>3, <1>4, NoQuiet
<1>6. Leads(f) = "free" /\ Comes("free", f) /\ f.is # "header"
  BY <1>4 DEF Leads, Comes
<1>7. /\ b.sm = cd.sm /\ b.rx = cd.rx /\ b.isr = cd.isr /\ b.stall = cd.stall /\ b.held = cd.held
      /\ b.head = cd.head /\ b.tail = cd.tail /\ b.on = cd.on /\ b.tx = cd.tx /\ b.inte = cd.inte
      /\ b.parse = cd.parse /\ b.queue = cd.queue /\ b.irq = cd.irq /\ Driver(b)
  BY <1>4 DEF Only, Fields
<1>8. Machine(b) /\ Pipe(b) = p /\ Cleared(b, "free") /\ Signals(b)
  BY <1>1, <1>3, <1>4, <1>7 DEF Machine, Pipe, Cleared, Signals, Still
<1>9. Only(b, e, {"isr", "held", "rx"})
  BY <1>7, PutDoes
<1>10. Pipe(e) = q
  BY <1>3, <1>4, <1>7, <1>8, PutExact
<1>11. Cleared(e, Leads(f))
  BY <1>3, <1>4, <1>6, <1>7, <1>8, PutClears
<1> HIDE DEF e, q, p
<1>12. /\ e.sm = cd.sm /\ e.stall = cd.stall /\ e.on = cd.on /\ e.sync = "quiet" /\ e.tx = cd.tx
       /\ e.inte = cd.inte /\ e.parse = cd.parse /\ e.queue = cd.queue /\ e.irq = cd.irq
  BY <1>4, <1>7, <1>9 DEF Only, Fields
<1>13. QuietLast(e)
  BY <1>1, <1>5, <1>10, <1>12, QuietLonger DEF q, p
<1>14. Drives(e, "free", own)
  BY <1>3, <1>12 DEF Drives
<1>15. ASSUME cd.on PROVE Tracked(e, "free", out, waking)
  <2>1. Follows(cd, p, 0, "free") /\ WakeInv(cd, p, 0, out) /\ Woken(cd, waking) /\ ~out
        /\ IsASequence(p) /\ cd.sync # "lost"
    BY <1>1, <1>2, <1>3, <1>4, <1>15 DEF Tracked, p, Still
  <2> HIDE DEF out, waking
  <2>2. Grammar(e, q, 0, "free") /\ Rests(e, q, 0, "free")
    <3>1. Grammar(cd, p, 0, "free")
      BY <2>1 DEF Follows
    <3> QED BY <1>6, <1>12, <2>1, <3>1, GrammarLonger DEF q
  <2>3. SofAhead(p, 0) => SofAhead(q, 0)
    BY <2>1, SofLonger DEF q
  <2>4. Headed(cd, p, 0, out) => Headed(e, q, 0, out)
    BY <1>12, <2>1, HeadedLonger DEF q
  <2>5. WakeInv(e, q, 0, out)
    BY <1>12, <2>1, <2>3, <2>4 DEF WakeInv, Watched, Busy
  <2>6. Woken(e, waking)
    BY <1>12, <2>1 DEF Woken
  <2> QED BY <1>10, <1>12, <2>2, <2>5, <2>6 DEF Tracked, Follows
<1>16. cd' = e
  BY <1>4 DEF e
<1> QED BY <1>3, <1>6, <1>11, <1>12, <1>13, <1>14, <1>15, <1>16 DEF Attended

LEMMA LineKeepsWake ==
  ASSUME Base, FlowOK, WakeOK, LineStep PROVE WakeOK'
<1>1. CASE Overrun
  BY <1>1 DEF Overrun, WakeOK
<1>2. CASE Idle
  <2>1. Driver(cd) /\ Machine(cd) /\ cd.held \in Nat /\ Signals(cd)
    BY DEF Base, DriverInv, QueueInv, Machine, FlowOK
  <2>2. bus = Free /\ bus.at = "free" /\ bus' = bus /\ main' = main /\ overrun' = overrun
        /\ HeaderOut' = HeaderOut
    BY <1>2, FreeAt DEF Idle, Untouched, HeaderOut
  <2> SUFFICES ASSUME ~overrun
               PROVE  Attended(cd', "free", bus.own, HeaderOut, main = "wake")
    BY <2>2 DEF WakeOK
  <2> DEFINE out == HeaderOut
             own == bus.own
             waking == main = "wake"
             p == Pipe(cd)
             f == Passive(10)
  <2>3. /\ ~cd.stall /\ Cleared(cd, "free") /\ Drives(cd, "free", own) /\ QuietLast(cd)
        /\ cd.on => Tracked(cd, "free", out, waking)
    BY <2>2 DEF WakeOK, Attended
  <2>4. PICK i : /\ Only(cd, i, {"sync", "irq"}) /\ i.sync = "idle"
                 /\ i.irq = cd.irq \cup {"MAYTX"}
                 /\ \/ cd.sync # "lost" /\ cd' = i
                    \/ cd.sync = "lost" /\ cd' = Put(i, f, i.held + 10)
    BY <1>2, <2>1, IdleDoes
  <2>5. f.is = "passive" /\ Leads(f) = "free" /\ Comes("free", f)
    BY FieldKinds DEF Leads, Comes
  <2>q. \A j \in 1 .. Len(p) : p[j].is # "quiet"
    <3>1. cd.sync # "quiet"
      BY <1>2 DEF Idle
    <3> QED BY <2>3, <3>1, NoQuiet
  <2> HIDE DEF f, out, own, waking
  <2>6. /\ i.sm = cd.sm /\ i.held = cd.held /\ i.rx = cd.rx /\ i.isr = cd.isr /\ i.stall = cd.stall
        /\ i.head = cd.head /\ i.tail = cd.tail /\ i.on = cd.on /\ i.tx = cd.tx /\ i.inte = cd.inte
        /\ i.parse = cd.parse /\ i.queue = cd.queue /\ Driver(i)
    BY <2>4 DEF Only, Fields
  <2>7. Machine(i) /\ i.held + 10 \in Nat /\ i.held + 10 >= 10 /\ Pipe(i) = p /\ Cleared(i, "free")
        /\ Signals(i)
    BY <2>1, <2>3, <2>4, <2>6 DEF Machine, Pipe, Cleared, Signals, Still
  <2> HIDE DEF p
  <2>8. cd.on => Woken(i, waking)
    BY <2>3, <2>4, <2>6 DEF Tracked, Woken
  <2>9. CASE cd.sync # "lost" /\ cd' = i
    <3>1. ASSUME cd.on PROVE Tracked(i, "free", out, waking)
      <4>1. Follows(cd, p, 0, "free") /\ WakeInv(cd, p, 0, out)
        BY <2>3, <3>1 DEF Tracked, p
      <4>2. Headed(cd, p, 0, out) => Headed(i, p, 0, out)
        BY <2>6 DEF Headed, Due
      <4>3. WakeInv(i, p, 0, out)
        BY <2>4, <2>6, <4>1, <4>2 DEF WakeInv, Watched, Busy
      <4>4. Follows(i, p, 0, "free")
        BY <2>4, <2>6, <2>9, <4>1 DEF Follows, Grammar, Rests
      <4> QED BY <2>7, <2>8, <3>1, <4>3, <4>4 DEF Tracked
    <3>2. Drives(i, "free", own)
      BY <2>3, <2>6 DEF Drives
    <3>3. QuietLast(i)
      BY <2>7, <2>q DEF QuietLast
    <3> QED BY <2>3, <2>6, <2>7, <2>9, <3>1, <3>2, <3>3 DEF Attended, out, own, waking
  <2>10. CASE cd.sync = "lost" /\ cd' = Put(i, f, i.held + 10)
    <3> DEFINE e == Put(i, f, i.held + 10)
               q == Append(p, f)
    <3>1. Only(i, e, {"isr", "held", "rx"})
      BY <2>6, PutDoes
    <3>2. Pipe(e) = q
      BY <2>3, <2>4, <2>6, <2>7, PutExact
    <3>3. Cleared(e, "free")
      BY <2>3, <2>5, <2>6, <2>7, PutClears
    <3> HIDE DEF e
    <3>4. /\ e.sm = cd.sm /\ e.stall = cd.stall /\ e.on = cd.on /\ e.sync = "idle" /\ e.tx = cd.tx
          /\ e.inte = cd.inte /\ e.parse = cd.parse /\ e.queue = cd.queue /\ e.irq = i.irq
      BY <2>4, <2>6, <3>1 DEF Only, Fields
    <3>5. p = <<>> /\ IsASequence(p)
      <4>1. p = <<>> \o <<>>
        BY <2>1, <2>10 DEF Signals, p, Pipe
      <4>2. <<>> \o <<>> = <<>> /\ <<>> \in Seq({})
        OBVIOUS
      <4> QED BY <4>1, <4>2 DEF IsASequence
    <3>6. ASSUME cd.on PROVE Tracked(e, "free", out, waking)
      <4>1. Follows(cd, p, 0, "free") /\ WakeInv(cd, p, 0, out)
        BY <2>3, <3>6 DEF Tracked, p
      <4>2. Grammar(e, q, 0, "free") /\ Rests(e, q, 0, "free")
        <5>1. Grammar(cd, p, 0, "free")
          BY <3>5, <4>1, GrammarAny
        <5> QED BY <2>5, <3>4, <3>5, <5>1, GrammarLonger
      <4>3. ~SofAhead(p, 0)
        <5>1. \A j \in 0 + 1 .. Len(<<>>) : FALSE
          OBVIOUS
        <5> QED BY <3>5, <5>1 DEF SofAhead
      <4>4. Watched(e, q, 0)
        BY <3>4, <4>1, <4>3 DEF WakeInv, Watched
      <4>5. Busy(e, q, 0, out)
        BY <2>10, <3>4, <4>1 DEF WakeInv, Busy
      <4>6. Woken(e, waking)
        BY <2>8, <3>4, <3>6, <2>4, <2>6 DEF Woken
      <4> QED BY <3>2, <3>4, <4>2, <4>4, <4>5, <4>6 DEF Tracked, Follows, WakeInv
    <3>7. Drives(e, "free", own)
      BY <2>3, <3>4 DEF Drives
    <3>8. cd' = e
      BY <2>10 DEF e
    <3>9. QuietLast(e)
      BY <2>5, <2>q, <3>2, <3>5, QuietLonger
    <3> QED BY <2>3, <3>3, <3>4, <3>6, <3>7, <3>8, <3>9 DEF Attended, out, own, waking
  <2> QED BY <2>4, <2>9, <2>10
<1> QED BY <1>1, <1>2, QuietKeepsWake DEF LineStep

LEMMA FieldKeepsWake ==
  ASSUME Base, FlowOK, WakeOK, Field PROVE WakeOK'
<1>1. Driver(cd) /\ Machine(cd) /\ BusOK /\ cd.held \in Nat /\ Signals(cd)
  BY DEF Base, DriverInv, QueueInv, Machine, FlowOK
<1>2. overrun' = overrun /\ main' = main
  BY DEF Field, SendHeader, SendCheck, SendCrc, SendAck, SendEof0, SendBit5, SendBit7, SendPause, Disturb,
         SendFlag, SendDelimiter, OnBus
<1> SUFFICES ASSUME ~overrun PROVE Attended(cd', bus'.at, bus'.own, HeaderOut', main = "wake")
  BY <1>2 DEF WakeOK
<1>3. Attended(cd, bus.at, bus.own, HeaderOut, main = "wake")
  BY DEF WakeOK
<1>4. PICK c, f, total : Carries(c, f, total)
  BY <1>1, <1>3, FieldCarries DEF Attended, Drives
<1>5. PICK at, own, out, waking :
        at = bus.at /\ own = bus.own /\ out = HeaderOut /\ waking = (main = "wake")
  OBVIOUS
<1>6. PICK at2, own2, out2 : at2 = bus'.at /\ own2 = bus'.own /\ out2 = HeaderOut'
  OBVIOUS
<1>7. /\ Only(cd, c, {"sm", "irq"}) /\ cd' = Put(c, f, total) /\ Comes(at, f) /\ at2 = Leads(f)
      /\ IF f.is = "header" THEN total \in 20 .. 29 /\ f.frame = Name(bus)
                            ELSE total = cd.held + Bits(f)
      /\ (f.is = "passive" => f.bits = 10) /\ bus # Free /\ (at2 # "free" => own2 = own)
      /\ cd.irq \subseteq c.irq
      /\ \/ c.sm = cd.sm /\ ~(f.is = "crc" /\ own)
         \/ c.sm = "sent" /\ f.is = "crc" /\ own /\ cd.sm = "sending"
         \/ c.sm = "acking" /\ cd.sm = "inject"
         \/ c.sm = "acked" /\ cd.sm = "acking"
         \/ c.sm = "conflict" /\ cd.sm \in {"sending", "acking"}
      /\ cd.sm = "sending" /\ f.is = "flag" => c.sm = "conflict"
  BY <1>4, <1>5, <1>6 DEF Carries, Raises, Turns
<1>8. at # "free" /\ f.is # "sof"
  <2>1. at # "free"
    BY <1>1, <1>5, <1>7 DEF BusOK, At
  <2> QED BY <1>7, <2>1, LeadsIn
<1>9. at2 # "header"
  BY <1>7, <1>8, LeadsIn
<1>10. total \in Nat /\ (f.is \in {"header", "passive"} => total >= 10)
  <2>1. CASE f.is = "header"
    <3>1. total \in 20 .. 29
      BY <1>7, <2>1
    <3> QED BY <2>1, <3>1
  <2>2. CASE f.is # "header"
    <3>1. Bits(f) \in Nat /\ (f.is = "passive" => Bits(f) >= 10)
      <4>1. f.is = "part" => f.bits \in {1, 2, 9}
        BY <1>7 DEF Comes
      <4>2. f.is \in {"crc", "ack", "eof0", "part", "eof1", "flag", "passive"}
        BY <1>7, <1>8, <2>2 DEF Comes
      <4> QED BY <1>7, <4>1, <4>2 DEF Bits
    <3>2. total = cd.held + Bits(f)
      BY <1>7, <2>2
    <3> QED BY <1>1, <2>2, <3>1, <3>2
  <2> QED BY <2>1, <2>2
<1>11. out => at = "header" /\ own
  BY <1>5 DEF HeaderOut
<1>12. f.is = "header" => f.frame.own = own
  BY <1>5, <1>7 DEF Name
<1>13. /\ ~cd.stall /\ Cleared(cd, at) /\ Drives(cd, at, own) /\ QuietLast(cd)
       /\ cd.on => Tracked(cd, at, out, waking)
  BY <1>3, <1>5 DEF Attended
<1> SUFFICES Attended(cd', at2, own2, out2, waking)
  BY <1>5, <1>6
<1> DEFINE e == Put(c, f, total)
           p == Pipe(cd)
           q == Append(p, f)
<1>14. /\ c.rx = cd.rx /\ c.isr = cd.isr /\ c.stall = cd.stall /\ c.held = cd.held /\ c.sync = cd.sync
       /\ c.head = cd.head /\ c.tail = cd.tail /\ c.on = cd.on /\ c.tx = cd.tx /\ c.inte = cd.inte
       /\ c.parse = cd.parse /\ c.queue = cd.queue /\ Driver(c)
  BY <1>7 DEF Only, Fields
<1>15. Machine(c) /\ Pipe(c) = p /\ Cleared(c, at) /\ IsASequence(p)
  <2> DEFINE a == cd.rx
             b == cd.isr
  <2>1. IsASequence(a) /\ IsASequence(b)
    BY <1>1 DEF Machine
  <2> HIDE DEF a, b
  <2>2. IsASequence(a \o b)
    BY <2>1, Joined
  <2>3. IsASequence(p)
    BY <2>2 DEF Pipe, a, b
  <2> QED BY <1>1, <1>13, <1>14, <2>3 DEF Machine, Pipe, Cleared
<1>16. "MAYTX" \in c.irq => "MAYTX" \in cd.irq
  BY <1>4 DEF Carries, Raises
<1>17. Signals(c)
  BY <1>1, <1>14, <1>16 DEF Signals
<1>18. /\ Only(c, e, {"isr", "held", "rx"}) /\ Cleared(e, at2)
       /\ IF cd.sync = "lost" THEN e = c ELSE Pipe(e) = q
  <2>1. Only(c, e, {"isr", "held", "rx"})
    BY <1>14, PutDoes
  <2>2. Cleared(e, Leads(f))
    BY <1>7, <1>10, <1>13, <1>14, <1>15, <1>17, PutClears
  <2>3. IF c.sync = "lost" THEN e = c ELSE Pipe(e) = Append(Pipe(c), f)
    BY <1>13, <1>14, <1>15, PutExact
  <2> QED BY <1>7, <1>14, <1>15, <2>1, <2>2, <2>3
<1>19. cd' = e
  BY <1>7
<1> HIDE DEF e, p, q
<1>20. /\ e.sm = c.sm /\ e.stall = cd.stall /\ e.on = cd.on /\ e.sync = cd.sync /\ e.tx = cd.tx
       /\ e.inte = cd.inte /\ e.parse = cd.parse /\ e.queue = cd.queue /\ e.irq = c.irq
  BY <1>14, <1>18 DEF Only, Fields
<1>21. Drives(e, at2, own2)
  <2>1. ASSUME e.sm = "sending" PROVE own2 /\ at2 \in {"header", "check", "crc"}
    <3>1. cd.sm = "sending" /\ ~(f.is = "crc" /\ own) /\ f.is # "flag"
      BY <1>7, <1>20, <2>1
    <3>2. own /\ at \in {"header", "check", "crc"}
      BY <1>13, <3>1 DEF Drives
    <3>3. f.is = "header" \/ (f.is = "part" /\ f.bits = 9)
      BY <1>7, <3>1, <3>2 DEF Comes
    <3>4. at2 \in {"check", "crc"}
      BY <1>7, <3>3 DEF Leads
    <3> QED BY <1>7, <3>2, <3>4
  <2> QED BY <1>9, <2>1 DEF Drives
<1>22. ASSUME cd.on PROVE Tracked(e, at2, out2, waking)
  <2>1. Follows(cd, p, 0, at) /\ WakeInv(cd, p, 0, out) /\ Woken(cd, waking)
    BY <1>13, <1>22 DEF Tracked, p
  <2>2. Woken(e, waking)
    BY <1>7, <1>20, <2>1 DEF Woken
  <2>3. cd.tx = "QUEUED" => /\ cd.sm \in {"send", "sending", "sent", "conflict", "stuck"}
                            /\ cd.sm \in {"sending", "sent"} => cd.sync # "lost" /\ Headed(cd, p, 0, out)
    BY <2>1 DEF WakeInv, Busy
  <2>4. CASE cd.sync = "lost"
    <3>1. e = c /\ Pipe(e) = p
      BY <1>15, <1>18, <2>4
    <3>2. Follows(e, p, 0, at2)
      BY <1>20, <2>1, <2>4 DEF Follows
    <3>3. Watched(e, p, 0)
      BY <1>7, <1>20, <2>1 DEF WakeInv, Watched
    <3>4. Busy(e, p, 0, out2)
      BY <1>7, <1>20, <2>3, <2>4 DEF Busy
    <3> QED BY <2>2, <3>1, <3>2, <3>3, <3>4 DEF Tracked, WakeInv
  <2>5. CASE cd.sync # "lost"
    <3>1. Pipe(e) = q
      BY <1>18, <2>5
    <3>2. Grammar(e, q, 0, at2) /\ Rests(e, q, 0, at2)
      BY <1>7, <1>15, <1>20, <2>1, <2>5, GrammarLonger DEF Follows, q
    <3>3. SofAhead(p, 0) => SofAhead(q, 0)
      BY <1>15, SofLonger DEF q
    <3>4. Watched(e, q, 0)
      BY <1>7, <1>20, <2>1, <2>3, <3>3 DEF WakeInv, Watched
    <3>5. ASSUME e.tx = "QUEUED", e.sm \in {"sending", "sent"} PROVE Headed(e, q, 0, out2)
      <4>1. cd.sm \in {"sending", "sent"} /\ cd.tx = "QUEUED"
        BY <1>7, <1>20, <2>3, <3>5
      <4>2. Headed(cd, p, 0, out)
        BY <2>3, <4>1
      <4>3. out => f.is = "header" /\ f.frame.own
        <5> SUFFICES ASSUME out PROVE f.is = "header" /\ f.frame.own
          OBVIOUS
        <5>1. at = "header" /\ own
          BY <1>11
        <5>2. cd.sm = "sending"
          BY <1>13, <4>1, <5>1 DEF Drives
        <5>3. f.is # "flag"
          BY <1>7, <1>20, <3>5, <5>2
        <5>4. f.is = "header"
          BY <1>7, <5>1, <5>3 DEF Comes
        <5> QED BY <1>12, <5>1, <5>4
      <4> QED BY <1>15, <1>20, <4>2, <4>3, HeadedLonger DEF q
    <3>6. Busy(e, q, 0, out2)
      BY <1>7, <1>20, <2>3, <2>5, <3>5 DEF Busy
    <3> QED BY <1>20, <2>2, <2>5, <3>1, <3>2, <3>4, <3>6 DEF Tracked, Follows, WakeInv
  <2> QED BY <2>4, <2>5
<1>23. QuietLast(e)
  <2>1. cd.sync # "quiet" /\ f.is # "quiet"
    BY <1>7, <1>8 DEF FlowOK, Still, Comes
  <2>2. \A i \in 1 .. Len(p) : p[i].is # "quiet"
    BY <1>13, <2>1, NoQuiet DEF p
  <2>3. CASE cd.sync = "lost"
    <3>1. Pipe(e) = p
      BY <1>15, <1>18, <2>3
    <3> QED BY <2>2, <3>1 DEF QuietLast
  <2>4. CASE cd.sync # "lost"
    BY <1>15, <1>18, <2>1, <2>2, <2>4, QuietLonger DEF q
  <2> QED BY <2>3, <2>4
<1> QED BY <1>13, <1>18, <1>19, <1>20, <1>21, <1>22, <1>23 DEF Attended

(* Steps: LibPQP's calls.                                                  *)
LEMMA CallsKeepWake ==
  ASSUME Base, FlowOK, WakeOK, Enqueue \/ WakeUp \/ Fetch \/ Release PROVE WakeOK'
<1>1. Driver(cd)
  BY DEF Base, DriverInv, QueueInv
<1>2. bus' = bus /\ HeaderOut' = HeaderOut /\ overrun' = overrun
  BY DEF Enqueue, WakeUp, Fetch, Release, HeaderOut
<1>3. /\ Only(cd, cd', {"queue", "irq", "tail"}) /\ cd.irq \subseteq cd'.irq
      /\ "MAYTX" \in cd'.irq => "MAYTX" \in cd.irq
      /\ cd'.queue # <<>> => cd.queue # <<>> \/ main' = "wake"
      /\ main = "wake" => "TXPENDING" \in cd'.irq \/ main' = "wake"
  <2>1. CASE Enqueue
    <3>1. Only(cd, cd', {"queue"}) /\ main = "idle" /\ main' = "wake"
      BY <1>1, <2>1, EnqueueDoes DEF Enqueue
    <3> QED BY <3>1 DEF Only, Fields
  <2>2. CASE WakeUp
    <3>1. Only(cd, cd', {"irq"}) /\ cd'.irq = cd.irq \cup {"TXPENDING"}
      BY <1>1, <2>2, WakeUpDoes
    <3> QED BY <3>1 DEF Only, Fields
  <2>3. CASE Fetch
    BY <1>1, <2>3 DEF Fetch, Only
  <2>4. CASE Release
    <3>1. Only(cd, cd', {"tail"}) /\ main = "release"
      BY <1>1, <2>4, ReleaseDoes DEF Release
    <3> QED BY <3>1 DEF Only, Fields
  <2> QED BY <2>1, <2>2, <2>3, <2>4
<1> SUFFICES ASSUME ~overrun
             PROVE  Attended(cd', bus.at, bus.own, HeaderOut, main' = "wake")
  BY <1>2 DEF WakeOK
<1>4. Attended(cd, bus.at, bus.own, HeaderOut, main = "wake")
  BY DEF WakeOK
<1>5. /\ Looks(cd, cd') /\ Pipe(cd') = Pipe(cd) /\ cd'.isr = cd.isr /\ cd'.stall = cd.stall
      /\ cd'.on = cd.on /\ cd'.sync = cd.sync /\ cd'.sm = cd.sm
  BY <1>3 DEF Only, Fields, Looks, Pipe
<1>6. ASSUME cd.on PROVE Tracked(cd', bus.at, HeaderOut, main' = "wake")
  <2>1. Follows(cd, Pipe(cd), 0, bus.at) /\ WakeInv(cd, Pipe(cd), 0, HeaderOut)
        /\ Woken(cd, main = "wake")
    BY <1>4, <1>6 DEF Attended, Tracked
  <2>2. Follows(cd', Pipe(cd), 0, bus.at) /\ WakeInv(cd', Pipe(cd), 0, HeaderOut)
    BY <1>5, <2>1, LooksSame
  <2>3. Woken(cd', main' = "wake")
    BY <1>3, <1>5, <2>1 DEF Woken
  <2> QED BY <1>5, <2>2, <2>3 DEF Tracked
<1> QED BY <1>4, <1>5, <1>6 DEF Attended, Cleared, Drives, QuietLast

LEMMA FreshWakes ==
  ASSUME NEW e, Started(e), NEW at, NEW own, NEW out, NEW waking
  PROVE  Attended(e, at, own, out, waking)
<1>1. Pipe(e) = <<>>
  <2>1. <<>> \o <<>> = <<>>
    OBVIOUS
  <2> QED BY <2>1 DEF Pipe, Started
<1>2. \A i \in 1 .. Len(<<>>) : FALSE
  OBVIOUS
<1>3. Follows(e, Pipe(e), 0, at)
  BY DEF Follows, Started
<1>4. WakeInv(e, Pipe(e), 0, out)
  BY DEF WakeInv, Watched, Busy, Started
<1>5. Woken(e, waking)
  BY DEF Woken, Started
<1>6. ~e.stall /\ Cleared(e, at) /\ Drives(e, at, own) /\ QuietLast(e)
  BY <1>1, <1>2 DEF Cleared, Drives, Started, QuietLast
<1> QED BY <1>3, <1>4, <1>5, <1>6 DEF Attended, Tracked

LEMMA RestartsKeepWake ==
  ASSUME Base, ClearTx \/ Deinit \/ CanInit PROVE WakeOK'
<1>1. Driver(cd)
  BY DEF Base, DriverInv, QueueInv
<1>2. ASSUME NEW d, Driver(d), cd' = Start(d) PROVE WakeOK'
  <2> DEFINE e == Start(d)
  <2>1. Started(e)
    BY <1>2, StartDoes
  <2> HIDE DEF e
  <2>2. Attended(e, bus'.at, bus'.own, HeaderOut', main' = "wake")
    BY <2>1, FreshWakes
  <2>3. cd' = e
    BY <1>2 DEF e
  <2> QED BY <2>2, <2>3 DEF WakeOK
<1> DEFINE s == Stop(cd)
<1>3. /\ Only(cd, s, {"irq", "stall", "key", "sync", "isr", "rx", "sm", "on", "inte"})
      /\ s.on = FALSE /\ s.stall = FALSE /\ s.isr = <<>> /\ s.rx = <<>> /\ s.sm \in {"stuck", "conflict", "off"}
  BY <1>1, StopDoes
<1> HIDE DEF s
<1>4. CASE ClearTx
  <2>1. cd' = Start(s) /\ Driver(s)
    BY <1>3, <1>4 DEF ClearTx, s, Only
  <2> QED BY <1>2, <2>1
<1>5. CASE Deinit
  <2>1. cd' = s
    BY <1>5 DEF Deinit, s
  <2>2. \A i \in 1 .. Len(<<>>) : FALSE
    OBVIOUS
  <2>3. Pipe(s) = <<>>
    <3>1. <<>> \o <<>> = <<>>
      OBVIOUS
    <3> QED BY <1>3, <3>1 DEF Pipe
  <2>4. Attended(s, bus'.at, bus'.own, HeaderOut', main' = "wake")
    BY <1>3, <2>2, <2>3 DEF Attended, Cleared, Drives, QuietLast
  <2> QED BY <2>1, <2>4 DEF WakeOK
<1>6. CASE CanInit
  <2> DEFINE z == [cd EXCEPT !.head = 0, !.tail = 0, !.rxLost = FALSE, !.bufferLost = FALSE]
  <2>1. cd' = Start(z)
    BY <1>6 DEF CanInit
  <2>2. Driver(z)
    BY <1>1 DEF Driver, Fields
  <2> HIDE DEF z
  <2> QED BY <1>2, <2>1, <2>2
<1> QED BY <1>4, <1>5, <1>6

LEMMA InitWake ==
  ASSUME Init PROVE WakeOK
<1> DEFINE e == Start(Zeroed)
<1>1. Started(e)
  BY ZeroedDoes, StartDoes
<1> HIDE DEF e
<1>2. Attended(e, bus.at, bus.own, HeaderOut, main = "wake")
  BY <1>1, FreshWakes
<1>3. cd = e
  BY DEF Init, e
<1> QED BY <1>2, <1>3 DEF WakeOK

LEMMA NextKeepsWake ==
  ASSUME Base, FlowOK, WakeOK, [Next]_vars PROVE WakeOK'
<1>1. CASE UNCHANGED vars
  BY <1>1 DEF vars, WakeOK, HeaderOut
<1>2. CASE Irq
  BY <1>2, IrqKeepsWake
<1>3. CASE OwnFrame \/ \E same \in BOOLEAN : OtherFrame(same)
  BY <1>3, FramesKeepWake
<1>4. CASE LineStep
  BY <1>4, LineKeepsWake
<1>5. CASE Field
  BY <1>5, FieldKeepsWake
<1>6. CASE Enqueue \/ WakeUp \/ Fetch \/ Release
  BY <1>6, CallsKeepWake
<1>7. CASE ClearTx \/ Deinit \/ CanInit
  BY <1>7, RestartsKeepWake
<1> QED BY <1>1, <1>2, <1>3, <1>4, <1>5, <1>6, <1>7 DEF Next, LineStep

LEMMA AlwaysWake == Spec => [](Base /\ FlowOK /\ WakeOK)
<1>1. Init => Base /\ FlowOK /\ WakeOK
  BY InitBase, InitFlow, InitWake
<1>2. Base /\ FlowOK /\ WakeOK /\ [Next]_vars => (Base /\ FlowOK /\ WakeOK)'
  BY NextKeepsBase, NextKeepsFlow, NextKeepsWake
<1> QED BY <1>1, <1>2, PTL DEF Spec

(* No wake-up is lost: when nothing is outstanding on an idle line, the    *)
(* queue is empty, but for what the transmitter is about to send or was    *)
(* halted with, when a line that had been quiet for long was reset.        *)
THEOREM NothingForgotten == Spec => []NothingLeftQueued
<1>1. Base /\ FlowOK /\ WakeOK => NothingLeftQueued
  <2> SUFFICES ASSUME Base, FlowOK, WakeOK, Settled, main = "idle",
                      ~(cd.sm = "send" /\ "MAYTX" \in cd.irq), ~Halted,
                      ~overrun, cd.queue # <<>>
               PROVE  FALSE
    BY DEF NothingLeftQueued
  <2>1. /\ cd.on /\ cd.sync = "idle" /\ cd.rx = <<>> /\ bus.at = "free"
        /\ \A l \in cd.inte : l \notin cd.irq
    BY FreeAt DEF Settled
  <2>2. Cleared(cd, "free") /\ WakeInv(cd, Pipe(cd), 0, HeaderOut) /\ Woken(cd, main = "wake")
    BY <2>1 DEF WakeOK, Attended, Tracked
  <2>3. "TXPENDING" \in cd.irq /\ "MAYTX" \in cd.irq
    BY <2>1, <2>2 DEF Woken
  <2>4. SofAhead(Pipe(cd), 0)
    BY <2>1, <2>2, <2>3 DEF WakeInv, Watched, Halted
  <2>5. Pipe(cd) = cd.isr
    <3> DEFINE b == cd.isr
    <3>1. IsASequence(b) /\ IsASequence(cd.rx)
      BY DEF Base, Machine
    <3> HIDE DEF b
    <3>2. <<>> \o b = b
      BY <2>1, <3>1, PipeOf
    <3> QED BY <2>1, <3>2 DEF Pipe, b
  <2>6. PICK j \in 0 + 1 .. Len(cd.isr) : cd.isr[j].is = "sof"
    BY <2>4, <2>5 DEF SofAhead
  <2>7. 0 + 1 = 1
    OBVIOUS
  <2> QED BY <2>2, <2>6, <2>7 DEF Cleared
<1> QED BY <1>1, AlwaysWake, PTL

=============================================================================
