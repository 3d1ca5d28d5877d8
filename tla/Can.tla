-------------------------------- MODULE Can --------------------------------
(***************************************************************************)
(* One board on a CAN bus: the can2040 driver (its interrupt handler, its  *)
(* frame parser and the four PIO state machines it programs) with the      *)
(* pqpf_can_if functions of libpqp_foreign.c on top, and the bus with the  *)
(* other boards around it.                                                 *)
(*                                                                         *)
(* A frame is the sequence of its fields.  The receiving PIO machine hands *)
(* over ten bits at a time, so the parser lags behind the bus, and never   *)
(* sees the end of a frame before the next one begins; the "match" machine *)
(* and the idle signal do not lag.  An interrupt is one step: LibPQP runs  *)
(* on the same core.  The record cd is struct can2040, its PIO block and   *)
(* the can_t around it; an operator on it is the C function named beside   *)
(* it in the project's map.                                                *)
(***************************************************************************)
EXTENDS Integers, Sequences, FiniteSets, SequencesExt

CONSTANTS
  QueueSize,     \* ARRAY_SIZE(tx_queue)
  RingSize,      \* CAN_RX_BUF_SIZE; one place of it stays empty
  FifoSize,      \* fields the receive FIFO holds
  MaxEvents      \* bound: fragments sent, frames of other boards, faults and
                 \* restarts, all together

ASSUME CanAssumption ==
  /\ {QueueSize, FifoSize, MaxEvents} \subseteq Nat
  /\ QueueSize > 0
  /\ RingSize \in Nat \ {0, 1}
  /\ FifoSize > 0

VARIABLES
  cd,         \* the driver, its hardware and its interface
  bus,        \* the frame on the bus, or Free
  main,       \* where LibPQP is in a call of the interface
  sent,       \* fragments LibPQP has sent
  foreign,    \* frames other boards have begun
  faults,     \* frames disturbed, not acknowledged or clashing, overruns of
              \* the receive FIFO and overflows of the "sync" counter
  restarts,   \* clear_tx and deinit calls
  got,        \* history: the fragments LibPQP took from the ring
  complete,   \* history: frames of others that a receiver has to accept
  delivered,  \* history: own fragments acknowledged and ended undisturbed
  withdrawn,  \* history: fragments a restart dropped from the queue
  overrun     \* history: bits were lost, in a full receive FIFO or in the
              \* reset of a line that was quiet for long

vars == <<cd, bus, main, sent, foreign, faults, restarts, got, complete, delivered, withdrawn, overrun>>
history == <<complete, delivered>>
counters == <<sent, foreign, faults, restarts>>

Room(n) == sent + foreign + faults + restarts + n <= MaxEvents

Free == [at |-> "free"]

\* What a frame is known by: whose it is, which one, and whether a frame of
\* another board bears the identifier of the fragment queued here.
Frame == [own: BOOLEAN, n: Nat, same: BOOLEAN]
NoFrame == [own |-> FALSE, n |-> 0, same |-> FALSE]
Name(f) == [own |-> f.own, n |-> f.n, same |-> f.same]

NoKey == [end |-> "none", frame |-> NoFrame]
Key(end, f) == [end |-> end, frame |-> f]

------------------------------------------------------------------------------
(***************************************************************************)
(* The PIO block.                                                          *)
(*                                                                         *)
(* The transmitter sm is "off", "send" (loaded, waiting for the idle       *)
(* signal), "sending", "conflict", "sent", "inject" (waiting for the       *)
(* match), "acking", "acked" or "stuck": halted with words in its FIFO.    *)
(***************************************************************************)

\* pio_irq_set; the receive FIFO's interrupt is always enabled with the others
IrqSet(d, lines) == [d EXCEPT !.inte = lines]

Match(d, key) == [d EXCEPT !.key = key]

TxReset(d) == [d EXCEPT !.sm = "off", !.irq = @ \ {"MATCHED", "ACKDONE"}]

TxSend(d, m) == [TxReset(d) EXCEPT !.sm = "send", !.load = m]

InjectAck(d) == Match([TxReset(d) EXCEPT !.sm = "inject"], Key("crc", d.msg))

\* pio_sm_setup flushes the receive and match FIFOs, not the transmitter's,
\* which is taken to hold words still when a frame was loaded.
SmSetup(d) ==
  [d EXCEPT !.irq = {"TXPENDING"}, !.stall = FALSE, !.key = NoKey, !.sync = "lost",
            !.isr = <<>>, !.rx = <<>>,
            !.sm = CASE @ \in {"send", "sending", "stuck"} -> "stuck"
                     [] @ = "conflict" -> "conflict"
                     [] OTHER -> "off"]

TxDidFail(d) ==
  IF d.sm = "conflict" THEN d.rx = <<>>
  ELSE d.sm \in {"off", "sent"} /\ "MAYTX" \in d.irq /\ d.rx = <<>>

------------------------------------------------------------------------------
(***************************************************************************)
(* Transmit state tracking and notification callbacks.                     *)
(***************************************************************************)

TxSchedule(d) ==
  IF d.tx = "QUEUED" /\ ~TxDidFail(d) THEN d
  ELSE IF d.queue = <<>>
       THEN [d EXCEPT !.tx = "IDLE", !.irq = @ \ {"TXPENDING"}]
       ELSE [TxSend(d, Head(d.queue)) EXCEPT !.tx = "QUEUED"]

\* What tx_schedule_transmit returns: the line to watch when nothing is queued.
WatchNothing(d) == {}
CheckTxPending(d) == IF d.tx = "IDLE" THEN {"TXPENDING"} ELSE {}

WithoutWrap(i) == i + 1
Next1(i) == IF i + 1 >= RingSize THEN i + 1 - RingSize ELSE i + 1

NeverFull(d) == FALSE
Full(d) == Next1(d.head) = d.tail

\* can1_callback on CAN2040_NOTIFY_RX
CallbackRx(d) ==
  LET told == [d EXCEPT !.heard = Append(@, d.msg)]
  IN IF Full(d)
     THEN [told EXCEPT !.bufferLost = TRUE]
     ELSE [told EXCEPT !.slots[d.head] = d.msg, !.head = Next1(d.head)]

NotPulled(queue) == queue
Pulled(queue) == Tail(queue)

CallbackTx(d) ==
  [d EXCEPT !.confirmed = Append(@, Head(d.queue)), !.queue = Pulled(@)]

StillReporting(d) == d
Reported(d) == [d EXCEPT !.report = "IDLE"]

HandleEof(d) ==
  LET told == CASE d.report = "TX_EOF" -> CallbackTx([d EXCEPT !.slow = FALSE])
                [] d.report = "RX_EOF" -> CallbackRx([d EXCEPT !.slow = FALSE])
                [] OTHER -> d
  IN Match(Reported(told), NoKey)

EofFlagTx(d) == [d EXCEPT !.report = IF @ = "TX_ACK" THEN "TX_EOF" ELSE @]

\* RS_NEED_xX_ACK to RS_NEED_xX_EOF
WithEofFlag(d) ==
  [d EXCEPT !.report = CASE @ = "RX_ACK" -> "RX_EOF" [] @ = "TX_ACK" -> "TX_EOF" [] OTHER -> @]

NoteDiscarding(d) ==
  IrqSet([d EXCEPT !.report = "IDLE", !.slow = TRUE,
                   !.key = IF d.report = "IDLE" THEN @ ELSE NoKey],
         {"MAYTX", "TXPENDING"})

LineAckDone(d) ==
  LET s == TxSchedule(Match(d, Key("rxeof", d.msg)))
  IN IrqSet(s, {"MAYTX", "MATCHED"} \cup CheckTxPending(s))

LineMatched(d) ==
  LET s == TxSchedule(IF d.report = "IDLE" THEN d ELSE HandleEof(WithEofFlag(d)))
  IN IrqSet(s, CheckTxPending(s))

LineMayTx(d) ==
  LET s == TxSchedule(IF d.report = "IDLE" THEN d ELSE HandleEof(d))
  IN IrqSet(s, CheckTxPending(s))

LineTxPending(d) ==
  IF d.inte = {"MAYTX", "TXPENDING"} /\ d.report = "RX_ACK"
  THEN IrqSet(InjectAck([d EXCEPT !.tx = "ACKING_RX"]), {"MAYTX", "ACKDONE"})
  ELSE LET s == TxSchedule(d)
       IN IrqSet(s, (d.inte \ {"TXPENDING"}) \cup CheckTxPending(s))

------------------------------------------------------------------------------
(***************************************************************************)
(* The frame parser: what a field does in the state that waits for it.     *)
(***************************************************************************)

GoDiscard(d) ==
  NoteDiscarding([(IF d.stall THEN [SmSetup(d) EXCEPT !.rxLost = TRUE] ELSE d)
                   EXCEPT !.parse = "DISCARD"])

MessageStart(d) == IrqSet([d EXCEPT !.parse = "HEADER"], {"MAYTX"})

\* data_state_go_data and the header and data fields before it
Parsed(d, f) == [d EXCEPT !.msg = f]

\* tx_check_local_message: this board's frame, one that only bears its
\* identifier, or another's
LocalMessage(d) ==
  IF d.tx # "QUEUED" THEN "other"
  ELSE IF d.msg.same THEN "clash"
  ELSE IF d.msg.own /\ d.msg.n = Head(d.queue) THEN "local" ELSE "other"

NoteCrcStart(d) ==
  IF LocalMessage(d) = "local"
  THEN Match([d EXCEPT !.tx = "CONFIRM_TX", !.report = "TX_ACK"], Key("txeof", d.msg))
  ELSE IrqSet([d EXCEPT !.report = "RX_ACK", !.irq = @ \cup {"TXPENDING"}],
              {"MAYTX", "TXPENDING"})

GoCrc(d) ==
  IF LocalMessage(d) = "clash" THEN GoDiscard(d)
  ELSE [NoteCrcStart(d) EXCEPT !.parse = "CRC"]

NoteCrcSuccess(d) == IF d.report = "TX_ACK" THEN IrqSet(d, {"MAYTX", "MATCHED"}) ELSE d

UpdateCrc(d, good) ==
  IF good THEN [NoteCrcSuccess(d) EXCEPT !.parse = "ACK"] ELSE GoDiscard(d)

UpdateAck(d, good) ==
  IF good THEN [WithEofFlag(d) EXCEPT !.parse = "EOF0"] ELSE GoDiscard(d)

UpdateEof0(d) == IF d.stall THEN GoDiscard(d) ELSE [d EXCEPT !.parse = "EOF1"]

EofSuccess(d) ==
  IF d.report = "IDLE" THEN d ELSE IrqSet(HandleEof(d), {"TXPENDING"})

\* Bits 5 to 7 of the end of frame and two of the pause: which was dominant
UpdateEof1(d, first) ==
  CASE first = "none" -> [EofSuccess(d) EXCEPT !.parse = "START"]
    [] first = "pause" \/ (first = "bit7" /\ d.report \notin {"TX_ACK", "TX_EOF"})
         -> GoDiscard(EofSuccess(d))
    [] OTHER -> GoDiscard(d)

\* Ten passive bits behind a dominant one, or behind passive ones: the sixth
\* drops what has been parsed, the tenth ends that.
LinePassive(d) == [GoDiscard(d) EXCEPT !.parse = IF d.stall THEN @ ELSE "START"]

\* The last of 32 passive bits, behind those that were a LinePassive: the
\* counter of the "sync" machine has run over, and the PIO is reset.
LineQuiet(d) == GoDiscard(SmSetup(d))

\* process_rx and data_state_update.  A "part" leaves its field incomplete; a
\* field the state does not wait for is a parse error.
ProcessRx(d, field) ==
  CASE field.is = "part" -> d
    [] field.is = "passive" -> LinePassive(d)
    [] field.is = "quiet" -> LineQuiet(d)
    [] field.is = "sof" /\ d.parse = "START" -> MessageStart(d)
    [] field.is = "header" /\ d.parse = "HEADER" -> GoCrc(Parsed(d, field.frame))
    [] field.is = "crc" /\ d.parse = "CRC" -> UpdateCrc(d, field.good)
    [] field.is = "ack" /\ d.parse = "ACK" -> UpdateAck(d, field.good)
    [] field.is = "eof0" /\ d.parse = "EOF0" -> UpdateEof0(d)
    [] field.is = "eof1" /\ d.parse = "EOF1" -> UpdateEof1(d, field.first)
    [] field.is = "eof1" /\ d.parse = "DISCARD" /\ field.first = "none" -> LinePassive(d)
    [] OTHER -> GoDiscard(d)

------------------------------------------------------------------------------
(***************************************************************************)
(* The interrupt handler: received bits first, then one line.              *)
(***************************************************************************)

Line(l) == l \in cd.irq /\ l \in cd.inte
Untouched == UNCHANGED <<bus, main, got, withdrawn, overrun, history, counters>>

\* The loop of can2040_pio_irq_handler empties the FIFO; a reset on the way
\* flushes what is left.
Processed(d, field) == IF d.sync = "lost" THEN d ELSE ProcessRx(d, field)

IrqRxData ==
  /\ cd.on /\ cd.rx # <<>>
  /\ LET u[i \in 0 .. Len(cd.rx)] ==
           IF i = 0 THEN [cd EXCEPT !.rx = <<>>] ELSE Processed(u[i - 1], cd.rx[i])
     IN cd' = u[Len(cd.rx)]
  /\ Untouched

IrqAckDone ==
  /\ cd.on /\ cd.rx = <<>> /\ Line("ACKDONE")
  /\ cd' = LineAckDone(cd)
  /\ Untouched

IrqMatched ==
  /\ cd.on /\ cd.rx = <<>> /\ Line("MATCHED") /\ ~Line("ACKDONE")
  /\ cd' = LineMatched(cd)
  /\ Untouched

IrqMayTx ==
  /\ cd.on /\ cd.rx = <<>> /\ Line("MAYTX") /\ ~Line("ACKDONE") /\ ~Line("MATCHED")
  /\ cd' = LineMayTx(cd)
  /\ Untouched

IrqTxPending ==
  /\ cd.on /\ cd.rx = <<>> /\ Line("TXPENDING")
  /\ ~Line("ACKDONE") /\ ~Line("MATCHED") /\ ~Line("MAYTX")
  /\ cd' = LineTxPending(cd)
  /\ Untouched

Irq == IrqRxData \/ IrqAckDone \/ IrqMatched \/ IrqMayTx \/ IrqTxPending

------------------------------------------------------------------------------
(***************************************************************************)
(* The bus.  Every field passes the receiving machine of this board, which *)
(* hands over at every tenth bit whatever it holds.                        *)
(***************************************************************************)

Bits(field) ==
  CASE field.is = "sof" -> 1
    [] field.is = "crc" -> 7          \* behind the Part(9) of SendCheck
    [] field.is \in {"ack", "eof1"} -> 2
    [] field.is = "eof0" -> 4
    [] field.is = "flag" -> 6
    [] OTHER -> field.bits            \* "part" and "passive"

Sof == [is |-> "sof"]
Header(f) == [is |-> "header", frame |-> Name(f)]
Crc(good) == [is |-> "crc", good |-> good]
Ack(good) == [is |-> "ack", good |-> good]
Eof0 == [is |-> "eof0"]
Eof1(first) == [is |-> "eof1", first |-> first]
Flag == [is |-> "flag"]
Part(n) == [is |-> "part", bits |-> n]
Passive(n) == [is |-> "passive", bits |-> n]
Quiet == [is |-> "quiet"]

\* The handler is not later than this, but for an Overrun.
InTime == Len(cd.rx) <= FifoSize

\* The receiving machine gets a field: total bits since it last handed over.
\* Fields that are complete at a tenth bit go to the FIFO.
Put(d, field, total) ==
  IF d.sync = "lost" \/ (d.stall /\ d.rx # <<>>) THEN d
  ELSE IF total < 10 THEN [d EXCEPT !.isr = Append(@, field), !.held = total]
  ELSE IF total % 10 = 0
       THEN [d EXCEPT !.rx = Append(@ \o d.isr, field), !.isr = <<>>, !.held = 0]
       ELSE [d EXCEPT !.rx = @ \o d.isr, !.isr = <<field>>, !.held = total % 10]

Emit(d, field) == Put(d, field, d.held + Bits(field))

\* The match machine raises its line, or lets the transmitter acknowledge.
Matched(d, end) ==
  IF d.key # Key(end, Name(bus)) THEN d
  ELSE IF d.sm = "inject" THEN [d EXCEPT !.sm = "acking"]
  ELSE [d EXCEPT !.irq = @ \cup {"MATCHED"}]

\* The handler is so late that the FIFO fills up: bits are lost until it runs.
Overrun ==
  /\ cd.rx # <<>> /\ ~cd.stall /\ Room(1)
  /\ faults' = faults + 1
  /\ cd' = [cd EXCEPT !.stall = TRUE, !.isr = <<>>]
  /\ overrun' = TRUE
  /\ UNCHANGED <<bus, main, got, withdrawn, history, sent, foreign, restarts>>

\* The "sync" machine has counted enough passive bits; after a restart they
\* are the first that the receiving machine gets.
Idle ==
  /\ bus = Free /\ cd.sync \in {"frame", "lost"} /\ InTime
  /\ LET i == [cd EXCEPT !.sync = "idle", !.irq = @ \cup {"MAYTX"}]
     IN cd' = IF cd.sync = "lost" THEN Emit(i, Passive(10)) ELSE i
  /\ Untouched

\* A frame that begins ahead of the reset of a quiet line loses bits in it.
ResetAhead == \E f \in ToSet(cd.rx \o cd.isr) : f.is = "quiet"

\* A line that has been quiet for 2^28 bits: the counter of the "sync" machine
\* runs over, and passive bits come again.  The first word of them finds the
\* parser as the last frame left it; the word that has the last one of 32, as
\* its r-th bit, resets the PIO.
CounterOverflow ==
  /\ bus = Free /\ cd.sync = "idle" /\ InTime /\ Room(1)
  /\ faults' = faults + 1
  /\ cd' = Put([cd EXCEPT !.sync = "quiet"], Passive(10), 10)
  /\ UNCHANGED <<overrun, bus, main, got, withdrawn, history, sent, foreign, restarts>>

QuietBits ==
  /\ bus = Free /\ cd.sync = "quiet" /\ ~ResetAhead /\ InTime
  /\ \E r \in 1 .. 10 : cd' = Put(cd, Quiet, r)
  /\ Untouched

Begun(d) == Emit([d EXCEPT !.sync = "frame", !.irq = @ \ {"MAYTX"}], Sof)
Begin(own, n, same) ==
  bus' = [own |-> own, n |-> n, same |-> same, clean |-> cd.sync # "lost",
          at |-> "header"]

OwnFrame ==
  /\ bus = Free /\ cd.sm = "send" /\ "MAYTX" \in cd.irq /\ InTime
  /\ Begin(TRUE, cd.load, FALSE)
  /\ cd' = Begun([cd EXCEPT !.sm = "sending"])
  /\ overrun' = (overrun \/ ResetAhead)
  /\ UNCHANGED <<main, got, withdrawn, history, counters>>

\* Another board begins, at the same bit as this one if this one is ready, and
\* wins; "same" when its frame bears the identifier of the fragment queued here.
\* A frame is clean if the receiving machine gets its bits right from the first.
OtherFrame(same) ==
  /\ bus = Free /\ InTime /\ Room(IF same THEN 2 ELSE 1)
  /\ cd.sync \in {"idle", "quiet", "lost"} \/ cd.slow
  /\ Begin(FALSE, foreign + 1, same)
  /\ foreign' = foreign + 1
  /\ faults' = IF same THEN faults + 1 ELSE faults
  /\ cd' = Begun(IF cd.sm = "send" /\ "MAYTX" \in cd.irq THEN [cd EXCEPT !.sm = "conflict"] ELSE cd)
  /\ overrun' = (overrun \/ ResetAhead)
  /\ UNCHANGED <<main, got, withdrawn, history, sent, restarts>>

\* The transmitter drives the frame until its crc has been sent.
Driven == bus.own => cd.sm = "sending"
Advance(at) == bus' = [bus EXCEPT !.at = at]
OnBus == UNCHANGED <<overrun, main, got, withdrawn, sent, foreign, restarts>>

SendHeader ==
  /\ bus.at = "header" /\ Driven /\ InTime
  /\ \E r \in 0 .. 9 : cd' = Put(cd, Header(bus), 20 + r)   \* of any length
  /\ Advance("check")
  /\ OnBus /\ UNCHANGED <<history, faults>>

\* Nine bits into the crc the last bit of the header has been handed over.
SendCheck ==
  /\ bus.at = "check" /\ Driven /\ InTime
  /\ cd' = Emit(cd, Part(9))
  /\ Advance("crc")
  /\ OnBus /\ UNCHANGED <<history, faults>>

SendCrc(good) ==
  /\ bus.at = "crc" /\ Driven /\ InTime
  /\ good \/ Room(1)
  /\ faults' = IF good THEN faults ELSE faults + 1
  /\ LET e == IF bus.own THEN [cd EXCEPT !.sm = "sent"] ELSE cd
     IN cd' = Emit(IF good THEN Matched(e, "crc") ELSE e, Crc(good))
  /\ bus' = [bus EXCEPT !.at = "ack", !.clean = @ /\ good]
  /\ OnBus /\ UNCHANGED history

SendAck(others) ==
  LET acked == others \/ cd.sm = "acking"
  IN /\ bus.at = "ack" /\ InTime
     /\ acked \/ Room(1)
     /\ faults' = IF acked THEN faults ELSE faults + 1
     /\ cd' = Emit(IF cd.sm = "acking"
                   THEN [cd EXCEPT !.sm = "acked", !.irq = @ \cup {"ACKDONE"}] ELSE cd,
                   Ack(acked))
     /\ Advance(IF acked THEN "eof0" ELSE "flag")
     /\ OnBus /\ UNCHANGED history

SendEof0 ==
  /\ bus.at = "eof0" /\ InTime
  /\ cd' = Emit(cd, Eof0)
  /\ Advance("bit5")
  /\ OnBus /\ UNCHANGED <<history, faults>>

\* Bits 5 and 6 of the end: a receiver has to accept the frame now.
SendBit5 ==
  /\ bus.at = "bit5" /\ InTime
  /\ cd' = Emit(Matched(cd, "rxeof"), Part(2))
  /\ Advance("bit7")
  /\ complete' = IF bus.clean /\ cd.sync # "lost" /\ ~bus.own
                 THEN complete \cup {Name(bus)} ELSE complete
  /\ OnBus /\ UNCHANGED <<delivered, faults>>

\* Bit 7: the transmitter has to take the frame for delivered now.
SendBit7 ==
  /\ bus.at = "bit7" /\ InTime
  /\ cd' = Emit(Matched(cd, "txeof"), Part(1))
  /\ Advance("pause")
  /\ delivered' = IF bus.own /\ bus.clean THEN delivered \cup {bus.n} ELSE delivered
  /\ OnBus /\ UNCHANGED <<complete, faults>>

SendPause ==
  /\ bus.at = "pause" /\ InTime
  /\ cd' = Emit(cd, Eof1("none"))
  /\ bus' = Free
  /\ OnBus /\ UNCHANGED <<history, faults>>

\* A dominant bit where none belongs, or this board stops driving its frame.
Disturb ==
  /\ bus.at \in {"header", "check", "crc", "ack", "eof0", "bit5", "bit7", "pause"}
  /\ LET cut == bus.at \in {"header", "check", "crc"} /\ ~Driven
         inEof1 == bus.at \in {"bit5", "bit7", "pause"}
         field == IF inEof1 THEN Eof1(bus.at) ELSE Flag
     IN /\ cut \/ Room(1)
        /\ faults' = IF cut THEN faults ELSE faults + 1
        /\ InTime
        /\ cd' = Emit([cd EXCEPT !.sm = IF @ \in {"sending", "acking"} THEN "conflict" ELSE @],
                      field)
        /\ Advance(IF inEof1 THEN "flag" ELSE "delimiter")
  /\ OnBus /\ UNCHANGED history

SendFlag ==
  /\ bus.at = "flag" /\ InTime
  /\ cd' = Emit(cd, Flag)
  /\ Advance("delimiter")
  /\ OnBus /\ UNCHANGED <<history, faults>>

SendDelimiter ==
  /\ bus.at = "delimiter" /\ InTime
  /\ cd' = Emit(cd, Passive(10))
  /\ bus' = Free
  /\ OnBus /\ UNCHANGED <<history, faults>>

Field ==
  \/ SendHeader \/ SendCheck \/ SendEof0 \/ SendBit5 \/ SendBit7 \/ SendPause
  \/ \E b \in BOOLEAN : SendCrc(b) \/ SendAck(b)
  \/ Disturb \/ SendFlag \/ SendDelimiter

------------------------------------------------------------------------------
(***************************************************************************)
(* LibPQP's calls of the interface.                                        *)
(***************************************************************************)

\* pqpf_can_if1_enqueue_fragment is refused while the queue is full.  The
\* handler may run between the new tx_push_pos and the wake-up.
CheckTransmit == Len(cd.queue) < QueueSize

Enqueue ==
  /\ main = "idle" /\ cd.on /\ CheckTransmit /\ Room(1)
  /\ sent' = sent + 1
  /\ cd' = [cd EXCEPT !.queue = Append(@, sent + 1)]
  /\ main' = "wake"
  /\ UNCHANGED <<overrun, bus, got, withdrawn, history, foreign, faults, restarts>>

WakeUp ==
  /\ main = "wake"
  /\ cd' = [cd EXCEPT !.irq = @ \cup {"TXPENDING"}]
  /\ main' = "idle"
  /\ UNCHANGED <<overrun, bus, got, withdrawn, history, counters>>

\* pqpf_can_if1_received_fragment copies the fragment, then frees its place.
Fetch ==
  /\ main = "idle" /\ cd.on /\ cd.head # cd.tail
  /\ got' = Append(got, cd.slots[cd.tail])
  /\ main' = "release"
  /\ UNCHANGED <<overrun, cd, bus, withdrawn, history, counters>>

Release ==
  /\ main = "release"
  /\ cd' = [cd EXCEPT !.tail = Next1(@)]
  /\ main' = "idle"
  /\ UNCHANGED <<overrun, bus, got, withdrawn, history, counters>>

Stop(d) == [SmSetup(d) EXCEPT !.on = FALSE, !.inte = {}]

SetupKeepsQueue(d) ==
  [d EXCEPT !.tx = "IDLE", !.report = "IDLE", !.parse = "START", !.msg = NoFrame]

\* can2040_setup clears the whole of struct can2040.
Setup(d) ==
  [d EXCEPT !.queue = <<>>, !.tx = "IDLE", !.report = "IDLE", !.parse = "START",
            !.msg = NoFrame]

Start(d) == GoDiscard([SmSetup(Setup(d)) EXCEPT !.on = TRUE])

Withdraw == withdrawn' = withdrawn \cup ToSet(cd.queue)

ClearTx ==
  /\ main = "idle" /\ cd.on /\ Room(1)
  /\ restarts' = restarts + 1
  /\ Withdraw
  /\ cd' = Start(Stop(cd))
  /\ UNCHANGED <<overrun, bus, main, got, history, sent, foreign, faults>>

Deinit ==
  /\ main = "idle" /\ cd.on /\ Room(1)
  /\ restarts' = restarts + 1
  /\ Withdraw
  /\ cd' = Stop(cd)
  /\ UNCHANGED <<overrun, bus, main, got, history, sent, foreign, faults>>

CanInit ==
  /\ main = "idle" /\ ~cd.on
  /\ cd' = Start([cd EXCEPT !.head = 0, !.tail = 0, !.rxLost = FALSE, !.bufferLost = FALSE])
  /\ Untouched

------------------------------------------------------------------------------
Zeroed ==
  [on |-> FALSE, queue |-> <<>>, tx |-> "IDLE", report |-> "IDLE", parse |-> "START",
   msg |-> NoFrame, irq |-> {}, inte |-> {}, key |-> NoKey, sm |-> "off", load |-> 0,
   slow |-> FALSE, sync |-> "lost", isr |-> <<>>, held |-> 0, rx |-> <<>>, stall |-> FALSE,
   slots |-> [i \in 0 .. RingSize - 1 |-> NoFrame], head |-> 0, tail |-> 0,
   rxLost |-> FALSE, bufferLost |-> FALSE, heard |-> <<>>, confirmed |-> <<>>]

Init ==
  /\ cd = Start(Zeroed)
  /\ bus = Free
  /\ main = "idle"
  /\ sent = 0 /\ foreign = 0 /\ faults = 0 /\ restarts = 0
  /\ got = <<>>
  /\ complete = {} /\ delivered = {} /\ withdrawn = {} /\ overrun = FALSE

Next ==
  \/ Irq
  \/ Overrun \/ Idle \/ CounterOverflow \/ QuietBits \/ OwnFrame
  \/ \E same \in BOOLEAN : OtherFrame(same)
  \/ Field
  \/ Enqueue \/ WakeUp \/ Fetch \/ Release \/ ClearTx \/ Deinit \/ CanInit

Spec == Init /\ [][Next]_vars

------------------------------------------------------------------------------
TypeOK ==
  /\ cd.on \in BOOLEAN
  /\ cd.queue \in Seq(1 .. MaxEvents) /\ Len(cd.queue) <= QueueSize
  /\ cd.tx \in {"IDLE", "QUEUED", "ACKING_RX", "CONFIRM_TX"}
  /\ cd.report \in {"IDLE", "RX_ACK", "TX_ACK", "RX_EOF", "TX_EOF"}
  /\ cd.parse \in {"START", "HEADER", "CRC", "ACK", "EOF0", "EOF1", "DISCARD"}
  /\ cd.inte \subseteq {"MAYTX", "MATCHED", "ACKDONE", "TXPENDING"}
  /\ {cd.head, cd.tail} \subseteq 0 .. RingSize - 1
  /\ main \in {"idle", "wake", "release"}

Increasing(s) == \A i, j \in 1 .. Len(s) : i < j => s[i] < s[j]

\* What the handler reports as received are frames of other boards that were
\* acknowledged and ended as a receiver has to accept them, each once and in
\* order, whether the match line or the parser reported them.
ReceivedOnce ==
  /\ ~overrun => ToSet(cd.heard) \subseteq complete
  /\ Increasing([i \in 1 .. Len(cd.heard) |-> cd.heard[i].n])

\* Nothing of this board's interrupts is outstanding on an idle line.
Settled ==
  /\ bus = Free /\ cd.on /\ cd.sync = "idle" /\ cd.rx = <<>>
  /\ ~\E l \in cd.inte : l \in cd.irq

\* A board that never restarted nor lost bits has reported every such frame,
\* but for those that bear its own identifier, by the time the line is idle.
NothingMissed ==
  Settled /\ restarts = 0 /\ ~overrun
    => \A f \in complete : ~f.same => f \in ToSet(cd.heard)

\* What LibPQP takes from the ring is what was reported, in order, and only an
\* overflow that is flagged makes a gap.
RingFaithful ==
  LET gotten == [i \in 1 .. Len(got) |-> got[i].n]
  IN /\ Increasing(gotten)
     /\ restarts = 0 /\ ~cd.bufferLost /\ main # "release"
          => Len(cd.heard) = Len(got) + ((cd.head - cd.tail) % RingSize)

\* A fragment is confirmed once, in the order of sending.
ConfirmedInOrder == Increasing(cd.confirmed)

\* A fragment that a restart withdrew, or, unless bits were lost, one that
\* was acknowledged and ended undisturbed, is never put on the bus again.
NeverSentAgain ==
  [][\A m \in 1 .. MaxEvents :
       bus = Free /\ bus' # Free /\ bus'.own /\ bus'.n = m
         => m \notin withdrawn /\ (m \in delivered => overrun)]_vars

\* No wake-up is lost: where neither the handler, the bus nor the transmitter
\* has anything left to do, nothing is queued.  Not so if bits were lost, or if
\* the reset of a line that was quiet for long has halted the transmitter with
\* a fragment loaded: it waits for the next frame of another board.
Halted == cd.sm = "stuck" /\ cd.tx = "QUEUED"
NothingLeftQueued ==
  Settled /\ main = "idle" /\ ~(cd.sm = "send" /\ "MAYTX" \in cd.irq)
     /\ ~Halted /\ ~overrun
    => cd.queue = <<>>

\* can2040.c:857 says of the match line what a confirmation then claims: a
\* confirmed fragment was acknowledged and its frame has ended.
ConfirmedWasAcked == ToSet(cd.confirmed) \subseteq delivered

==============================================================================
