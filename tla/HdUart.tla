------------------------------- MODULE HdUart -------------------------------
(***************************************************************************)
(* Boards on one half-duplex UART line: the pqpf_hduart_if functions of    *)
(* libpqp_foreign.c and their interrupt handler, with the PL011 UART they  *)
(* drive.  The line is a wired AND, so a board hears its own transmission; *)
(* the handler compares the echo with what was sent and keeps everything   *)
(* else in a ring buffer for LibPQP.                                       *)
(*                                                                         *)
(* Time goes in bytes on the line.  A byte heard carries the one that was  *)
(* on the line before it, which no code looks at.                          *)
(***************************************************************************)
EXTENDS Integers, Sequences

CONSTANTS
  Node,
  FramesOf,      \* the frames each node may be given to send
  Bits,          \* the bits of a byte; a byte is the set of those that are 1
  End,           \* HDUART_FRAME_END
  Error,         \* a character received with an error flag
  MinLength,     \* HDUART_TX_MIN_LENGTH
  RingSize,      \* UART_RX_BUF_SIZE; one place of it stays empty
  TxFifoSize, TxLevel,  \* places, and interrupt level, of the transmit FIFO
  RxFifoSize,    \* places of the receive FIFO
  MaxSends,      \* bound: frames sent, by all nodes together
  NoFrame        \* uart_tx_data = NULL

Byte == SUBSET Bits

ASSUME HdUartAssumption ==
  /\ FramesOf \in [Node -> SUBSET (Seq(Byte) \ {<<>>})]
  /\ End \in Byte /\ Error \notin Byte
  /\ NoFrame \notin Seq(Byte)
  /\ {RingSize, TxFifoSize, RxFifoSize} \subseteq Nat
  /\ RingSize > 1
  /\ {TxLevel, MinLength, MaxSends} \subseteq Nat
  /\ MinLength >= TxLevel + 3     \* see Preload
  /\ TxFifoSize > TxLevel + 1
  /\ RxFifoSize >= MinLength

VARIABLES
  main,      \* what LibPQP is doing with the interface
  data,      \* uart_tx_data
  len,       \* uart_tx_len, bytes of the frame to be echoed
  bytes,     \* uart_tx_bytes, bytes to transmit
  txPtr,     \* uart_tx_ptr, bytes handed to the UART
  rxPtr,     \* uart_rx_ptr, bytes echoed
  ring,      \* uart_rx_data from tail to head
  txFifo,    \* in the UART, the one in its shift register first
  txIrq,     \* [enabled, raised]: the transmit interrupt
  rxFifo,    \* in the UART, heard but not handled
  overrun,   \* a character was lost because the receive FIFO was full
  status,    \* what send_status last returned, 0 before
  before,    \* history: the last byte on the line
  matched,   \* history: bytes of its frame the line carried for a sender,
             \* -1 when it carried another
  shifted,   \* history: the echo is not compared with its own byte
  alone,     \* history: nothing has disturbed the transmission
  taken,     \* history: the byte LibPQP last took from the ring
  silent,    \* history: the node has not sent anything yet
  sends      \* frames given to all nodes so far

tx == <<data, len, bytes, txPtr>>
uart == <<txFifo, txIrq, rxFifo, overrun>>
history == <<before, matched, shifted, alone, taken, silent, sends>>
vars == <<main, tx, rxPtr, ring, uart, status, history>>

Heard == [byte : Byte \cup {Error}, after : Byte]
Larger(a, b) == IF a > b THEN a ELSE b
Smaller(a, b) == IF a < b THEN a ELSE b

(* What the transmitter is fed: the frame, and frame ends behind it.       *)
BytesAt(n, first, last) ==
  [i \in 1 .. last - first |->
     IF first + i <= len[n] THEN data[n][first + i] ELSE End]

-----------------------------------------------------------------------------
(***************************************************************************)
(* Sending.                                                                *)
(***************************************************************************)

(* uart_fr BUSY: something is in the shift register.                       *)
Transmitting(n) == txFifo[n] # <<>>
LineActive == \E n \in Node : Transmitting(n)

(* pqpf_hduart_if_is_busy; low is the level of the line at that moment,    *)
(* which is high during the 1 bits of a byte.                              *)
IsBusy(n, low) ==
  \/ low
  \/ ring[n] # <<>>
  \/ rxFifo[n] # <<>>
  \/ Transmitting(n)

(* The first half of send_data.                                            *)
SendCheck(n) ==
  /\ main[n] = "idle"
  /\ \E f \in FramesOf[n], low \in BOOLEAN :
       /\ low => LineActive
       /\ IF IsBusy(n, low)
            THEN /\ main' = [main EXCEPT ![n] = "sending"]
                 /\ data' = [data EXCEPT ![n] = NoFrame]
                 /\ len' = [len EXCEPT ![n] = -1]
                 /\ bytes' = [bytes EXCEPT ![n] = -1]
                 /\ txPtr' = [txPtr EXCEPT ![n] = -1]
                 /\ rxPtr' = [rxPtr EXCEPT ![n] = -1]
            ELSE /\ main' = [main EXCEPT ![n] = "checked"]
                 /\ data' = [data EXCEPT ![n] = f]
                 /\ UNCHANGED <<len, bytes, txPtr, rxPtr>>
  /\ silent' = [silent EXCEPT ![n] = FALSE]
  /\ sends < MaxSends
  /\ sends' = sends + 1
  /\ status' = [status EXCEPT ![n] = 0]
  /\ UNCHANGED <<ring, uart, before, matched, shifted, alone, taken>>

UnpaddedLength(f) == Len(f)
PaddedLength(f) == Larger(Len(f), MinLength)

(* The second half.  A byte of another node, but not two of them, may have *)
(* come in since the first.  All bytes but one, or as many as fit, go to   *)
(* the FIFO at once, so that at least one is left for the interrupt, which *)
(* is raised when the FIFO drains to its level, not when it is there.      *)
Checked(n) == main[n] \in {"checked", "late"}
Preload(n) ==
  /\ Checked(n)
  /\ main' = [main EXCEPT ![n] = "sending"]
  /\ LET total == PaddedLength(data[n])
         size == Smaller(total - 1, TxFifoSize + 1)
     IN /\ len' = [len EXCEPT ![n] = Len(data[n])]
        /\ bytes' = [bytes EXCEPT ![n] = total]
        /\ txPtr' = [txPtr EXCEPT ![n] = size]
        /\ txFifo' = [txFifo EXCEPT ![n] =
             [i \in 1 .. size |-> IF i <= Len(data[n]) THEN data[n][i] ELSE End]]
        /\ txIrq' = [txIrq EXCEPT ![n] =
             [enabled |-> TRUE, raised |-> @.raised /\ size <= TxLevel + 1]]
  /\ rxPtr' = [rxPtr EXCEPT ![n] = 0]
  /\ matched' = [matched EXCEPT ![n] = 0]
  /\ shifted' = [shifted EXCEPT ![n] = rxFifo[n] # <<>> \/ overrun[n]]
  /\ alone' = [alone EXCEPT ![n] = rxFifo[n] = <<>> /\ ~ overrun[n] /\ ~ LineActive]
  /\ UNCHANGED <<data, ring, rxFifo, overrun, status, before, taken, silent,
                 sends>>

(* The transmit half of UARTx_IRQHandler.                                  *)
TransmitIrq(n) ==
  /\ txIrq[n].enabled /\ txIrq[n].raised
  /\ IF data[n] = NoFrame \/ txPtr[n] >= bytes[n]
       THEN /\ txIrq' = [txIrq EXCEPT ![n].enabled = FALSE]
            /\ UNCHANGED <<txPtr, txFifo>>
       ELSE LET last == Smaller(bytes[n], txPtr[n] + TxFifoSize + 1 - Len(txFifo[n]))
            IN /\ txPtr' = [txPtr EXCEPT ![n] = last]
               /\ txFifo' = [txFifo EXCEPT ![n] = @ \o BytesAt(n, txPtr[n], last)]
               /\ txIrq' = [txIrq EXCEPT ![n] =
                    [enabled |-> last < bytes[n],
                     raised |-> Len(txFifo'[n]) <= TxLevel + 1]]
  /\ UNCHANGED <<main, data, len, bytes, rxPtr, ring, rxFifo, overrun, status,
                 history>>

-----------------------------------------------------------------------------
(***************************************************************************)
(* The line, for one byte.  Two transmitters at a time are two that both   *)
(* found it free.  They can pull it low but not high, so what is heard is  *)
(* the byte of one of them with bits missing, or nothing with a stop bit.  *)
(***************************************************************************)
LineByte ==
  LET senders == { n \in Node : Transmitting(n) }
  IN IF \E n \in Node : senders = {n}
       THEN { Head(txFifo[n]) : n \in senders }
       ELSE (UNION { SUBSET Head(txFifo[n]) : n \in senders }) \cup {Error}

(* A character with an error is taken for a frame end.                     *)
Received(b) == IF b = Error THEN End ELSE b

Shift(n) == IF Transmitting(n) THEN Tail(txFifo[n]) ELSE <<>>

(* A character that finds the FIFO full is lost; the next one to be stored *)
(* carries the overrun flag.                                               *)
Full(n) == Len(rxFifo[n]) >= RxFifoSize
Line ==
  /\ LineActive
  /\ \A n \in Node : main[n] # "late"
  /\ main' = [n \in Node |-> IF main[n] = "checked" THEN "late" ELSE main[n]]
  /\ \E b \in LineByte :
       /\ rxFifo' = [n \in Node |->
            IF Full(n) THEN rxFifo[n]
            ELSE Append(rxFifo[n], [byte |-> IF overrun[n] THEN Error ELSE b,
                                    after |-> before])]
       /\ matched' = [n \in Node |->
            IF main[n] # "sending" \/ matched[n] \notin 0 .. len[n] - 1 THEN matched[n]
            ELSE IF data[n][matched[n] + 1] = Received(b) THEN matched[n] + 1 ELSE -1]
       /\ before' = Received(b)
  /\ overrun' = [n \in Node |-> Full(n)]
  /\ txFifo' = [n \in Node |-> Shift(n)]
  /\ txIrq' = [n \in Node |->
       [txIrq[n] EXCEPT !.raised =
          @ \/ (Transmitting(n) /\ Len(Shift(n)) = TxLevel + 1)]]
  /\ alone' = [n \in Node |->
       alone[n] /\ ~ Full(n) /\ \A m \in Node \ {n} : ~ Transmitting(m)]
  /\ shifted' = [n \in Node |-> shifted[n] \/ (main[n] = "sending" /\ Full(n))]
  /\ UNCHANGED <<tx, rxPtr, ring, status, taken, silent, sends>>

-----------------------------------------------------------------------------
(***************************************************************************)
(* Receiving: the other half of the handler, which empties the FIFO.       *)
(***************************************************************************)

(* A byte that does not fit takes the place of the last one that did.      *)
Dropped(r, b) == r
Invalidated(r, b) == [r EXCEPT ![Len(r)] = [byte |-> End, after |-> b.after]]

RingFull(r) == Len(r) + 1 = RingSize

Stored(r, b) ==
  IF RingFull(r) THEN Invalidated(r, b)
  ELSE Append(r, [b EXCEPT !.byte = Received(@)])

(* u is [echoed, expected, ring]: rx_ptr, tx_len and the ring.             *)
EchoUnchecked(f, i, b) == TRUE
EchoMatches(f, i, b) == f # NoFrame /\ f[i] = Received(b)

Handled(f, u, b) ==
  IF u.echoed >= u.expected THEN [u EXCEPT !.ring = Stored(@, b)]
  ELSE IF EchoMatches(f, u.echoed + 1, b.byte)
    THEN [u EXCEPT !.echoed = @ + 1]
    ELSE [u EXCEPT !.echoed = -1, !.expected = -1]

ReceiveIrq(n) ==
  /\ rxFifo[n] # <<>>
  /\ LET u[i \in 0 .. Len(rxFifo[n])] ==
           IF i = 0 THEN [echoed |-> rxPtr[n], expected |-> len[n], ring |-> ring[n]]
                    ELSE Handled(data[n], u[i - 1], rxFifo[n][i])
         after == u[Len(rxFifo[n])]
     IN /\ rxPtr' = [rxPtr EXCEPT ![n] = after.echoed]
        /\ len' = [len EXCEPT ![n] = after.expected]
        /\ ring' = [ring EXCEPT ![n] = after.ring]
  /\ rxFifo' = [rxFifo EXCEPT ![n] = <<>>]
  /\ UNCHANGED <<main, data, bytes, txPtr, txFifo, txIrq, overrun, status,
                 history>>

(* pqpf_hduart_if_send_status, polled until it is not 0.                   *)
HastyStatus(n) ==
  IF Transmitting(n) THEN 0
  ELSE IF txPtr[n] < 0 THEN -1
  ELSE IF txPtr[n] # bytes[n] THEN 0
  ELSE IF rxPtr[n] = len[n] /\ rxPtr[n] >= 0 THEN 1 ELSE -1

SendStatus(n) ==
  IF Transmitting(n) THEN 0
  ELSE IF txPtr[n] < 0 THEN -1
  ELSE IF txPtr[n] # bytes[n] THEN 0
  ELSE IF rxPtr[n] < 0 THEN -1
  ELSE IF rxPtr[n] < len[n] /\ rxFifo[n] # <<>> THEN 0
  ELSE IF rxPtr[n] = len[n] THEN 1 ELSE -1

PollStatus(n) ==
  /\ main[n] = "sending"
  /\ SendStatus(n) # 0
  /\ status' = [status EXCEPT ![n] = SendStatus(n)]
  /\ main' = [main EXCEPT ![n] = "idle"]
  /\ UNCHANGED <<tx, rxPtr, ring, uart, history>>

(* pqpf_hduart_if_receive_data.                                            *)
ReceiveData(n) ==
  /\ ring[n] # <<>>
  /\ taken' = [taken EXCEPT ![n] = Head(ring[n])]
  /\ ring' = [ring EXCEPT ![n] = Tail(@)]
  /\ UNCHANGED <<main, tx, rxPtr, uart, status, before, matched, shifted, alone,
                 silent, sends>>

-----------------------------------------------------------------------------
Init ==
  /\ main = [n \in Node |-> "idle"]
  /\ data = [n \in Node |-> NoFrame]
  /\ len = [n \in Node |-> -1]
  /\ bytes = [n \in Node |-> -1]
  /\ txPtr = [n \in Node |-> -1]
  /\ rxPtr = [n \in Node |-> -1]
  /\ ring = [n \in Node |-> <<>>]
  /\ txFifo = [n \in Node |-> <<>>]
  /\ txIrq = [n \in Node |-> [enabled |-> FALSE, raised |-> FALSE]]
  /\ rxFifo = [n \in Node |-> <<>>]
  /\ overrun = [n \in Node |-> FALSE]
  /\ status = [n \in Node |-> 0]
  /\ before = End
  /\ matched = [n \in Node |-> 0]
  /\ shifted = [n \in Node |-> FALSE]
  /\ alone = [n \in Node |-> FALSE]
  /\ taken = [n \in Node |-> [byte |-> End, after |-> End]]
  /\ silent = [n \in Node |-> TRUE]
  /\ sends = 0

Interrupts(n) == TransmitIrq(n) \/ ReceiveIrq(n)
Main(n) == Preload(n) \/ PollStatus(n) \/ ReceiveData(n)

Progress == Line \/ \E n \in Node : Interrupts(n) \/ Main(n)

Next == Progress \/ \E n \in Node : SendCheck(n)

(* The line goes on, interrupts are served, and LibPQP polls the interface *)
(* in every round of the main loop.  Nobody has to send.  Between two      *)
(* sends there is only so much to do, so it is enough that something is    *)
(* done.                                                                   *)
Fairness == WF_vars(Progress)

Spec == Init /\ [][Next]_vars /\ Fairness

-----------------------------------------------------------------------------
(***************************************************************************)
(* Properties.                                                             *)
(***************************************************************************)

(* Every variable keeps to the values the code can give it, the indices    *)
(* within what they index.                                                 *)
TypeOK ==
  /\ \A n \in Node :
       /\ main[n] \in {"idle", "checked", "late", "sending"}
       /\ data[n] \in Seq(Byte) \cup {NoFrame}
       /\ len[n] \in -1 .. (IF data[n] = NoFrame THEN -1 ELSE Len(data[n]))
            \/ Checked(n)
       /\ txPtr[n] \in -1 .. bytes[n]
       /\ rxPtr[n] \in -1 .. len[n] \/ Checked(n)
       /\ ring[n] \in Seq(Heard) /\ Len(ring[n]) < RingSize
       /\ txFifo[n] \in Seq(Byte) /\ Len(txFifo[n]) <= TxFifoSize + 1
       /\ rxFifo[n] \in Seq(Heard) /\ Len(rxFifo[n]) <= RxFifoSize
       /\ status[n] \in -1 .. 1
  /\ sends \in 0 .. MaxSends

(* A send that reports success was on the line as the frame and nothing    *)
(* else, byte for byte, for every board to hear: a collision is noticed.   *)
(* (Unless a byte came in just before the first of its own, or characters  *)
(* were lost because its interrupts were held back: the comparison is then *)
(* out of step, and an error flag passes for a frame end.)                 *)
SuccessWasHeard ==
  \A n \in Node :
    status[n] = 1 /\ ~ shifted[n] => matched[n] = Len(data[n])

(* A send that nothing disturbed does not report failure, whenever         *)
(* send_status happens to look between the end of the transmission and the *)
(* interrupt for its last bytes.                                           *)
UndisturbedSucceeds ==
  \A n \in Node : status[n] = -1 /\ txPtr[n] >= 0 => ~ alone[n]

(* A board that has not sent never takes two bytes for neighbours that     *)
(* were not: where bytes were shifted, in the FIFO or for want of room in the *)
(* ring, there is a frame end in their place.                              *)
Neighbours(a, b) == a.byte = End \/ b.byte = End \/ b.after = a.byte
NothingSpliced ==
  \A n \in Node : silent[n] =>
    LET seen == <<taken[n]>> \o ring[n]
    IN \A i \in 1 .. Len(seen) - 1 : Neighbours(seen[i], seen[i + 1])

(* A send is never left waiting: when nothing is on the line and no        *)
(* interrupt pending, send_status has an answer, also after a collision    *)
(* and for a frame shorter than the FIFO's level.                          *)
Pending(n) == (txIrq[n].enabled /\ txIrq[n].raised) \/ rxFifo[n] # <<>>
SendNeverStuck ==
  \A n \in Node :
    main[n] = "sending" /\ ~ LineActive /\ ~ Pending(n) => SendStatus(n) # 0

==============================================================================
