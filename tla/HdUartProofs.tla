---------------------------- MODULE HdUartProofs ----------------------------
(***************************************************************************)
(* The half-duplex UART for any number of boards, any frames, and FIFOs    *)
(* and rings of any size and level that HdUartAssumption allows.           *)
(*                                                                         *)
(* A send always comes to an answer: the transmit interrupt is raised when *)
(* the FIFO drains to its level and at no other time, so what counts is    *)
(* that it is above its level, or the interrupt is raised, as long as      *)
(* bytes are left for it.                                                  *)
(*                                                                         *)
(* Success is only reported for a frame that was heard, an undisturbed     *)
(* frame succeeds, and nothing is spliced into a frame that is received:   *)
(* the receive interrupt handles all that its FIFO holds in a loop, so     *)
(* what it did after i bytes is found by induction over i (CountUp), from  *)
(* what it has compared and stored so far and what the FIFO holds still.   *)
(***************************************************************************)
EXTENDS HdUart, WellFoundedInduction, TLAPS

IsSequence(s) == \E S : s \in Seq(S)

Shape ==
  /\ main \in [Node -> {"idle", "checked", "late", "sending"}]
  /\ data \in [Node -> Seq(Byte) \cup {NoFrame}]
  /\ bytes \in [Node -> Int] /\ txPtr \in [Node -> Int]
  /\ txIrq \in [Node -> [enabled : BOOLEAN, raised : BOOLEAN]]
  /\ txFifo = [n \in Node |-> txFifo[n]]
  /\ \A n \in Node : IsSequence(txFifo[n]) /\ Len(txFifo[n]) <= TxFifoSize + 1

(* The rest of the frame will be asked for.                                *)
Fed(n) ==
  /\ txIrq[n].enabled
  /\ txIrq[n].raised \/ Len(txFifo[n]) > TxLevel + 1

Sending(n) ==
  /\ Checked(n) => data[n] # NoFrame
  /\ main[n] = "sending" =>
       \/ txPtr[n] = -1 /\ data[n] = NoFrame
       \/ /\ data[n] # NoFrame
          /\ txPtr[n] \in 0 .. bytes[n]
          /\ txPtr[n] < bytes[n] => Fed(n)

FeedInv == Shape /\ \A n \in Node : Sending(n)

-----------------------------------------------------------------------------
(***************************************************************************)
(* Sequences whose elements do not matter.                                 *)
(***************************************************************************)
LEMMA Lengths ==
  ASSUME NEW s, IsSequence(s)
  PROVE  /\ Len(s) \in Nat
         /\ s # <<>> => IsSequence(Tail(s)) /\ Len(Tail(s)) = Len(s) - 1 /\ Len(s) > 0
         /\ s = <<>> => Len(s) = 0
<1>1. PICK S : s \in Seq(S)
  BY DEF IsSequence
<1>2. s # <<>> => Tail(s) \in Seq(S) /\ Len(Tail(s)) = Len(s) - 1 /\ Len(s) > 0
  BY <1>1
<1> QED BY <1>1, <1>2 DEF IsSequence

LEMMA Joined ==
  ASSUME NEW s, NEW t, IsSequence(s), IsSequence(t)
  PROVE  IsSequence(s \o t) /\ Len(s \o t) = Len(s) + Len(t)
<1>1. PICK S, T : s \in Seq(S) /\ t \in Seq(T)
  BY DEF IsSequence
<1>2. s \in Seq(S \cup T) /\ t \in Seq(S \cup T)
  BY <1>1
<1>3. s \o t \in Seq(S \cup T) /\ Len(s \o t) = Len(s) + Len(t)
  BY <1>2
<1> QED BY <1>3 DEF IsSequence

LEMMA Enumerated ==
  ASSUME NEW m \in Nat, NEW s, DOMAIN s = 1 .. m, s = [i \in 1 .. m |-> s[i]]
  PROVE  IsSequence(s) /\ Len(s) = m
<1>1. s \in Seq({ s[i] : i \in 1 .. m }) /\ Len(s) = m
  OBVIOUS
<1> QED BY <1>1 DEF IsSequence

-----------------------------------------------------------------------------
LEMMA InitFeed == Init => FeedInv
<1> SUFFICES ASSUME Init PROVE FeedInv
  OBVIOUS
<1>1. IsSequence(<<>>) /\ Len(<<>>) = 0
  <2>1. <<>> \in Seq({})
    OBVIOUS
  <2> QED BY <2>1 DEF IsSequence
<1>2. Shape
  BY <1>1, HdUartAssumption DEF Init, Shape
<1> QED BY <1>2 DEF Init, FeedInv, Sending, Checked

(* What concerns neither the transmitter nor its interrupt.                *)
LEMMA NotTransmitting ==
  ASSUME FeedInv, UNCHANGED <<data, bytes, txPtr, txIrq, txFifo>>,
         \/ UNCHANGED main
         \/ \E n \in Node : main' = [main EXCEPT ![n] = "idle"]
  PROVE  FeedInv'
<1>1. main' \in [Node -> {"idle", "checked", "late", "sending"}]
  BY DEF FeedInv, Shape
<1>2. Shape'
  BY <1>1 DEF FeedInv, Shape
<1>3. \A n \in Node : main'[n] = main[n] \/ main'[n] = "idle"
  BY DEF FeedInv, Shape
<1>4. \A n \in Node : Sending(n)'
  BY <1>3 DEF FeedInv, Sending, Checked, Fed
<1> QED BY <1>2, <1>4 DEF FeedInv

LEMMA SendCheckFeeds ==
  ASSUME FeedInv, NEW n \in Node, SendCheck(n)
  PROVE  FeedInv'
<1>1. UNCHANGED <<txIrq, txFifo>> /\ main[n] = "idle"
  BY DEF SendCheck, uart
<1>2. CASE /\ main' = [main EXCEPT ![n] = "sending"]
           /\ data' = [data EXCEPT ![n] = NoFrame]
           /\ bytes' = [bytes EXCEPT ![n] = -1]
           /\ txPtr' = [txPtr EXCEPT ![n] = -1]
  <2>1. Shape'
    BY <1>1, <1>2 DEF FeedInv, Shape
  <2>2. \A m \in Node : Sending(m)'
    BY <1>1, <1>2 DEF FeedInv, Shape, Sending, Checked, Fed
  <2> QED BY <2>1, <2>2 DEF FeedInv
<1>3. CASE /\ main' = [main EXCEPT ![n] = "checked"]
           /\ \E f \in FramesOf[n] : data' = [data EXCEPT ![n] = f]
           /\ UNCHANGED <<bytes, txPtr>>
  <2>1. PICK f \in FramesOf[n] : data' = [data EXCEPT ![n] = f]
    BY <1>3
  <2>2. f \in Seq(Byte) /\ f # NoFrame
    BY HdUartAssumption
  <2>3. Shape'
    BY <1>1, <1>3, <2>1, <2>2 DEF FeedInv, Shape
  <2>4. \A m \in Node : Sending(m)'
    BY <1>1, <1>3, <2>1, <2>2 DEF FeedInv, Shape, Sending, Checked, Fed
  <2> QED BY <2>3, <2>4 DEF FeedInv
<1> QED BY <1>2, <1>3 DEF SendCheck

(* The FIFO is filled beyond its level, with a byte left for the interrupt. *)
LEMMA PreloadFeeds ==
  ASSUME FeedInv, NEW n \in Node, Preload(n)
  PROVE  FeedInv'
<1> DEFINE total == PaddedLength(data[n])
           size == Smaller(total - 1, TxFifoSize + 1)
           filled == [i \in 1 .. size |->
                        IF i <= Len(data[n]) THEN data[n][i] ELSE End]
<1>1. /\ main' = [main EXCEPT ![n] = "sending"] /\ UNCHANGED data
      /\ bytes' = [bytes EXCEPT ![n] = total]
      /\ txPtr' = [txPtr EXCEPT ![n] = size]
      /\ txFifo' = [txFifo EXCEPT ![n] = filled]
      /\ txIrq' = [txIrq EXCEPT ![n] =
            [enabled |-> TRUE, raised |-> txIrq[n].raised /\ size <= TxLevel + 1]]
  BY DEF Preload, FeedInv, Shape
<1>2. Len(data[n]) \in Nat /\ data[n] # NoFrame
  <2>1. data[n] # NoFrame
    BY DEF Preload, FeedInv, Sending
  <2>2. data[n] \in Seq(Byte)
    BY <2>1 DEF FeedInv, Shape
  <2> QED BY <2>1, <2>2
<1>3. /\ total \in Nat /\ size \in Nat /\ size < total
      /\ size > TxLevel + 1 /\ size <= TxFifoSize + 1
  <2>1. /\ TxFifoSize \in Nat /\ TxLevel \in Nat /\ MinLength \in Nat
        /\ MinLength >= TxLevel + 3 /\ TxFifoSize > TxLevel + 1
    BY HdUartAssumption
  <2>2. total \in Nat /\ total >= MinLength
    BY <1>2, <2>1 DEF PaddedLength, Larger
  <2>3. size = Smaller(total - 1, TxFifoSize + 1)
    OBVIOUS
  <2> HIDE DEF total, size
  <2> QED BY <2>1, <2>2, <2>3 DEF Smaller
<1> HIDE DEF total, size
<1>4. IsSequence(filled) /\ Len(filled) = size
  BY <1>3, Enumerated
<1> HIDE DEF filled
<1>5. Shape'
  <2>1. /\ main' \in [Node -> {"idle", "checked", "late", "sending"}]
        /\ data' \in [Node -> Seq(Byte) \cup {NoFrame}]
    BY <1>1 DEF FeedInv, Shape
  <2>2. bytes' \in [Node -> Int] /\ txPtr' \in [Node -> Int]
    BY <1>1, <1>3 DEF FeedInv, Shape
  <2>3. (size <= TxLevel + 1) \in BOOLEAN
    OBVIOUS
  <2>4. txIrq' \in [Node -> [enabled : BOOLEAN, raised : BOOLEAN]]
    BY <1>1, <2>3 DEF FeedInv, Shape
  <2>5. /\ txFifo' = [m \in Node |-> txFifo'[m]]
        /\ \A m \in Node : IsSequence(txFifo'[m]) /\ Len(txFifo'[m]) <= TxFifoSize + 1
    <3>1. \A m \in Node : txFifo'[m] = IF m = n THEN filled ELSE txFifo[m]
      BY <1>1 DEF FeedInv, Shape
    <3>2. txFifo' = [m \in Node |-> txFifo'[m]]
      BY <1>1 DEF FeedInv, Shape
    <3> QED BY <1>3, <1>4, <3>1, <3>2 DEF FeedInv, Shape
  <2> QED BY <2>1, <2>2, <2>4, <2>5 DEF Shape
<1>6. ASSUME NEW m \in Node PROVE Sending(m)'
  <2>1. CASE m = n
    BY <1>1, <1>2, <1>3, <1>4, <2>1 DEF FeedInv, Shape, Sending, Checked, Fed
  <2>2. CASE m # n
    BY <1>1, <2>2 DEF FeedInv, Shape, Sending, Checked, Fed
  <2> QED BY <2>1, <2>2
<1> QED BY <1>5, <1>6 DEF FeedInv

(* As many bytes as there are left, or as the FIFO has room for.           *)
LEMMA Refilled ==
  ASSUME NEW b \in Int, NEW p \in Int, NEW l \in Nat, NEW s \in Nat,
         p < b, l <= s + 1
  PROVE  LET q == Smaller(b, p + s + 1 - l)
         IN q \in Int /\ p <= q /\ q <= b /\ q - p + l <= s + 1
<1>1. CASE b < p + s + 1 - l
  BY <1>1, SMT DEF Smaller
<1>2. CASE ~ (b < p + s + 1 - l)
  BY <1>2, SMT DEF Smaller
<1> QED BY <1>1, <1>2

LEMMA TransmitIrqFeeds ==
  ASSUME FeedInv, NEW n \in Node, TransmitIrq(n)
  PROVE  FeedInv'
<1> USE DEF FeedInv
<1>1. UNCHANGED <<main, data, bytes>>
  BY DEF TransmitIrq
<1>2. CASE /\ data[n] = NoFrame \/ txPtr[n] >= bytes[n]
           /\ txIrq' = [txIrq EXCEPT ![n].enabled = FALSE]
           /\ UNCHANGED <<txPtr, txFifo>>
  <2>1. txIrq' \in [Node -> [enabled : BOOLEAN, raised : BOOLEAN]]
        /\ \A m \in Node : m # n => txIrq'[m] = txIrq[m]
    BY <1>2 DEF Shape
  <2>2. Shape'
    BY <1>1, <1>2, <2>1 DEF Shape
  <2>3. ASSUME NEW m \in Node PROVE Sending(m)'
    <3>1. CASE m = n
      BY <1>1, <1>2, <3>1 DEF Shape, Sending, Checked
    <3>2. CASE m # n
      BY <1>1, <1>2, <2>1, <3>2 DEF Shape, Sending, Checked, Fed
    <3> QED BY <3>1, <3>2
  <2> QED BY <2>2, <2>3
<1>3. ASSUME data[n] # NoFrame, txPtr[n] < bytes[n] PROVE FeedInv'
  <2> DEFINE first == txPtr[n]
             last == Smaller(bytes[n], txPtr[n] + TxFifoSize + 1 - Len(txFifo[n]))
             more == BytesAt(n, first, last)
             whole == txFifo[n] \o more
  <2>1. /\ txPtr' = [txPtr EXCEPT ![n] = last]
        /\ txFifo' = [txFifo EXCEPT ![n] = whole]
        /\ txIrq' = [txIrq EXCEPT ![n] =
              [enabled |-> last < bytes[n],
               raised |-> Len(txFifo'[n]) <= TxLevel + 1]]
    BY <1>3 DEF TransmitIrq, Shape
  <2>2. /\ first \in Int /\ bytes[n] \in Int /\ Len(txFifo[n]) \in Nat
        /\ Len(txFifo[n]) <= TxFifoSize + 1 /\ IsSequence(txFifo[n])
    BY Lengths DEF Shape
  <2>3. /\ last \in Int /\ first <= last /\ last <= bytes[n]
        /\ last - first + Len(txFifo[n]) <= TxFifoSize + 1
    BY <1>3, <2>2, Refilled, HdUartAssumption
  <2> HIDE DEF first, last
  <2>4. IsSequence(more) /\ Len(more) = last - first
    <3>1. last - first \in Nat /\ more = [i \in 1 .. last - first |-> more[i]]
      BY <2>2, <2>3 DEF BytesAt
    <3>2. DOMAIN more = 1 .. last - first
      BY DEF BytesAt
    <3> HIDE DEF more
    <3> QED BY <3>1, <3>2, Enumerated
  <2> HIDE DEF more
  <2>5. IsSequence(whole) /\ Len(whole) <= TxFifoSize + 1 /\ Len(whole) \in Nat
    BY <2>2, <2>3, <2>4, Joined, Lengths
  <2> HIDE DEF whole
  <2>6. txFifo'[n] = whole
    BY <2>1 DEF Shape
  <2>7. /\ txIrq'[n] = [enabled |-> last < bytes[n], raised |-> Len(whole) <= TxLevel + 1]
        /\ txIrq' \in [Node -> [enabled : BOOLEAN, raised : BOOLEAN]]
    BY <2>1, <2>6 DEF Shape
  <2>8. Shape'
    BY <1>1, <2>1, <2>3, <2>5, <2>7 DEF Shape
  <2>9. ASSUME NEW m \in Node PROVE Sending(m)'
    <3>1. CASE m = n
      <4>1. txPtr'[n] = last /\ (last < bytes[n] => Fed(n)')
        <5>1. txPtr'[n] = last
          BY <2>1 DEF Shape
        <5>2. TxLevel \in Nat
          BY HdUartAssumption
        <5>3. Len(whole) <= TxLevel + 1 \/ Len(whole) > TxLevel + 1
          BY <2>5, <5>2
        <5>4. last < bytes[n] => Fed(n)'
          BY <2>6, <2>7, <5>3 DEF Fed
        <5> QED BY <5>1, <5>4
      <4>2. main[n] = "sending" => first \in Nat
        BY <1>3, <2>2 DEF Sending, first
      <4>3. main[n] = "sending" => last \in 0 .. bytes[n]
        BY <2>2, <2>3, <4>2
      <4> QED BY <1>1, <1>3, <3>1, <4>1, <4>3 DEF Sending, Checked, Shape
    <3>2. CASE m # n
      BY <1>1, <2>1, <3>2 DEF Shape, Sending, Checked, Fed
    <3> QED BY <3>1, <3>2
  <2> QED BY <2>8, <2>9
<1> QED BY <1>2, <1>3 DEF TransmitIrq, Shape

(* A byte on the line empties a place of each transmitter, and raises the  *)
(* interrupt of one that comes to its level.                               *)
LEMMA LineFeeds ==
  ASSUME FeedInv, Line
  PROVE  FeedInv'
<1> USE DEF FeedInv
<1>1. /\ UNCHANGED <<data, bytes, txPtr>>
      /\ main' = [n \in Node |-> IF main[n] = "checked" THEN "late" ELSE main[n]]
      /\ txFifo' = [n \in Node |-> Shift(n)]
      /\ txIrq' = [n \in Node |->
           [txIrq[n] EXCEPT !.raised =
              @ \/ (Transmitting(n) /\ Len(Shift(n)) = TxLevel + 1)]]
  BY DEF Line, tx
<1>2. TxLevel \in Nat /\ TxFifoSize \in Nat
  BY HdUartAssumption
<1>3. ASSUME NEW n \in Node
      PROVE  /\ IsSequence(Shift(n)) /\ Len(Shift(n)) \in Nat /\ Len(txFifo[n]) \in Nat
             /\ Len(Shift(n)) <= Len(txFifo[n]) /\ Len(Shift(n)) <= TxFifoSize + 1
             /\ Len(txFifo[n]) > TxLevel + 1 =>
                  Transmitting(n) /\ Len(Shift(n)) = Len(txFifo[n]) - 1
  <2>1. IsSequence(txFifo[n]) /\ Len(txFifo[n]) <= TxFifoSize + 1
    BY DEF Shape
  <2>2. Len(txFifo[n]) \in Nat
    BY <2>1, Lengths
  <2>3. CASE txFifo[n] = <<>>
    <3>1. Shift(n) = txFifo[n] /\ Len(txFifo[n]) = 0
      BY <2>1, <2>3, Lengths DEF Shift, Transmitting
    <3> QED BY <3>1, <2>1, <2>2, <1>2
  <2>4. CASE txFifo[n] # <<>>
    <3>1. Shift(n) = Tail(txFifo[n]) /\ Transmitting(n)
      BY <2>4 DEF Shift, Transmitting
    <3>2. /\ IsSequence(Tail(txFifo[n])) /\ Len(Tail(txFifo[n])) = Len(txFifo[n]) - 1
          /\ Len(txFifo[n]) > 0
      BY <2>1, <2>4, Lengths
    <3> QED BY <3>1, <3>2, <2>1, <2>2, <1>2
  <2> QED BY <2>3, <2>4
<1>4. \A n \in Node :
        /\ txFifo'[n] = Shift(n)
        /\ txIrq'[n] \in [enabled : BOOLEAN, raised : BOOLEAN]
        /\ txIrq'[n].enabled = txIrq[n].enabled
        /\ txIrq[n].raised \/ (Transmitting(n) /\ Len(Shift(n)) = TxLevel + 1)
             => txIrq'[n].raised
  BY <1>1 DEF Shape
<1>5. Shape'
  <2>1. main' \in [Node -> {"idle", "checked", "late", "sending"}]
    BY <1>1 DEF Shape
  <2>2. txIrq' \in [Node -> [enabled : BOOLEAN, raised : BOOLEAN]]
    BY <1>1, <1>4
  <2>3. txFifo' = [n \in Node |-> txFifo'[n]]
    BY <1>1
  <2> QED BY <1>1, <1>3, <1>4, <2>1, <2>2, <2>3 DEF Shape
<1>6. ASSUME NEW n \in Node PROVE Sending(n)'
  <2>1. /\ Checked(n)' => Checked(n)
        /\ main'[n] = "sending" => main[n] = "sending"
    BY <1>1 DEF Checked, Shape
  <2>2. Fed(n) => Fed(n)'
    <3> SUFFICES ASSUME Fed(n) PROVE Fed(n)'
      OBVIOUS
    <3>1. CASE txIrq[n].raised
      BY <1>4, <3>1 DEF Fed
    <3>2. CASE Len(txFifo[n]) > TxLevel + 1
      <4>1. \/ Len(Shift(n)) = TxLevel + 1
            \/ Len(Shift(n)) > TxLevel + 1
        BY <1>2, <1>3, <3>2
      <4> QED BY <1>3, <1>4, <3>2, <4>1 DEF Fed
    <3> QED BY <3>1, <3>2 DEF Fed
  <2> QED BY <1>1, <2>1, <2>2 DEF Sending
<1> QED BY <1>5, <1>6

LEMMA NextFeeds ==
  ASSUME FeedInv, [Next]_vars
  PROVE  FeedInv'
<1>1. CASE Line
  BY <1>1, LineFeeds
<1>2. ASSUME NEW n \in Node, SendCheck(n) PROVE FeedInv'
  BY <1>2, SendCheckFeeds
<1>3. ASSUME NEW n \in Node, Preload(n) PROVE FeedInv'
  BY <1>3, PreloadFeeds
<1>4. ASSUME NEW n \in Node, TransmitIrq(n) PROVE FeedInv'
  BY <1>4, TransmitIrqFeeds
<1>5. ASSUME NEW n \in Node, ReceiveIrq(n) PROVE FeedInv'
  <2>1. UNCHANGED <<main, data, bytes, txPtr, txIrq, txFifo>>
    BY <1>5 DEF ReceiveIrq
  <2> QED BY <2>1, NotTransmitting
<1>6. ASSUME NEW n \in Node, PollStatus(n) PROVE FeedInv'
  <2>1. /\ UNCHANGED <<data, bytes, txPtr, txIrq, txFifo>>
        /\ main' = [main EXCEPT ![n] = "idle"]
    BY <1>6 DEF PollStatus, tx, uart
  <2> QED BY <2>1, NotTransmitting
<1>7. ASSUME NEW n \in Node, ReceiveData(n) PROVE FeedInv'
  <2>1. UNCHANGED <<main, data, bytes, txPtr, txIrq, txFifo>>
    BY <1>7 DEF ReceiveData, tx, uart
  <2> QED BY <2>1, NotTransmitting
<1>8. CASE UNCHANGED vars
  <2>1. UNCHANGED <<main, data, bytes, txPtr, txIrq, txFifo>>
    BY <1>8 DEF vars, tx, uart
  <2> QED BY <2>1, NotTransmitting
<1> QED BY <1>1, <1>2, <1>3, <1>4, <1>5, <1>6, <1>7, <1>8
        DEF Next, Progress, Interrupts, Main

LEMMA FedAnswers == FeedInv => SendNeverStuck
<1> SUFFICES ASSUME FeedInv, NEW n \in Node,
                    main[n] = "sending", ~ LineActive, ~ Pending(n)
             PROVE  SendStatus(n) # 0
  BY DEF SendNeverStuck
<1>1. txFifo[n] = <<>> /\ ~ Transmitting(n) /\ Len(txFifo[n]) = 0 /\ rxFifo[n] = <<>>
  BY Lengths DEF LineActive, Transmitting, Pending, FeedInv, Shape
<1>2. TxLevel \in Nat
  BY HdUartAssumption
<1>3. ~ Fed(n)
  BY <1>1, <1>2 DEF Fed, Pending
<1>4. \/ txPtr[n] = -1
      \/ txPtr[n] \in 0 .. bytes[n] /\ ~ (txPtr[n] < bytes[n])
  BY <1>3 DEF FeedInv, Sending
<1>5. \/ txPtr[n] = -1
      \/ txPtr[n] \in Nat /\ txPtr[n] = bytes[n]
  BY <1>4 DEF FeedInv, Shape
<1> QED BY <1>1, <1>5 DEF SendStatus

(* A send always comes to an answer: once nothing is on the line and no    *)
(* interrupt is pending, send_status no longer says "in progress".  The    *)
(* interrupt that brings the rest of a frame, raised only when the FIFO    *)
(* drains to its level, is never missed, whatever another board does to    *)
(* the line and however late the interrupts are served.                    *)
THEOREM NeverStuck == Spec => []SendNeverStuck
<1>1. Init => FeedInv
  BY InitFeed
<1>2. FeedInv /\ [Next]_vars => FeedInv'
  BY NextFeeds
<1>3. FeedInv => SendNeverStuck
  BY FedAnswers
<1> QED BY <1>1, <1>2, <1>3, PTL DEF Spec

-----------------------------------------------------------------------------
(***************************************************************************)
(* The handler's loop.  A recursive function is a CHOOSE to the prover, so *)
(* it has to be shown that one exists; what the loop keeps is then shown   *)
(* by counting up.                                                         *)
(***************************************************************************)
LEMMA Least ==
  ASSUME NEW T, T \subseteq Nat, T # {}
  PROVE  \E n \in T : \A m \in T : n <= m
<1> DEFINE R == { p \in Nat \X Nat : p[1] < p[2] }
<1>1. IsWellFoundedOn(R, Nat)
  BY NatLessThanWellFounded, Zenon DEF OpToRel
<1>2. \A x, y \in Nat : <<x, y>> \in R <=> x < y
  OBVIOUS
<1> HIDE DEF R
<1>3. PICK x \in T : \A y \in T : ~ (<<y, x>> \in R)
  BY <1>1, WFMin
<1>4. ASSUME NEW y \in T PROVE x <= y
  <2>1. x \in Nat /\ y \in Nat
    OBVIOUS
  <2>2. ~ (y < x)
    BY <1>2, <1>3, <2>1
  <2> QED BY <2>1, <2>2
<1> QED BY <1>4

LEMMA CountUp ==
  ASSUME NEW n \in Nat, NEW T, 0 \in T, \A i \in 1 .. n : i - 1 \in T => i \in T
  PROVE  \A i \in 0 .. n : i \in T
<1> DEFINE Missing == { i \in 0 .. n : i \notin T }
<1> SUFFICES ASSUME Missing # {} PROVE FALSE
  OBVIOUS
<1>1. Missing \subseteq Nat
  OBVIOUS
<1> HIDE DEF Missing
<1>2. PICK i \in Missing : \A j \in Missing : i <= j
  BY <1>1, Least
<1> USE DEF Missing
<1>3. i \in 1 .. n /\ i - 1 \in 0 .. n /\ ~ (i <= i - 1)
  OBVIOUS
<1>4. i - 1 \in T
  BY <1>2, <1>3
<1> QED BY <1>3, <1>4

Loops(f, n, S, b, G) ==
  f \in [0 .. n -> S] /\ f[0] = b /\ \A i \in 1 .. n : f[i] = G[i][f[i - 1]]

LEMMA LoopExists ==
  ASSUME NEW n, NEW S, NEW b, NEW G,
         n \in Nat, b \in S, G \in [1 .. n -> [S -> S]]
  PROVE  \E f : Loops(f, n, S, b, G)
<1> DEFINE Good(k) == { f \in [0 .. k -> S] :
                f[0] = b /\ \A i \in 1 .. k : f[i] = G[i][f[i - 1]] }
           T == { k \in 0 .. n : Good(k) = {} }
<1>1. T \subseteq Nat
  OBVIOUS
<1>2. CASE T # {}
  <2> HIDE DEF T
  <2>1. PICK k \in T : \A j \in T : k <= j
    BY <1>1, <1>2, Least
  <2> USE DEF T
  <2>2. k \in 0 .. n /\ Good(k) = {}
    OBVIOUS
  <2>3. k # 0
    <3>1. [i \in 0 .. 0 |-> b] \in Good(0)
      OBVIOUS
    <3> QED BY <2>2, <3>1
  <2>4. k \in 1 .. n /\ k - 1 \in 0 .. n /\ ~ (k <= k - 1)
    BY <2>2, <2>3
  <2>5. Good(k - 1) # {}
    BY <2>1, <2>4
  <2>6. PICK f \in [0 .. k - 1 -> S] : f[0] = b /\ \A i \in 1 .. k - 1 : f[i] = G[i][f[i - 1]]
    BY <2>5
  <2> DEFINE g == [i \in 0 .. k |-> IF i = k THEN G[k][f[k - 1]] ELSE f[i]]
  <2>7. g \in [0 .. k -> S]
    BY <2>4, <2>6
  <2>8. g[0] = b /\ \A i \in 1 .. k : g[i] = G[i][g[i - 1]]
    BY <2>4, <2>6
  <2> HIDE DEF g
  <2>9. g \in Good(k)
    BY <2>7, <2>8
  <2> QED BY <2>2, <2>9
<1>3. CASE T = {}
  <2>1. n \notin T
    BY <1>3
  <2>2. Good(n) # {}
    BY <2>1
  <2>3. PICK f : f \in Good(n)
    BY <2>2
  <2> QED BY <2>3 DEF Loops
<1> QED BY <1>2, <1>3

Kept == [byte : Byte, after : Byte]
Loop == [echoed : Int, expected : Int, ring : Seq(Kept)]

LEMMA StoredType ==
  ASSUME NEW r \in Seq(Kept), NEW b \in Heard, Len(r) < RingSize
  PROVE  Stored(r, b) \in Seq(Kept) /\ Len(Stored(r, b)) < RingSize
<1>1. End \in Byte /\ RingSize \in Nat /\ RingSize > 1
  BY HdUartAssumption
<1>2. CASE RingFull(r)
  <2>1. Len(r) \in 1 .. Len(r)
    BY <1>1, <1>2 DEF RingFull
  <2>2. [byte |-> End, after |-> b.after] \in Kept
    BY <1>1 DEF Heard, Kept
  <2>3. Invalidated(r, b) \in Seq(Kept) /\ Len(Invalidated(r, b)) = Len(r)
    BY <2>1, <2>2 DEF Invalidated
  <2> QED BY <1>2, <2>3 DEF Stored
<1>3. CASE ~ RingFull(r)
  <2>1. [b EXCEPT !.byte = Received(@)] \in Kept
    BY <1>1 DEF Heard, Kept, Received
  <2>2. /\ Append(r, [b EXCEPT !.byte = Received(@)]) \in Seq(Kept)
        /\ Len(Append(r, [b EXCEPT !.byte = Received(@)])) = Len(r) + 1
    BY <2>1
  <2> QED BY <1>1, <1>3, <2>2 DEF Stored, RingFull
<1> QED BY <1>2, <1>3

RoomyLoop == { v \in Loop : Len(v.ring) < RingSize }

LEMMA HandledType ==
  ASSUME NEW f, NEW v \in RoomyLoop, NEW b \in Heard
  PROVE  Handled(f, v, b) \in RoomyLoop
<1>1. Stored(v.ring, b) \in Seq(Kept) /\ Len(Stored(v.ring, b)) < RingSize
  BY StoredType DEF RoomyLoop, Loop
<1>2. CASE v.echoed >= v.expected
  BY <1>1, <1>2 DEF Handled, RoomyLoop, Loop
<1>3. CASE ~ (v.echoed >= v.expected)
  <2>1. /\ v.echoed \in Int /\ v.ring \in Seq(Kept) /\ Len(v.ring) < RingSize
        /\ v = [echoed |-> v.echoed, expected |-> v.expected, ring |-> v.ring]
    BY DEF RoomyLoop, Loop
  <2>2. CASE EchoMatches(f, v.echoed + 1, b.byte)
    BY <1>3, <2>1, <2>2 DEF Handled, RoomyLoop, Loop
  <2>3. CASE ~ EchoMatches(f, v.echoed + 1, b.byte)
    <3>1. -1 \in Int
      OBVIOUS
    <3>2. Handled(f, v, b) = [v EXCEPT !.echoed = -1, !.expected = -1]
      BY <1>3, <2>3 DEF Handled
    <3>3. Handled(f, v, b) = [echoed |-> -1, expected |-> -1, ring |-> v.ring]
      BY <2>1, <3>2 DEF RoomyLoop, Loop
    <3> QED BY <2>1, <3>1, <3>3 DEF RoomyLoop, Loop
  <2> QED BY <2>2, <2>3
<1> QED BY <1>2, <1>3

(* What the loop makes of the bytes in the FIFO, one after the other.      *)
Handling(u, n) ==
  /\ u \in [0 .. Len(rxFifo[n]) -> RoomyLoop]
  /\ u[0] = [echoed |-> rxPtr[n], expected |-> len[n], ring |-> ring[n]]
  /\ \A i \in 1 .. Len(rxFifo[n]) : u[i] = Handled(data[n], u[i - 1], rxFifo[n][i])
  /\ rxPtr' = [rxPtr EXCEPT ![n] = u[Len(rxFifo[n])].echoed]
  /\ len' = [len EXCEPT ![n] = u[Len(rxFifo[n])].expected]
  /\ ring' = [ring EXCEPT ![n] = u[Len(rxFifo[n])].ring]

LEMMA HandlingExists ==
  ASSUME NEW n \in Node, ReceiveIrq(n), rxFifo[n] \in Seq(Heard),
         rxPtr[n] \in Int, len[n] \in Int, ring[n] \in Seq(Kept), Len(ring[n]) < RingSize
  PROVE  \E u : Handling(u, n)
<1> DEFINE m == Len(rxFifo[n])
           b == [echoed |-> rxPtr[n], expected |-> len[n], ring |-> ring[n]]
           u[i \in 0 .. m] == IF i = 0 THEN b ELSE Handled(data[n], u[i - 1], rxFifo[n][i])
           G == [i \in 1 .. m |-> [v \in RoomyLoop |-> Handled(data[n], v, rxFifo[n][i])]]
<1>1. m \in Nat /\ b \in RoomyLoop
  BY DEF RoomyLoop, Loop
<1>2. G \in [1 .. m -> [RoomyLoop -> RoomyLoop]]
  <2>1. \A i \in 1 .. m : rxFifo[n][i] \in Heard
    OBVIOUS
  <2> HIDE DEF m
  <2> QED BY <2>1, HandledType
<1>3. /\ rxPtr' = [rxPtr EXCEPT ![n] = u[m].echoed]
      /\ len' = [len EXCEPT ![n] = u[m].expected]
      /\ ring' = [ring EXCEPT ![n] = u[m].ring]
  BY DEF ReceiveIrq
<1> HIDE DEF u, m, b, G
<1>4. PICK f : Loops(f, m, RoomyLoop, b, G)
  BY <1>1, <1>2, LoopExists
<1>5. ASSUME NEW i \in 1 .. m PROVE f[i] = Handled(data[n], f[i - 1], rxFifo[n][i])
  <2>1. f[i - 1] \in RoomyLoop
    BY <1>1, <1>4 DEF Loops
  <2> QED BY <1>4, <2>1 DEF G, Loops
<1>6. f = [i \in 0 .. m |-> IF i = 0 THEN b ELSE Handled(data[n], f[i - 1], rxFifo[n][i])]
  BY <1>1, <1>4, <1>5 DEF Loops
<1>7. u = [i \in 0 .. m |-> IF i = 0 THEN b ELSE Handled(data[n], u[i - 1], rxFifo[n][i])]
  BY <1>6 DEF u
<1>8. u[0] = b /\ \A i \in 1 .. m : u[i] = Handled(data[n], u[i - 1], rxFifo[n][i])
  BY <1>1, <1>7
<1>9. u \in [0 .. m -> RoomyLoop]
  <2> DEFINE T == { i \in 0 .. m : u[i] \in RoomyLoop }
  <2>1. 0 \in T
    BY <1>1, <1>8
  <2>2. ASSUME NEW i \in 1 .. m, i - 1 \in T PROVE i \in T
    <3>1. u[i - 1] \in RoomyLoop /\ rxFifo[n][i] \in Heard /\ i \in 0 .. m
      BY <2>2, <1>1 DEF m
    <3>2. u[i] \in RoomyLoop
      BY <1>8, <3>1, HandledType
    <3> QED BY <3>1, <3>2
  <2> HIDE DEF T
  <2>3. \A i \in 0 .. m : i \in T
    BY <1>1, <2>1, <2>2, CountUp
  <2> USE DEF T
  <2>4. \A i \in 0 .. m : u[i] \in RoomyLoop
    BY <2>3
  <2>5. u = [i \in 0 .. m |-> u[i]]
    BY <1>7
  <2> QED BY <2>4, <2>5
<1>10. Handling(u, n)
  BY <1>3, <1>8, <1>9 DEF Handling, b, m
<1> QED BY <1>10

-----------------------------------------------------------------------------
(***************************************************************************)
(* The values of all variables, and how far a frame has come.              *)
(***************************************************************************)
Types ==
  /\ main \in [Node -> {"idle", "checked", "late", "sending"}]
  /\ data \in [Node -> Seq(Byte) \cup {NoFrame}]
  /\ len \in [Node -> Int] /\ bytes \in [Node -> Int]
  /\ txPtr \in [Node -> Int] /\ rxPtr \in [Node -> Int]
  /\ ring \in [Node -> { r \in Seq(Kept) : Len(r) < RingSize }]
  /\ txFifo \in [Node -> { s \in Seq(Byte) : Len(s) <= TxFifoSize + 1 }]
  /\ txIrq \in [Node -> [enabled : BOOLEAN, raised : BOOLEAN]]
  /\ rxFifo \in [Node -> { s \in Seq(Heard) : Len(s) <= RxFifoSize }]
  /\ overrun \in [Node -> BOOLEAN]
  /\ status \in [Node -> -1 .. 1]
  /\ before \in Byte
  /\ matched \in [Node -> Int]
  /\ shifted \in [Node -> BOOLEAN] /\ alone \in [Node -> BOOLEAN]
  /\ silent \in [Node -> BOOLEAN]
  /\ taken \in [Node -> Kept]
  /\ sends \in 0 .. MaxSends

(* A frame that failed is given up in both indices of the echo; the bytes  *)
(* to transmit are those of the frame and of its padding; and between two  *)
(* sends nothing is left to hand over.                                     *)
EchoPointers(l, r) == r \in -1 .. l /\ (r = -1 <=> l = -1)

Pointers(n) ==
  /\ EchoPointers(len[n], rxPtr[n])
  /\ txPtr[n] \in -1 .. bytes[n]
  /\ data[n] = NoFrame => len[n] = -1 /\ bytes[n] = -1
  /\ data[n] # NoFrame =>
       /\ ~ Checked(n) => len[n] \in {-1, Len(data[n])}
       /\ main[n] = "sending" => bytes[n] = PaddedLength(data[n]) /\ txPtr[n] >= 0
  /\ Checked(n) => data[n] # NoFrame
  /\ main[n] # "sending" => txPtr[n] = bytes[n]
  /\ status[n] # 0 => main[n] = "idle"

PointerInv == Types /\ \A n \in Node : Pointers(n)

LEMMA InitPointers == Init => PointerInv
<1> SUFFICES ASSUME Init PROVE PointerInv
  OBVIOUS
<1>1. /\ End \in Byte /\ RingSize \in Nat /\ RingSize > 1 /\ TxFifoSize \in Nat
      /\ RxFifoSize \in Nat /\ MaxSends \in Nat
  BY HdUartAssumption
<1>2. /\ <<>> \in { r \in Seq(Kept) : Len(r) < RingSize }
      /\ <<>> \in { s \in Seq(Byte) : Len(s) <= TxFifoSize + 1 }
      /\ <<>> \in { s \in Seq(Heard) : Len(s) <= RxFifoSize }
  BY <1>1
<1>3. Types
  BY <1>1, <1>2 DEF Init, Types, Kept
<1>4. ASSUME NEW n \in Node PROVE Pointers(n)
  <2>1. /\ main[n] = "idle" /\ data[n] = NoFrame /\ len[n] = -1 /\ bytes[n] = -1
        /\ txPtr[n] = -1 /\ rxPtr[n] = -1 /\ status[n] = 0
    BY DEF Init
  <2> QED BY <2>1 DEF Pointers, EchoPointers, Checked
<1> QED BY <1>3, <1>4 DEF PointerInv

LEMMA SendCheckPoints ==
  ASSUME PointerInv, NEW n \in Node, SendCheck(n)
  PROVE  PointerInv'
<1> USE DEF PointerInv
<1>1. /\ main[n] = "idle" /\ silent' = [silent EXCEPT ![n] = FALSE]
      /\ sends < MaxSends /\ sends' = sends + 1
      /\ status' = [status EXCEPT ![n] = 0]
      /\ UNCHANGED <<ring, txFifo, txIrq, rxFifo, overrun, before, matched, shifted,
                     alone, taken>>
  BY DEF SendCheck, uart
<1>2. sends' \in 0 .. MaxSends
  <2>1. MaxSends \in Nat
    BY HdUartAssumption
  <2> QED BY <1>1, <2>1 DEF Types
<1>3. CASE /\ main' = [main EXCEPT ![n] = "sending"]
           /\ data' = [data EXCEPT ![n] = NoFrame]
           /\ len' = [len EXCEPT ![n] = -1]
           /\ bytes' = [bytes EXCEPT ![n] = -1]
           /\ txPtr' = [txPtr EXCEPT ![n] = -1]
           /\ rxPtr' = [rxPtr EXCEPT ![n] = -1]
  <2>1. Types'
    BY <1>1, <1>2, <1>3 DEF Types
  <2>2. \A m \in Node : Pointers(m)'
    BY <1>1, <1>3 DEF Types, Pointers, EchoPointers, Checked
  <2> QED BY <2>1, <2>2
<1>4. CASE /\ main' = [main EXCEPT ![n] = "checked"]
           /\ \E f \in FramesOf[n] : data' = [data EXCEPT ![n] = f]
           /\ UNCHANGED <<len, bytes, txPtr, rxPtr>>
  <2>1. PICK f \in FramesOf[n] : data' = [data EXCEPT ![n] = f]
    BY <1>4
  <2>2. f \in Seq(Byte) /\ f # NoFrame
    BY HdUartAssumption
  <2>3. Types'
    BY <1>1, <1>2, <1>4, <2>1, <2>2 DEF Types
  <2>4. ASSUME NEW m \in Node PROVE Pointers(m)'
    <3>1. CASE m = n
      BY <1>1, <1>4, <2>1, <2>2, <3>1 DEF Types, Pointers, EchoPointers, Checked
    <3>2. CASE m # n
      BY <1>1, <1>4, <2>1, <3>2 DEF Types, Pointers, EchoPointers, Checked
    <3> QED BY <3>1, <3>2
  <2> QED BY <2>3, <2>4
<1> QED BY <1>3, <1>4 DEF SendCheck

LEMMA PreloadPoints ==
  ASSUME PointerInv, FeedInv', NEW n \in Node, Preload(n)
  PROVE  PointerInv'
<1> USE DEF PointerInv
<1> DEFINE total == PaddedLength(data[n])
           size == Smaller(total - 1, TxFifoSize + 1)
           filled == [i \in 1 .. size |->
                        IF i <= Len(data[n]) THEN data[n][i] ELSE End]
<1>1. /\ Checked(n) /\ main' = [main EXCEPT ![n] = "sending"]
      /\ len' = [len EXCEPT ![n] = Len(data[n])]
      /\ bytes' = [bytes EXCEPT ![n] = total]
      /\ txPtr' = [txPtr EXCEPT ![n] = size]
      /\ txFifo' = [txFifo EXCEPT ![n] = filled]
      /\ rxPtr' = [rxPtr EXCEPT ![n] = 0]
      /\ matched' = [matched EXCEPT ![n] = 0]
      /\ shifted' = [shifted EXCEPT ![n] = rxFifo[n] # <<>> \/ overrun[n]]
      /\ alone' = [alone EXCEPT ![n] = rxFifo[n] = <<>> /\ ~ overrun[n] /\ ~ LineActive]
      /\ UNCHANGED <<data, ring, rxFifo, overrun, status, before, taken, silent, sends>>
  BY DEF Preload
<1>2. data[n] \in Seq(Byte) /\ data[n] # NoFrame /\ Len(data[n]) \in Nat
  BY <1>1 DEF Types, Pointers
<1>3. /\ End \in Byte /\ TxFifoSize \in Nat /\ TxLevel \in Nat /\ MinLength \in Nat
      /\ MinLength >= TxLevel + 3
  BY HdUartAssumption
<1>4. total \in Nat /\ total >= 3 /\ total >= Len(data[n])
  BY <1>2, <1>3 DEF PaddedLength, Larger
<1> HIDE DEF total
<1>5. size \in Nat /\ size < total /\ size <= TxFifoSize + 1
  BY <1>3, <1>4 DEF Smaller
<1> HIDE DEF size
<1>6. filled \in { s \in Seq(Byte) : Len(s) <= TxFifoSize + 1 }
  <2>1. \A i \in 1 .. size : (IF i <= Len(data[n]) THEN data[n][i] ELSE End) \in Byte
    BY <1>2, <1>3
  <2> QED BY <1>5, <2>1
<1> HIDE DEF filled
<1>7. Types'
  <2>1. txIrq' \in [Node -> [enabled : BOOLEAN, raised : BOOLEAN]]
    BY DEF FeedInv, Shape
  <2>2. /\ (rxFifo[n] # <<>> \/ overrun[n]) \in BOOLEAN
        /\ (rxFifo[n] = <<>> /\ ~ overrun[n] /\ ~ LineActive) \in BOOLEAN
    BY DEF LineActive
  <2>3. shifted' \in [Node -> BOOLEAN] /\ alone' \in [Node -> BOOLEAN]
    BY <1>1, <2>2 DEF Types
  <2>4. /\ main' \in [Node -> {"idle", "checked", "late", "sending"}]
        /\ len' \in [Node -> Int] /\ bytes' \in [Node -> Int]
        /\ txPtr' \in [Node -> Int] /\ rxPtr' \in [Node -> Int]
        /\ matched' \in [Node -> Int]
    BY <1>1, <1>2, <1>4, <1>5 DEF Types
  <2>5. txFifo' \in [Node -> { s \in Seq(Byte) : Len(s) <= TxFifoSize + 1 }]
    BY <1>1, <1>6 DEF Types
  <2> QED BY <1>1, <2>1, <2>3, <2>4, <2>5 DEF Types
<1>8. ASSUME NEW m \in Node PROVE Pointers(m)'
  <2>1. CASE m = n
    <3>1. /\ main'[n] = "sending" /\ len'[n] = Len(data[n]) /\ bytes'[n] = total
          /\ txPtr'[n] = size /\ rxPtr'[n] = 0 /\ status'[n] = status[n]
          /\ data'[n] = data[n]
      BY <1>1 DEF Types
    <3>2. status[n] = 0
      BY <1>1 DEF Pointers, Checked
    <3> QED BY <1>2, <1>4, <1>5, <2>1, <3>1, <3>2 DEF Pointers, EchoPointers, Checked, total
  <2>2. CASE m # n
    BY <1>1, <2>2 DEF Types, Pointers, EchoPointers, Checked
  <2> QED BY <2>1, <2>2
<1> QED BY <1>7, <1>8

LEMMA TransmitIrqPoints ==
  ASSUME PointerInv, FeedInv', NEW n \in Node, TransmitIrq(n)
  PROVE  PointerInv'
<1> USE DEF PointerInv
<1>1. UNCHANGED <<main, data, len, bytes, rxPtr, ring, rxFifo, overrun, status, before,
                  matched, shifted, alone, taken, silent, sends>>
  BY DEF TransmitIrq, history
<1>2. txIrq' \in [Node -> [enabled : BOOLEAN, raised : BOOLEAN]]
  BY DEF FeedInv, Shape
<1>3. CASE UNCHANGED <<txPtr, txFifo>>
  <2>1. Types'
    BY <1>1, <1>2, <1>3 DEF Types
  <2>2. \A m \in Node : Pointers(m)'
    BY <1>1, <1>3 DEF Pointers, Checked
  <2> QED BY <2>1, <2>2
<1>4. ASSUME data[n] # NoFrame, txPtr[n] < bytes[n] PROVE PointerInv'
  <2> DEFINE first == txPtr[n]
             last == Smaller(bytes[n], txPtr[n] + TxFifoSize + 1 - Len(txFifo[n]))
             more == BytesAt(n, first, last)
  <2>1. /\ txPtr' = [txPtr EXCEPT ![n] = last]
        /\ txFifo' = [txFifo EXCEPT ![n] = txFifo[n] \o more]
    BY <1>4 DEF TransmitIrq, Types
  <2>2. main[n] = "sending" /\ first \in Nat
    BY <1>4 DEF Pointers, Types
  <2>3. /\ last \in Int /\ first <= last /\ last <= bytes[n]
        /\ last - first + Len(txFifo[n]) <= TxFifoSize + 1
    <3>1. /\ bytes[n] \in Int /\ txPtr[n] \in Int
          /\ Len(txFifo[n]) \in Nat /\ Len(txFifo[n]) <= TxFifoSize + 1
      BY DEF Types
    <3>2. TxFifoSize \in Nat
      BY HdUartAssumption
    <3> QED BY <1>4, <3>1, <3>2, Refilled
  <2> HIDE DEF last, first
  <2>4. more \in Seq(Byte) /\ Len(more) = last - first
    <3>1. ASSUME NEW i \in 1 .. last - first, first + i <= len[n]
          PROVE  data[n][first + i] \in Byte
      <4>1. data[n] \in Seq(Byte) /\ len[n] \in {-1, Len(data[n])}
        BY <1>4, <2>2 DEF Types, Pointers, Checked
      <4>2. first + i \in 1 .. Len(data[n])
        BY <2>2, <2>3, <3>1, <4>1
      <4> QED BY <4>1, <4>2
    <3>2. End \in Byte
      BY HdUartAssumption
    <3>3. last - first \in Nat
      BY <2>2, <2>3
    <3> QED BY <3>1, <3>2, <3>3 DEF BytesAt
  <2> HIDE DEF more
  <2>5. txFifo[n] \o more \in { s \in Seq(Byte) : Len(s) <= TxFifoSize + 1 }
    <3>1. txFifo[n] \in Seq(Byte)
      BY DEF Types
    <3>2. txFifo[n] \o more \in Seq(Byte)
          /\ Len(txFifo[n] \o more) = Len(txFifo[n]) + Len(more)
      BY <2>4, <3>1
    <3>3. Len(txFifo[n] \o more) <= TxFifoSize + 1
      <4>1. Len(txFifo[n]) \in Nat /\ TxFifoSize \in Nat
        BY <3>1, HdUartAssumption
      <4> QED BY <2>2, <2>3, <2>4, <3>2, <4>1
    <3> QED BY <3>2, <3>3
  <2>6. Types'
    BY <1>1, <1>2, <2>1, <2>3, <2>5 DEF Types
  <2>7. ASSUME NEW m \in Node PROVE Pointers(m)'
    <3>1. txPtr'[m] = IF m = n THEN last ELSE txPtr[m]
      BY <2>1 DEF Types
    <3>2. bytes[m] \in Int /\ txPtr[m] \in Int
      BY DEF Types
    <3> QED BY <1>1, <2>2, <2>3, <3>1, <3>2 DEF Pointers, EchoPointers, Checked, first
  <2> QED BY <2>6, <2>7
<1>5. UNCHANGED <<txPtr, txFifo>> \/ (data[n] # NoFrame /\ ~ (txPtr[n] >= bytes[n]))
  BY DEF TransmitIrq
<1>6. ~ (txPtr[n] >= bytes[n]) => txPtr[n] < bytes[n]
  BY DEF Types
<1> QED BY <1>3, <1>4, <1>5, <1>6

LEMMA LineByteType ==
  ASSUME Types, NEW b \in LineByte
  PROVE  b \in Byte \cup {Error} /\ Received(b) \in Byte
<1>1. End \in Byte
  BY HdUartAssumption
<1>2. \A n \in Node : Transmitting(n) => Head(txFifo[n]) \in Byte
  BY DEF Types, Transmitting
<1>3. b \in Byte \cup {Error}
  BY <1>2 DEF LineByte, Byte
<1> QED BY <1>1, <1>3 DEF Received

LEMMA LinePoints ==
  ASSUME PointerInv, FeedInv', Line
  PROVE  PointerInv'
<1> USE DEF PointerInv
<1>1. /\ \A n \in Node : main[n] # "late"
      /\ main' = [n \in Node |-> IF main[n] = "checked" THEN "late" ELSE main[n]]
      /\ overrun' = [n \in Node |-> Full(n)]
      /\ txFifo' = [n \in Node |-> Shift(n)]
      /\ alone' = [n \in Node |->
           alone[n] /\ ~ Full(n) /\ \A m \in Node \ {n} : ~ Transmitting(m)]
      /\ shifted' = [n \in Node |-> shifted[n] \/ (main[n] = "sending" /\ Full(n))]
      /\ UNCHANGED <<data, len, bytes, txPtr, rxPtr, ring, status, taken, silent, sends>>
  BY DEF Line, tx
<1>2. PICK b \in LineByte :
        /\ rxFifo' = [n \in Node |->
             IF Full(n) THEN rxFifo[n]
             ELSE Append(rxFifo[n], [byte |-> IF overrun[n] THEN Error ELSE b,
                                     after |-> before])]
        /\ matched' = [n \in Node |->
             IF main[n] # "sending" \/ matched[n] \notin 0 .. len[n] - 1 THEN matched[n]
             ELSE IF data[n][matched[n] + 1] = Received(b) THEN matched[n] + 1 ELSE -1]
        /\ before' = Received(b)
  BY DEF Line
<1>3. b \in Byte \cup {Error} /\ Received(b) \in Byte
  BY LineByteType
<1>4. Types'
  <2>1. main' \in [Node -> {"idle", "checked", "late", "sending"}]
    BY <1>1 DEF Types
  <2>2. /\ overrun' \in [Node -> BOOLEAN] /\ alone' \in [Node -> BOOLEAN]
        /\ shifted' \in [Node -> BOOLEAN]
    BY <1>1 DEF Types, Full
  <2>3. ASSUME NEW n \in Node PROVE Shift(n) \in { s \in Seq(Byte) : Len(s) <= TxFifoSize + 1 }
    <3>1. txFifo[n] \in Seq(Byte) /\ Len(txFifo[n]) <= TxFifoSize + 1 /\ TxFifoSize \in Nat
      BY HdUartAssumption DEF Types
    <3> QED BY <3>1 DEF Shift, Transmitting
  <2>4. ASSUME NEW n \in Node, ~ Full(n),
               NEW e \in Heard
        PROVE  Append(rxFifo[n], e) \in { s \in Seq(Heard) : Len(s) <= RxFifoSize }
    <3>1. RxFifoSize \in Nat /\ rxFifo[n] \in Seq(Heard) /\ Len(rxFifo[n]) <= RxFifoSize
      BY HdUartAssumption DEF Types
    <3> QED BY <2>4, <3>1 DEF Full
  <2>5. \A n \in Node : [byte |-> IF overrun[n] THEN Error ELSE b, after |-> before] \in Heard
    BY <1>3 DEF Types, Heard
  <2>6. rxFifo' \in [Node -> { s \in Seq(Heard) : Len(s) <= RxFifoSize }]
    BY <1>2, <2>4, <2>5 DEF Types
  <2>7. matched' \in [Node -> Int] /\ before' \in Byte
    BY <1>2, <1>3 DEF Types
  <2>8. /\ txFifo' \in [Node -> { s \in Seq(Byte) : Len(s) <= TxFifoSize + 1 }]
        /\ txIrq' \in [Node -> [enabled : BOOLEAN, raised : BOOLEAN]]
    BY <1>1, <2>3 DEF FeedInv, Shape
  <2> QED BY <1>1, <2>1, <2>2, <2>6, <2>7, <2>8 DEF Types
<1>5. \A n \in Node : Pointers(n)'
  <2>1. \A n \in Node : /\ Checked(n)' <=> Checked(n)
                        /\ main'[n] = "sending" <=> main[n] = "sending"
                        /\ main'[n] = "idle" <=> main[n] = "idle"
    BY <1>1 DEF Types, Checked
  <2> QED BY <1>1, <2>1 DEF Pointers
<1> QED BY <1>4, <1>5

(* An index that follows the echo stays behind the length, until it is     *)
(* given up with it.                                                       *)
LEMMA HandledPoints ==
  ASSUME NEW f, NEW v \in Loop, NEW b, NEW l \in Int,
         EchoPointers(v.expected, v.echoed), v.expected \in {-1, l}
  PROVE  LET w == Handled(f, v, b)
         IN EchoPointers(w.expected, w.echoed) /\ w.expected \in {-1, l}
<1>1. v.echoed \in Int /\ v.expected \in Int
      /\ v = [echoed |-> v.echoed, expected |-> v.expected, ring |-> v.ring]
  BY DEF Loop
<1>2. CASE v.echoed >= v.expected
  <2>1. Handled(f, v, b) = [v EXCEPT !.ring = Stored(@, b)]
    BY <1>2 DEF Handled
  <2> QED BY <1>1, <2>1 DEF Loop
<1>3. CASE ~ (v.echoed >= v.expected) /\ EchoMatches(f, v.echoed + 1, b.byte)
  <2>1. Handled(f, v, b) = [v EXCEPT !.echoed = @ + 1]
    BY <1>3 DEF Handled
  <2>2. Handled(f, v, b).echoed = v.echoed + 1 /\ Handled(f, v, b).expected = v.expected
    BY <1>1, <2>1 DEF Loop
  <2> QED BY <1>1, <1>3, <2>2 DEF EchoPointers
<1>4. CASE ~ (v.echoed >= v.expected) /\ ~ EchoMatches(f, v.echoed + 1, b.byte)
  <2>1. Handled(f, v, b) = [v EXCEPT !.echoed = -1, !.expected = -1]
    BY <1>4 DEF Handled
  <2>2. Handled(f, v, b).echoed = -1 /\ Handled(f, v, b).expected = -1
    BY <1>1, <2>1 DEF Loop
  <2> QED BY <2>2 DEF EchoPointers
<1> QED BY <1>2, <1>3, <1>4

LEMMA LoopPoints ==
  ASSUME PointerInv, NEW n \in Node, NEW u, Handling(u, n)
  PROVE  LET v == u[Len(rxFifo[n])]
         IN /\ v \in RoomyLoop /\ EchoPointers(v.expected, v.echoed)
            /\ v.expected \in {-1, len[n]}
<1> USE DEF PointerInv
<1> DEFINE m == Len(rxFifo[n])
           T == { i \in 0 .. m : /\ EchoPointers(u[i].expected, u[i].echoed)
                                 /\ u[i].expected \in {-1, len[n]} }
<1>1. m \in Nat
  BY DEF Types
<1>2. 0 \in T
  BY <1>1 DEF Handling, Pointers, Types
<1>3. ASSUME NEW i \in 1 .. m, i - 1 \in T PROVE i \in T
  <2>1. u[i] = Handled(data[n], u[i - 1], rxFifo[n][i]) /\ u[i - 1] \in Loop
        /\ len[n] \in Int /\ i \in 0 .. m
    BY <1>1 DEF Handling, RoomyLoop, Types
  <2> QED BY <1>3, <2>1, HandledPoints
<1> HIDE DEF T, m
<1>4. \A i \in 0 .. m : i \in T
  BY <1>1, <1>2, <1>3, CountUp
<1> QED BY <1>1, <1>4 DEF T, m, Handling

LEMMA SomeHandling ==
  ASSUME Types, NEW n \in Node, ReceiveIrq(n)
  PROVE  \E u : Handling(u, n)
<1>1. rxFifo[n] \in Seq(Heard) /\ rxPtr[n] \in Int /\ len[n] \in Int
      /\ ring[n] \in Seq(Kept) /\ Len(ring[n]) < RingSize
  BY DEF Types
<1> QED BY <1>1, HandlingExists

LEMMA ReceiveIrqPoints ==
  ASSUME PointerInv, NEW n \in Node, ReceiveIrq(n)
  PROVE  PointerInv'
<1>1. /\ rxFifo' = [rxFifo EXCEPT ![n] = <<>>]
      /\ UNCHANGED <<main, data, bytes, txPtr, txFifo, txIrq, overrun, status, before,
                     matched, shifted, alone, taken, silent, sends>>
  BY DEF ReceiveIrq, history
<1>2. PICK u : Handling(u, n)
  BY SomeHandling DEF PointerInv
<1> DEFINE v == u[Len(rxFifo[n])]
<1>3. v \in RoomyLoop /\ EchoPointers(v.expected, v.echoed) /\ v.expected \in {-1, len[n]}
  BY <1>2, LoopPoints
<1>4. /\ rxPtr' = [rxPtr EXCEPT ![n] = v.echoed]
      /\ len' = [len EXCEPT ![n] = v.expected]
      /\ ring' = [ring EXCEPT ![n] = v.ring]
  BY <1>2 DEF Handling
<1> HIDE DEF v
<1> USE DEF PointerInv
<1>5. Types'
  <2>1. <<>> \in { s \in Seq(Heard) : Len(s) <= RxFifoSize }
    BY HdUartAssumption
  <2>2. /\ rxPtr' \in [Node -> Int] /\ len' \in [Node -> Int]
        /\ ring' \in [Node -> { r \in Seq(Kept) : Len(r) < RingSize }]
    BY <1>3, <1>4 DEF Types, RoomyLoop, Loop
  <2> QED BY <1>1, <2>1, <2>2 DEF Types
<1>6. ASSUME NEW k \in Node PROVE Pointers(k)'
  <2>1. /\ rxPtr'[k] = IF k = n THEN v.echoed ELSE rxPtr[k]
        /\ len'[k] = IF k = n THEN v.expected ELSE len[k]
    BY <1>4 DEF Types
  <2> QED BY <1>1, <1>3, <2>1 DEF Pointers, Checked
<1> QED BY <1>5, <1>6

LEMMA PollStatusPoints ==
  ASSUME PointerInv, NEW n \in Node, PollStatus(n)
  PROVE  PointerInv'
<1> USE DEF PointerInv
<1>1. /\ main[n] = "sending" /\ SendStatus(n) # 0
      /\ status' = [status EXCEPT ![n] = SendStatus(n)]
      /\ main' = [main EXCEPT ![n] = "idle"]
      /\ UNCHANGED <<data, len, bytes, txPtr, rxPtr, ring, txFifo, txIrq, rxFifo, overrun,
                     before, matched, shifted, alone, taken, silent, sends>>
  BY DEF PollStatus, tx, uart, history
<1>2. SendStatus(n) \in -1 .. 1
  BY DEF SendStatus
<1>3. txPtr[n] < 0 \/ txPtr[n] = bytes[n]
  BY <1>1 DEF SendStatus
<1>4. Types'
  BY <1>1, <1>2 DEF Types
<1>5. txPtr[n] = bytes[n]
  BY <1>1, <1>3 DEF Pointers, Types
<1>6. \A m \in Node : Pointers(m)'
  BY <1>1, <1>5 DEF Pointers, Checked, Types
<1> QED BY <1>4, <1>6

LEMMA ReceiveDataPoints ==
  ASSUME PointerInv, NEW n \in Node, ReceiveData(n)
  PROVE  PointerInv'
<1> USE DEF PointerInv
<1>1. /\ ring[n] # <<>>
      /\ taken' = [taken EXCEPT ![n] = Head(ring[n])]
      /\ ring' = [ring EXCEPT ![n] = Tail(ring[n])]
      /\ UNCHANGED <<main, data, len, bytes, txPtr, rxPtr, txFifo, txIrq, rxFifo, overrun,
                     status, before, matched, shifted, alone, silent, sends>>
  BY DEF ReceiveData, tx, uart, Types
<1>2. ring[n] \in Seq(Kept) /\ Len(ring[n]) < RingSize
  BY DEF Types
<1>3. Head(ring[n]) \in Kept /\ Tail(ring[n]) \in Seq(Kept) /\ Len(Tail(ring[n])) < RingSize
  <2>1. Len(Tail(ring[n])) = Len(ring[n]) - 1
    BY <1>1, <1>2
  <2> QED BY <1>1, <1>2, <2>1, HdUartAssumption
<1>4. Types'
  BY <1>1, <1>3 DEF Types
<1>5. \A m \in Node : Pointers(m)'
  BY <1>1 DEF Pointers, Checked
<1> QED BY <1>4, <1>5

LEMMA NextPoints ==
  ASSUME PointerInv, FeedInv', [Next]_vars
  PROVE  PointerInv'
<1>1. CASE UNCHANGED vars
  <2>1. UNCHANGED <<main, data, len, bytes, txPtr, rxPtr, ring, txFifo, txIrq, rxFifo,
                    overrun, status, before, matched, shifted, alone, taken, silent, sends>>
    BY <1>1 DEF vars, tx, uart, history
  <2>2. Types'
    BY <2>1 DEF PointerInv, Types
  <2>3. \A m \in Node : Pointers(m)'
    BY <2>1 DEF PointerInv, Pointers, Checked
  <2> QED BY <2>2, <2>3 DEF PointerInv
<1> QED BY <1>1, LinePoints, SendCheckPoints, PreloadPoints, TransmitIrqPoints,
           ReceiveIrqPoints, PollStatusPoints, ReceiveDataPoints
        DEF Next, Progress, Interrupts, Main

LEMMA PointersAlways == Spec => [](FeedInv /\ PointerInv)
<1>1. Init => FeedInv /\ PointerInv
  BY InitFeed, InitPointers
<1>2. FeedInv /\ PointerInv /\ [Next]_vars => (FeedInv /\ PointerInv)'
  BY NextFeeds, NextPoints
<1> QED BY <1>1, <1>2, PTL DEF Spec

(* No index leaves what it indexes: the echo is compared within the frame, *)
(* the transmitter is fed within it and its padding, and neither the ring  *)
(* nor the FIFOs hold more than they have places for.                      *)
THEOREM TypesKept == Spec => []TypeOK
<1>1. PointerInv => TypeOK
  <2> SUFFICES ASSUME PointerInv PROVE TypeOK
    OBVIOUS
  <2>1. ASSUME NEW n \in Node
        PROVE  /\ len[n] \in -1 .. (IF data[n] = NoFrame THEN -1 ELSE Len(data[n])) \/ Checked(n)
               /\ txPtr[n] \in -1 .. bytes[n]
               /\ rxPtr[n] \in -1 .. len[n]
    <3>1. Pointers(n) /\ len[n] \in Int
      BY DEF PointerInv, Types
    <3>2. data[n] # NoFrame => Len(data[n]) \in Nat
      BY DEF PointerInv, Types
    <3> QED BY <3>1, <3>2 DEF Pointers, EchoPointers
  <2>2. Kept \subseteq Heard
    BY DEF Kept, Heard
  <2>3. \A n \in Node : ring[n] \in Seq(Heard) /\ Len(ring[n]) < RingSize
    <3> SUFFICES ASSUME NEW n \in Node PROVE ring[n] \in Seq(Heard) /\ Len(ring[n]) < RingSize
      OBVIOUS
    <3>1. ring[n] \in Seq(Kept) /\ Len(ring[n]) < RingSize
      BY DEF PointerInv, Types
    <3> QED BY <2>2, <3>1
  <2> QED BY <2>1, <2>3 DEF TypeOK, PointerInv, Types
<1> QED BY <1>1, PointersAlways, PTL

-----------------------------------------------------------------------------
(***************************************************************************)
(* The echo.  What the handler has compared and what it has still to       *)
(* compare are together what the line carried since the transmission       *)
(* began, as long as the echo is not out of step.                          *)
(***************************************************************************)

(* One of the next k bytes heard is not the one of the frame that is due.  *)
Mismatch(n, k) ==
  \E j \in 1 .. k : /\ rxPtr[n] + j <= len[n]
                    /\ data[n][rxPtr[n] + j] # Received(rxFifo[n][j].byte)

Echoed(n, v, i) == v.expected = len[n] /\ v.echoed = Smaller(len[n], rxPtr[n] + i)
GivenUp(v) == v.expected = -1 /\ v.echoed = -1
Follows(n, v, i) == IF Mismatch(n, i) THEN GivenUp(v) ELSE Echoed(n, v, i)

LEMMA EchoStep ==
  ASSUME NEW n \in Node, NEW v \in Loop, NEW i \in Nat \ {0},
         len[n] \in Int, rxPtr[n] \in Int, data[n] # NoFrame, rxPtr[n] <= len[n],
         Echoed(n, v, i - 1), ~ Mismatch(n, i - 1)
  PROVE  Follows(n, Handled(data[n], v, rxFifo[n][i]), i)
<1>0. Mismatch(n, i) <=> /\ rxPtr[n] + i <= len[n]
                         /\ data[n][rxPtr[n] + i] # Received(rxFifo[n][i].byte)
  BY DEF Mismatch
<1>1. /\ v = [echoed |-> v.echoed, expected |-> v.expected, ring |-> v.ring]
      /\ v.expected = len[n] /\ v.echoed \in Int
  BY DEF Loop, Echoed
<1>2. CASE len[n] < rxPtr[n] + i
  <2>1. v.echoed = len[n]
    <3>1. CASE len[n] < rxPtr[n] + (i - 1)
      BY <3>1 DEF Echoed, Smaller
    <3>2. CASE ~ (len[n] < rxPtr[n] + (i - 1))
      <4>1. v.echoed = rxPtr[n] + (i - 1)
        BY <3>2 DEF Echoed, Smaller
      <4>2. len[n] \in Int /\ rxPtr[n] \in Int /\ i \in Int
        OBVIOUS
      <4>3. len[n] = rxPtr[n] + (i - 1)
        BY <1>2, <3>2, <4>2
      <4> QED BY <4>1, <4>3
    <3> QED BY <3>1, <3>2
  <2>2. Handled(data[n], v, rxFifo[n][i]) = [v EXCEPT !.ring = Stored(@, rxFifo[n][i])]
    BY <1>1, <2>1 DEF Handled
  <2>3. Smaller(len[n], rxPtr[n] + i) = len[n]
    BY <1>2 DEF Smaller
  <2>4. ~ Mismatch(n, i)
    BY <1>0, <1>2
  <2> QED BY <1>1, <2>1, <2>2, <2>3, <2>4 DEF Echoed, Follows
<1>3. CASE ~ (len[n] < rxPtr[n] + i)
  <2>1. v.echoed = rxPtr[n] + (i - 1) /\ ~ (v.echoed >= v.expected)
        /\ v.echoed + 1 = rxPtr[n] + i /\ rxPtr[n] + i <= len[n]
    BY <1>1, <1>3 DEF Echoed, Smaller
  <2>2. CASE data[n][rxPtr[n] + i] = Received(rxFifo[n][i].byte)
    <3>1. EchoMatches(data[n], v.echoed + 1, rxFifo[n][i].byte)
      BY <2>1, <2>2 DEF EchoMatches
    <3>2. Handled(data[n], v, rxFifo[n][i]) = [v EXCEPT !.echoed = @ + 1]
      BY <2>1, <3>1 DEF Handled
    <3>3. Smaller(len[n], rxPtr[n] + i) = rxPtr[n] + i
      BY <1>3 DEF Smaller
    <3>4. ~ Mismatch(n, i)
      BY <1>0, <2>2
    <3> QED BY <1>1, <2>1, <3>2, <3>3, <3>4 DEF Echoed, Follows
  <2>3. CASE data[n][rxPtr[n] + i] # Received(rxFifo[n][i].byte)
    <3>1. ~ EchoMatches(data[n], v.echoed + 1, rxFifo[n][i].byte)
      BY <2>1, <2>3 DEF EchoMatches
    <3>2. Handled(data[n], v, rxFifo[n][i]) = [v EXCEPT !.echoed = -1, !.expected = -1]
      BY <2>1, <3>1 DEF Handled
    <3>3. GivenUp(Handled(data[n], v, rxFifo[n][i]))
      BY <1>1, <3>2 DEF GivenUp
    <3> QED BY <1>0, <2>1, <2>3, <3>3 DEF Follows
  <2> QED BY <2>2, <2>3
<1> QED BY <1>2, <1>3

(* What the whole loop does to the echo of a frame not given up before.    *)
LEMMA EchoLoop ==
  ASSUME PointerInv, NEW n \in Node, NEW u, Handling(u, n),
         data[n] # NoFrame, rxPtr[n] >= 0
  PROVE  Follows(n, u[Len(rxFifo[n])], Len(rxFifo[n]))
<1> DEFINE m == Len(rxFifo[n])
           T == { i \in 0 .. m : Follows(n, u[i], i) }
<1>1. /\ m \in Nat /\ len[n] \in Int /\ rxPtr[n] \in Int /\ rxPtr[n] <= len[n]
  BY DEF PointerInv, Types, Pointers, EchoPointers
<1>2. 0 \in T
  <2>1. u[0].expected = len[n] /\ u[0].echoed = rxPtr[n]
    BY DEF Handling
  <2>2. Smaller(len[n], rxPtr[n] + 0) = rxPtr[n]
    BY <1>1, SMT DEF Smaller
  <2>3. ~ Mismatch(n, 0)
    BY DEF Mismatch
  <2> QED BY <1>1, <2>1, <2>2, <2>3 DEF Echoed, Follows
<1>3. ASSUME NEW i \in 1 .. m, i - 1 \in T PROVE i \in T
  <2>1. /\ u[i] = Handled(data[n], u[i - 1], rxFifo[n][i]) /\ u[i - 1] \in Loop
        /\ i \in 0 .. m /\ i \in Nat \ {0}
    BY <1>1 DEF Handling, RoomyLoop
  <2>2. CASE Echoed(n, u[i - 1], i - 1) /\ ~ Mismatch(n, i - 1)
    BY <1>1, <2>1, <2>2, EchoStep
  <2>3. CASE GivenUp(u[i - 1]) /\ Mismatch(n, i - 1)
    <3>1. Mismatch(n, i)
      BY <1>1, <2>1, <2>3 DEF Mismatch
    <3>2. /\ u[i - 1] = [echoed |-> -1, expected |-> -1, ring |-> u[i - 1].ring]
          /\ u[i - 1].echoed >= u[i - 1].expected
      BY <2>1, <2>3 DEF GivenUp, Loop
    <3>3. u[i] = [u[i - 1] EXCEPT !.ring = Stored(@, rxFifo[n][i])]
      BY <2>1, <3>2 DEF Handled
    <3>4. GivenUp(u[i])
      BY <3>2, <3>3 DEF GivenUp
    <3> QED BY <2>1, <3>1, <3>4 DEF Follows
  <2> QED BY <1>3, <2>2, <2>3 DEF Follows
<1> HIDE DEF T, m
<1>4. \A i \in 0 .. m : i \in T
  BY <1>1, <1>2, <1>3, CountUp
<1> QED BY <1>1, <1>4 DEF T, m

(* Either the comparison will fail, or the line has carried the frame as   *)
(* far as the handler will find it echoed.                                 *)
InStep(n) ==
  /\ ~ overrun[n]
  /\ rxPtr[n] >= 0 =>
       \/ Mismatch(n, Len(rxFifo[n]))
       \/ matched[n] = Smaller(len[n], rxPtr[n] + Len(rxFifo[n]))

Compared(n) ==
  /\ main[n] = "sending" /\ data[n] # NoFrame /\ ~ shifted[n] => InStep(n)
  /\ status[n] = 1 /\ ~ shifted[n] => matched[n] = Len(data[n])

LEMMA SameCompared ==
  ASSUME NEW n \in Node, Compared(n),
         main'[n] = "sending" => main[n] = "sending",
         status'[n] \in {0, status[n]},
         data'[n] = data[n], len'[n] = len[n], rxPtr'[n] = rxPtr[n],
         rxFifo'[n] = rxFifo[n], overrun'[n] = overrun[n],
         matched'[n] = matched[n], shifted'[n] = shifted[n]
  PROVE  Compared(n)'
BY DEF Compared, InStep, Mismatch

LEMMA PreloadCompared ==
  ASSUME PointerInv, NEW n \in Node, Preload(n), \A k \in Node : Compared(k)
  PROVE  \A k \in Node : Compared(k)'
<1>1. /\ Checked(n) /\ main' = [main EXCEPT ![n] = "sending"]
      /\ len' = [len EXCEPT ![n] = Len(data[n])]
      /\ rxPtr' = [rxPtr EXCEPT ![n] = 0]
      /\ matched' = [matched EXCEPT ![n] = 0]
      /\ shifted' = [shifted EXCEPT ![n] = rxFifo[n] # <<>> \/ overrun[n]]
      /\ UNCHANGED <<data, ring, rxFifo, overrun, status>>
  BY DEF Preload
<1>2. ASSUME NEW k \in Node, k # n PROVE Compared(k)'
  BY <1>1, <1>2, SameCompared DEF PointerInv, Types
<1>3. Compared(n)'
  <2>1. status[n] = 0
    BY <1>1 DEF PointerInv, Pointers, Checked
  <2>2. ASSUME rxFifo[n] = <<>>, ~ overrun[n] PROVE InStep(n)'
    <3>1. Len(data[n]) \in Nat
      BY <1>1 DEF PointerInv, Types, Pointers
    <3>2. Smaller(Len(data[n]), 0) = 0
      BY <3>1, SMT DEF Smaller
    <3>3. /\ rxPtr'[n] = 0 /\ len'[n] = Len(data[n]) /\ matched'[n] = 0
          /\ rxFifo'[n] = <<>> /\ ~ overrun'[n]
      BY <1>1, <2>2 DEF PointerInv, Types
    <3>4. Len(rxFifo'[n]) = 0 /\ rxPtr'[n] + Len(rxFifo'[n]) = 0
      BY <3>3
    <3> QED BY <3>2, <3>3, <3>4 DEF InStep
  <2>3. /\ ~ shifted'[n] => rxFifo[n] = <<>> /\ ~ overrun[n]
        /\ status'[n] = 0
    BY <1>1, <2>1 DEF PointerInv, Types
  <2> QED BY <2>2, <2>3 DEF Compared
<1> QED BY <1>2, <1>3

LEMMA ReceiveIrqCompared ==
  ASSUME PointerInv, NEW n \in Node, ReceiveIrq(n), \A k \in Node : Compared(k)
  PROVE  \A k \in Node : Compared(k)'
<1>1. /\ rxFifo' = [rxFifo EXCEPT ![n] = <<>>]
      /\ UNCHANGED <<main, data, overrun, status, matched, shifted>>
  BY DEF ReceiveIrq, history
<1>2. PICK u : Handling(u, n)
  BY SomeHandling DEF PointerInv
<1>3. ASSUME NEW k \in Node, k # n PROVE Compared(k)'
  BY <1>1, <1>2, <1>3, SameCompared DEF PointerInv, Types, Handling
<1>4. Compared(n)'
  <2>1. ASSUME main[n] = "sending", data[n] # NoFrame, ~ shifted[n], rxPtr'[n] >= 0
        PROVE  matched[n] = Smaller(len'[n], rxPtr'[n] + Len(rxFifo'[n]))
    <3> DEFINE m == Len(rxFifo[n])
    <3>1. /\ rxPtr'[n] = u[m].echoed /\ len'[n] = u[m].expected /\ rxFifo'[n] = <<>>
      BY <1>1, <1>2 DEF PointerInv, Types, Handling
    <3>2. /\ m \in Nat /\ len[n] \in Int /\ rxPtr[n] \in Int /\ rxPtr[n] \in -1 .. len[n]
          /\ (rxPtr[n] = -1 <=> len[n] = -1)
      BY DEF PointerInv, Types, Pointers, EchoPointers
    <3>3. rxPtr[n] >= 0
      <4>1. EchoPointers(u[m].expected, u[m].echoed) /\ u[m].expected \in {-1, len[n]}
        BY <1>2, LoopPoints
      <4> QED BY <2>1, <3>1, <3>2, <4>1 DEF EchoPointers
    <3>4. Follows(n, u[m], m)
      BY <1>2, <2>1, <3>3, EchoLoop
    <3>5. Echoed(n, u[m], m) /\ ~ Mismatch(n, m)
      BY <2>1, <3>1, <3>4 DEF GivenUp, Follows
    <3>6. matched[n] = Smaller(len[n], rxPtr[n] + m)
      BY <2>1, <3>3, <3>5 DEF Compared, InStep
    <3> HIDE DEF m
    <3>0. rxPtr'[n] = Smaller(len[n], rxPtr[n] + m)
      BY <3>1, <3>5 DEF Echoed
    <3>7. Smaller(len[n], rxPtr'[n]) = rxPtr'[n] /\ rxPtr'[n] \in Int
      <4>1. rxPtr[n] + m \in Int
        BY <3>2
      <4> QED BY <3>0, <3>2, <4>1 DEF Smaller
    <3>8. Len(rxFifo'[n]) = 0 /\ rxPtr'[n] + 0 = rxPtr'[n]
      BY <3>1, <3>7
    <3> QED BY <3>1, <3>5, <3>6, <3>7, <3>8 DEF Echoed
  <2>2. main[n] = "sending" /\ data[n] # NoFrame /\ ~ shifted[n] => InStep(n)'
    BY <1>1, <2>1 DEF Compared, InStep
  <2> QED BY <1>1, <2>2 DEF Compared
<1> QED BY <1>3, <1>4

LEMMA LineCompared ==
  ASSUME PointerInv, Line, NEW n \in Node, Compared(n)
  PROVE  Compared(n)'
<1>1. /\ main' = [k \in Node |-> IF main[k] = "checked" THEN "late" ELSE main[k]]
      /\ overrun' = [k \in Node |-> Full(k)]
      /\ shifted' = [k \in Node |-> shifted[k] \/ (main[k] = "sending" /\ Full(k))]
      /\ UNCHANGED <<data, len, rxPtr, status>>
  BY DEF Line, tx
<1>2. PICK b \in LineByte :
        /\ rxFifo' = [k \in Node |->
             IF Full(k) THEN rxFifo[k]
             ELSE Append(rxFifo[k], [byte |-> IF overrun[k] THEN Error ELSE b,
                                     after |-> before])]
        /\ matched' = [k \in Node |->
             IF main[k] # "sending" \/ matched[k] \notin 0 .. len[k] - 1 THEN matched[k]
             ELSE IF data[k][matched[k] + 1] = Received(b) THEN matched[k] + 1 ELSE -1]
  BY DEF Line
<1>3. main'[n] = "sending" <=> main[n] = "sending"
  BY <1>1 DEF PointerInv, Types
<1>4. CASE main[n] # "sending"
  BY <1>1, <1>2, <1>3, <1>4 DEF Compared
<1>5. ASSUME main[n] = "sending", data[n] # NoFrame, ~ shifted'[n] PROVE InStep(n)'
  <2> PICK k : k = Len(rxFifo[n])
    OBVIOUS
  <2> DEFINE e == [byte |-> b, after |-> before]
  <2>1. ~ Full(n) /\ InStep(n) /\ ~ overrun'[n] /\ ~ overrun[n]
    BY <1>1, <1>5 DEF Compared, InStep
  <2>2. rxFifo'[n] = Append(rxFifo[n], e) /\ rxFifo[n] \in Seq(Heard) /\ k \in Nat
    BY <1>2, <2>1 DEF PointerInv, Types
  <2>3. /\ Len(rxFifo'[n]) = k + 1 /\ rxFifo'[n][k + 1] = e
        /\ \A j \in 1 .. k : rxFifo'[n][j] = rxFifo[n][j]
    BY <2>2
  <2>4. /\ rxPtr[n] \in -1 .. len[n] /\ len[n] \in Int /\ rxPtr[n] \in Int
        /\ matched[n] \in Int /\ rxPtr'[n] = rxPtr[n] /\ len'[n] = len[n]
        /\ data'[n] = data[n]
    BY <1>1 DEF PointerInv, Pointers, EchoPointers, Types
  <2>5. matched'[n] =
          IF matched[n] \notin 0 .. len[n] - 1 THEN matched[n]
          ELSE IF data[n][matched[n] + 1] = Received(b) THEN matched[n] + 1 ELSE -1
    BY <1>2, <1>5
  <2>6. CASE Mismatch(n, k)
    <3>1. Mismatch(n, k + 1)'
      BY <2>2, <2>3, <2>4, <2>6 DEF Mismatch
    <3> QED BY <2>1, <2>3, <3>1 DEF InStep
  <2>7. CASE rxPtr[n] >= 0 /\ matched[n] = Smaller(len[n], rxPtr[n] + k)
    <3>1. CASE len[n] < rxPtr[n] + (k + 1)
      <4>1. matched[n] = len[n]
        BY <2>2, <2>4, <2>7, <3>1, SMT DEF Smaller
      <4>2. matched'[n] = len[n]
        BY <2>4, <2>5, <4>1
      <4>3. Smaller(len[n], rxPtr[n] + (k + 1)) = len[n]
        BY <3>1 DEF Smaller
      <4> QED BY <2>1, <2>3, <2>4, <4>2, <4>3 DEF InStep
    <3>2. CASE ~ (len[n] < rxPtr[n] + (k + 1))
      <4>1. /\ matched[n] = rxPtr[n] + k /\ matched[n] \in 0 .. len[n] - 1
            /\ matched[n] + 1 = rxPtr[n] + (k + 1)
        BY <2>2, <2>4, <2>7, <3>2, SMT DEF Smaller
      <4>2. CASE data[n][matched[n] + 1] = Received(b)
        <5>1. Smaller(len[n], rxPtr[n] + (k + 1)) = rxPtr[n] + (k + 1)
          BY <3>2 DEF Smaller
        <5> QED BY <2>1, <2>3, <2>4, <2>5, <4>1, <4>2, <5>1 DEF InStep
      <4>3. CASE data[n][matched[n] + 1] # Received(b)
        <5>1. rxPtr[n] + (k + 1) <= len[n] /\ k + 1 \in 1 .. k + 1
          BY <2>2, <2>4, <3>2
        <5>2. rxFifo'[n][k + 1].byte = b
          BY <2>3
        <5>3. data'[n][rxPtr'[n] + (k + 1)] # Received(rxFifo'[n][k + 1].byte)
          BY <2>4, <4>1, <4>3, <5>2
        <5>4. Mismatch(n, k + 1)'
          BY <2>4, <5>1, <5>3 DEF Mismatch
        <5> QED BY <2>1, <2>3, <5>4 DEF InStep
      <4> QED BY <4>2, <4>3
    <3> QED BY <3>1, <3>2
  <2>8. CASE ~ (rxPtr[n] >= 0)
    BY <2>1, <2>4, <2>8 DEF InStep
  <2> QED BY <2>1, <2>6, <2>7, <2>8 DEF InStep
<1>6. main[n] = "sending" => status'[n] = 0
  BY <1>1 DEF PointerInv, Pointers
<1> QED BY <1>1, <1>3, <1>4, <1>5, <1>6 DEF Compared

LEMMA PollStatusCompared ==
  ASSUME PointerInv, NEW n \in Node, PollStatus(n), \A k \in Node : Compared(k)
  PROVE  \A k \in Node : Compared(k)'
<1>1. /\ main[n] = "sending" /\ status' = [status EXCEPT ![n] = SendStatus(n)]
      /\ main' = [main EXCEPT ![n] = "idle"]
      /\ UNCHANGED <<data, len, rxPtr, rxFifo, overrun, matched, shifted>>
  BY DEF PollStatus, tx, uart, history
<1>2. ASSUME NEW k \in Node, k # n PROVE Compared(k)'
  BY <1>1, <1>2, SameCompared DEF PointerInv, Types
<1>3. ASSUME SendStatus(n) = 1, ~ shifted[n] PROVE matched[n] = Len(data[n])
  <2>1. rxPtr[n] = len[n] /\ ~ (rxPtr[n] < 0)
    BY <1>3 DEF SendStatus
  <2>2. /\ len[n] \in Nat /\ rxPtr[n] >= 0 /\ data[n] # NoFrame /\ len[n] = Len(data[n])
    <3>1. len[n] \in Int /\ Pointers(n)
      BY DEF PointerInv, Types
    <3>2. len[n] \in Nat /\ rxPtr[n] >= 0 /\ len[n] # -1
      BY <2>1, <3>1
    <3> QED BY <1>1, <3>1, <3>2 DEF Pointers, Checked
  <2>3. ~ Mismatch(n, Len(rxFifo[n])) /\ Len(rxFifo[n]) \in Nat
    BY <2>1, <2>2 DEF Mismatch, PointerInv, Types
  <2>4. matched[n] = Smaller(len[n], rxPtr[n] + Len(rxFifo[n]))
    BY <1>1, <1>3, <2>1, <2>2, <2>3 DEF Compared, InStep
  <2> QED BY <2>1, <2>2, <2>3, <2>4, SMT DEF Smaller
<1>4. Compared(n)'
  BY <1>1, <1>3 DEF Compared, PointerInv, Types
<1> QED BY <1>2, <1>4

LEMMA NextCompared ==
  ASSUME PointerInv, [Next]_vars, \A k \in Node : Compared(k)
  PROVE  \A k \in Node : Compared(k)'
<1>1. ASSUME NEW n \in Node, SendCheck(n) PROVE \A k \in Node : Compared(k)'
  <2>1. /\ status' = [status EXCEPT ![n] = 0]
        /\ \/ /\ main' = [main EXCEPT ![n] = "sending"]
              /\ data' = [data EXCEPT ![n] = NoFrame]
              /\ len' = [len EXCEPT ![n] = -1] /\ rxPtr' = [rxPtr EXCEPT ![n] = -1]
           \/ /\ main' = [main EXCEPT ![n] = "checked"] /\ UNCHANGED <<len, rxPtr>>
              /\ \E f \in FramesOf[n] : data' = [data EXCEPT ![n] = f]
        /\ UNCHANGED <<rxFifo, overrun, matched, shifted>>
    BY <1>1 DEF SendCheck, uart
  <2>2. ASSUME NEW k \in Node, k # n PROVE Compared(k)'
    BY <2>1, <2>2, SameCompared DEF PointerInv, Types
  <2>3. status'[n] = 0 /\ ~ (main'[n] = "sending" /\ data'[n] # NoFrame)
    BY <2>1 DEF PointerInv, Types
  <2>4. Compared(n)'
    BY <2>3 DEF Compared
  <2> QED BY <2>2, <2>4
<1>2. CASE UNCHANGED <<main, status, data, len, rxPtr, rxFifo, overrun, matched, shifted>>
  BY <1>2, SameCompared
<1>3. ASSUME NEW n \in Node, TransmitIrq(n)
      PROVE  UNCHANGED <<main, status, data, len, rxPtr, rxFifo, overrun, matched, shifted>>
  BY <1>3 DEF TransmitIrq, history
<1>4. ASSUME NEW n \in Node, ReceiveData(n)
      PROVE  UNCHANGED <<main, status, data, len, rxPtr, rxFifo, overrun, matched, shifted>>
  BY <1>4 DEF ReceiveData, tx, uart
<1>5. CASE UNCHANGED vars
  <2>1. UNCHANGED <<main, status, data, len, rxPtr, rxFifo, overrun, matched, shifted>>
    BY <1>5 DEF vars, tx, uart, history
  <2> QED BY <2>1, <1>2
<1> QED BY <1>1, <1>2, <1>3, <1>4, <1>5, LineCompared, PreloadCompared, ReceiveIrqCompared,
           PollStatusCompared
        DEF Next, Progress, Interrupts, Main

(* A send that reports success was on the line as the frame and nothing    *)
(* else, whatever another board put there: pqpf_hduart_if_send_status      *)
(* takes a collision for a failure.  (Not of a send whose comparison is    *)
(* out of step: SuccessWasHeard excepts shifted, a byte that came in just  *)
(* before its first one, or characters lost under a late handler.)         *)
THEOREM SuccessHeard == Spec => []SuccessWasHeard
<1> DEFINE Inv == \A n \in Node : Compared(n)
<1>1. Init => Inv
  <2> SUFFICES ASSUME Init, NEW n \in Node PROVE Compared(n)
    OBVIOUS
  <2>1. main[n] = "idle" /\ status[n] = 0
    BY DEF Init
  <2> QED BY <2>1 DEF Compared
<1>2. PointerInv /\ Inv /\ [Next]_vars => Inv'
  BY NextCompared
<1>3. Inv => SuccessWasHeard
  BY DEF Compared, SuccessWasHeard
<1> QED BY <1>1, <1>2, <1>3, PointersAlways, PTL DEF Spec

-----------------------------------------------------------------------------
(***************************************************************************)
(* A transmission that has the line for itself: what is still in the FIFO, *)
(* what is heard and not compared, and what is compared are consecutive    *)
(* parts of the frame and its padding.                                     *)
(***************************************************************************)
Carried(n) == txPtr[n] - Len(txFifo[n])    \* bytes that have been on the line

AsGiven(n) ==
  /\ ~ overrun[n] /\ rxPtr[n] >= 0 /\ Carried(n) >= 0
  /\ \A i \in 1 .. Len(txFifo[n]) :
       txFifo[n][i] = IF Carried(n) + i <= len[n] THEN data[n][Carried(n) + i] ELSE End
  /\ ~ Mismatch(n, Len(rxFifo[n]))
  /\ rxPtr[n] < len[n] => rxPtr[n] + Len(rxFifo[n]) = Carried(n)

Undisturbed(n) ==
  /\ main[n] = "sending" /\ data[n] # NoFrame /\ alone[n] => AsGiven(n)
  /\ status[n] = -1 => data[n] = NoFrame \/ ~ alone[n]

LEMMA SameUndisturbed ==
  ASSUME NEW n \in Node, Undisturbed(n),
         main'[n] = "sending" => main[n] = "sending",
         status'[n] \in {0, status[n]},
         data'[n] = data[n], len'[n] = len[n], rxPtr'[n] = rxPtr[n], txPtr'[n] = txPtr[n],
         txFifo'[n] = txFifo[n], rxFifo'[n] = rxFifo[n], overrun'[n] = overrun[n],
         alone'[n] = alone[n]
  PROVE  Undisturbed(n)'
BY DEF Undisturbed, AsGiven, Carried, Mismatch

LEMMA PreloadUndisturbed ==
  ASSUME PointerInv, NEW n \in Node, Preload(n), \A k \in Node : Undisturbed(k)
  PROVE  \A k \in Node : Undisturbed(k)'
<1>1. PICK size :
        /\ size = Smaller(PaddedLength(data[n]) - 1, TxFifoSize + 1)
        /\ txPtr' = [txPtr EXCEPT ![n] = size]
        /\ txFifo' = [txFifo EXCEPT ![n] =
             [i \in 1 .. size |-> IF i <= Len(data[n]) THEN data[n][i] ELSE End]]
  BY DEF Preload
<1>2. /\ Checked(n) /\ main' = [main EXCEPT ![n] = "sending"]
      /\ len' = [len EXCEPT ![n] = Len(data[n])]
      /\ rxPtr' = [rxPtr EXCEPT ![n] = 0]
      /\ alone' = [alone EXCEPT ![n] = rxFifo[n] = <<>> /\ ~ overrun[n] /\ ~ LineActive]
      /\ UNCHANGED <<data, ring, rxFifo, overrun, status>>
  BY DEF Preload
<1>3. ASSUME NEW k \in Node, k # n PROVE Undisturbed(k)'
  BY <1>1, <1>2, <1>3, SameUndisturbed DEF PointerInv, Types
<1>4. Len(data[n]) \in Nat /\ size \in Nat
  <2>1. Len(data[n]) \in Nat
    BY <1>2 DEF PointerInv, Types, Pointers
  <2>2. MinLength \in Nat /\ TxLevel \in Nat /\ MinLength >= TxLevel + 3 /\ TxFifoSize \in Nat
    BY HdUartAssumption
  <2>3. PaddedLength(data[n]) \in Nat /\ PaddedLength(data[n]) >= 3
    BY <2>1, <2>2 DEF PaddedLength, Larger
  <2> QED BY <1>1, <2>1, <2>2, <2>3 DEF Smaller
<1>5. ASSUME rxFifo[n] = <<>>, ~ overrun[n] PROVE AsGiven(n)'
  <2>1. /\ txPtr'[n] = size /\ len'[n] = Len(data[n]) /\ rxPtr'[n] = 0
        /\ rxFifo'[n] = <<>> /\ ~ overrun'[n] /\ data'[n] = data[n]
        /\ txFifo'[n] =
             [i \in 1 .. size |-> IF i <= Len(data[n]) THEN data[n][i] ELSE End]
    BY <1>1, <1>2, <1>5 DEF PointerInv, Types
  <2>2. Len(txFifo'[n]) = size /\ Carried(n)' = 0
    BY <1>4, <2>1 DEF Carried
  <2>3. Len(rxFifo'[n]) = 0
    BY <2>1
  <2>4. ~ (\E j \in 1 .. Len(rxFifo'[n]) : TRUE)
    BY <2>3
  <2>5. ~ Mismatch(n, Len(rxFifo[n]))'
    BY <2>4 DEF Mismatch
  <2>6. \A i \in 1 .. size :
          txFifo'[n][i] = IF 0 + i <= Len(data[n]) THEN data[n][0 + i] ELSE End
    BY <1>4, <2>1
  <2>7. \A i \in 1 .. Len(txFifo'[n]) :
          txFifo'[n][i] =
            IF Carried(n)' + i <= len'[n] THEN data'[n][Carried(n)' + i] ELSE End
    BY <2>1, <2>2, <2>6
  <2>8. rxPtr'[n] + Len(rxFifo'[n]) = Carried(n)' /\ Carried(n)' >= 0
    BY <2>1, <2>2, <2>3
  <2>9. ~ overrun'[n] /\ rxPtr'[n] >= 0
    BY <2>1
  <2> QED BY <2>5, <2>7, <2>8, <2>9, Zenon DEF AsGiven
<1>6. status[n] = 0
  BY <1>2 DEF PointerInv, Pointers, Checked
<1>7. /\ alone'[n] => rxFifo[n] = <<>> /\ ~ overrun[n]
      /\ status'[n] = 0
  BY <1>2, <1>6 DEF PointerInv, Types
<1>8. Undisturbed(n)'
  BY <1>5, <1>7 DEF Undisturbed
<1> QED BY <1>3, <1>8

LEMMA TransmitIrqUndisturbed ==
  ASSUME PointerInv, NEW n \in Node, TransmitIrq(n), \A k \in Node : Undisturbed(k)
  PROVE  \A k \in Node : Undisturbed(k)'
<1>1. UNCHANGED <<main, data, len, rxPtr, rxFifo, overrun, status, alone>>
  BY DEF TransmitIrq, history
<1>2. CASE UNCHANGED <<txPtr, txFifo>>
  BY <1>1, <1>2, SameUndisturbed
<1>3. ASSUME NEW last, last = Smaller(bytes[n], txPtr[n] + TxFifoSize + 1 - Len(txFifo[n])),
             txPtr[n] < bytes[n],
             txPtr' = [txPtr EXCEPT ![n] = last],
             txFifo' = [txFifo EXCEPT ![n] = @ \o BytesAt(n, txPtr[n], last)]
      PROVE  \A k \in Node : Undisturbed(k)'
  <2>1. ASSUME NEW k \in Node, k # n PROVE Undisturbed(k)'
    BY <1>1, <1>3, <2>1, SameUndisturbed DEF PointerInv, Types
  <2>2. ASSUME AsGiven(n), data[n] # NoFrame PROVE AsGiven(n)'
    <3> DEFINE more == BytesAt(n, txPtr[n], last)
               l == Len(txFifo[n])
    <3>1. /\ txFifo[n] \in Seq(Byte) /\ txPtr[n] \in Int /\ bytes[n] \in Int /\ l \in Nat
          /\ len[n] \in Int /\ l <= TxFifoSize + 1 /\ TxFifoSize \in Nat
      BY HdUartAssumption DEF PointerInv, Types
    <3>2. last \in Int /\ txPtr[n] <= last
      BY <1>3, <3>1, Refilled
    <3>3. /\ more = [i \in 1 .. last - txPtr[n] |->
                       IF txPtr[n] + i <= len[n] THEN data[n][txPtr[n] + i] ELSE End]
          /\ last - txPtr[n] \in Nat
      BY <3>1, <3>2 DEF BytesAt
    <3>4. txFifo'[n] = txFifo[n] \o more /\ txPtr'[n] = last
      BY <1>3 DEF PointerInv, Types
    <3> HIDE DEF more
    <3>5. PICK S : txFifo[n] \in Seq(S) /\ more \in Seq(S)
      <4>1. more \in Seq({ more[i] : i \in 1 .. last - txPtr[n] })
        BY <3>3
      <4>2. /\ txFifo[n] \in Seq(Byte \cup { more[i] : i \in 1 .. last - txPtr[n] })
            /\ more \in Seq(Byte \cup { more[i] : i \in 1 .. last - txPtr[n] })
        BY <3>1, <4>1
      <4> QED BY <4>2
    <3>6. Len(more) = last - txPtr[n]
      BY <3>3
    <3>7. /\ Len(txFifo'[n]) = l + (last - txPtr[n])
          /\ \A i \in 1 .. l : txFifo'[n][i] = txFifo[n][i]
          /\ \A i \in 1 .. last - txPtr[n] : txFifo'[n][l + i] = more[i]
      BY <3>1, <3>3, <3>4, <3>5, <3>6
    <3> HIDE DEF l
    <3>8. Carried(n)' = Carried(n) /\ Carried(n) = txPtr[n] - l /\ Carried(n) \in Int
      BY <3>1, <3>2, <3>4, <3>7 DEF Carried, l
    <3>9. ASSUME NEW i \in 1 .. Len(txFifo'[n])
          PROVE  txFifo'[n][i] =
                   IF Carried(n) + i <= len[n] THEN data[n][Carried(n) + i] ELSE End
      <4>1. CASE i <= l
        <5>1. i \in 1 .. Len(txFifo[n])
          BY <3>1, <3>2, <3>7, <4>1 DEF l
        <5> QED BY <2>2, <3>7, <5>1 DEF AsGiven, l
      <4>2. CASE ~ (i <= l)
        <5>1. PICK j \in 1 .. last - txPtr[n] : i = l + j
          <6>1. i - l \in 1 .. last - txPtr[n] /\ i = l + (i - l)
            BY <3>1, <3>2, <3>7, <4>2
          <6> QED BY <6>1
        <5>2. txPtr[n] + j = Carried(n) + i
          BY <3>1, <3>2, <3>8, <5>1
        <5> QED BY <3>3, <3>7, <5>1, <5>2
      <4> QED BY <4>1, <4>2
    <3>10. Mismatch(n, Len(rxFifo[n]))' <=> Mismatch(n, Len(rxFifo[n]))
      BY <1>1 DEF Mismatch
    <3> QED BY <1>1, <2>2, <3>8, <3>9, <3>10 DEF AsGiven
  <2>3. Undisturbed(n)'
    BY <1>1, <2>2 DEF Undisturbed
  <2> QED BY <2>1, <2>3
<1>4. txPtr[n] >= bytes[n] \/ txPtr[n] < bytes[n]
  BY DEF PointerInv, Types
<1> QED BY <1>2, <1>3, <1>4 DEF TransmitIrq

LEMMA LineUndisturbed ==
  ASSUME PointerInv, Line, NEW n \in Node, Undisturbed(n)
  PROVE  Undisturbed(n)'
<1>1. /\ main' = [k \in Node |-> IF main[k] = "checked" THEN "late" ELSE main[k]]
      /\ overrun' = [k \in Node |-> Full(k)]
      /\ txFifo' = [k \in Node |-> Shift(k)]
      /\ alone' = [k \in Node |->
           alone[k] /\ ~ Full(k) /\ \A m \in Node \ {k} : ~ Transmitting(m)]
      /\ UNCHANGED <<data, len, txPtr, rxPtr, status>>
  BY DEF Line, tx
<1>2. PICK b \in LineByte :
        rxFifo' = [k \in Node |->
          IF Full(k) THEN rxFifo[k]
          ELSE Append(rxFifo[k], [byte |-> IF overrun[k] THEN Error ELSE b,
                                  after |-> before])]
  BY DEF Line
<1>3. ASSUME main'[n] = "sending", data[n] # NoFrame, alone'[n] PROVE AsGiven(n)'
  <2>1. main[n] = "sending" /\ alone[n] /\ ~ Full(n)
        /\ \A m \in Node \ {n} : ~ Transmitting(m)
    BY <1>1, <1>3 DEF PointerInv, Types
  <2>2. AsGiven(n)
    BY <1>3, <2>1 DEF Undisturbed
  <2>3. Transmitting(n) /\ b = Head(txFifo[n])
    <3>1. Transmitting(n) /\ { m \in Node : Transmitting(m) } = {n}
      BY <2>1 DEF Line, LineActive
    <3>2. LineByte = { Head(txFifo[m]) : m \in {n} }
      BY <3>1 DEF LineByte
    <3> QED BY <3>1, <3>2
  <2>4. /\ txFifo[n] \in Seq(Byte) /\ txFifo[n] # <<>> /\ txPtr[n] \in Int /\ len[n] \in Int
        /\ rxPtr[n] \in Int /\ rxFifo[n] \in Seq(Heard)
    BY <2>3 DEF PointerInv, Types, Transmitting
  <2> PICK k : k = Len(rxFifo[n])
    OBVIOUS
  <2> PICK c : c = Carried(n)
    OBVIOUS
  <2> PICK l : l = Len(txFifo[n])
    OBVIOUS
  <2>5. k \in Nat /\ c \in Int /\ l \in Nat /\ l > 0 /\ c = txPtr[n] - l
    BY <2>4 DEF Carried
  <2>6. b \in Byte /\ Received(b) = b
        /\ b = IF c + 1 <= len[n] THEN data[n][c + 1] ELSE End
    <3>1. b = txFifo[n][1] /\ 1 \in 1 .. Len(txFifo[n])
      BY <2>3, <2>4, <2>5
    <3>2. b \in Byte
      BY <2>4, <3>1
    <3>3. Received(b) = b
      BY <3>2, HdUartAssumption DEF Received
    <3> QED BY <2>2, <3>1, <3>2, <3>3 DEF AsGiven
  <2>7. /\ txFifo'[n] = Tail(txFifo[n]) /\ txPtr'[n] = txPtr[n] /\ len'[n] = len[n]
        /\ rxPtr'[n] = rxPtr[n] /\ data'[n] = data[n] /\ ~ overrun'[n]
        /\ rxFifo'[n] = Append(rxFifo[n], [byte |-> b, after |-> before])
    BY <1>1, <1>2, <2>1, <2>2, <2>3 DEF Shift, AsGiven
  <2>8. /\ Len(txFifo'[n]) = l - 1
        /\ \A i \in 1 .. l - 1 : txFifo'[n][i] = txFifo[n][i + 1]
    BY <2>4, <2>5, <2>7
  <2>9. Carried(n)' = c + 1
    BY <2>4, <2>5, <2>7, <2>8 DEF Carried
  <2>10. ASSUME NEW i \in 1 .. Len(txFifo'[n])
         PROVE  txFifo'[n][i] =
                  IF Carried(n)' + i <= len'[n] THEN data'[n][Carried(n)' + i] ELSE End
    <3>1. i + 1 \in 1 .. Len(txFifo[n]) /\ c + (i + 1) = (c + 1) + i /\ i \in 1 .. l - 1
      BY <2>5, <2>8
    <3>2. txFifo[n][i + 1] = IF c + (i + 1) <= len[n] THEN data[n][c + (i + 1)] ELSE End
      BY <2>2, <3>1 DEF AsGiven
    <3> QED BY <2>7, <2>8, <2>9, <3>1, <3>2
  <2>11. /\ Len(rxFifo'[n]) = k + 1 /\ rxFifo'[n][k + 1].byte = b
         /\ \A j \in 1 .. k : rxFifo'[n][j] = rxFifo[n][j]
    BY <2>4, <2>7
  <2>12. ~ Mismatch(n, Len(rxFifo[n]))'
    <3> SUFFICES ASSUME NEW j \in 1 .. Len(rxFifo'[n]), rxPtr'[n] + j <= len'[n]
                 PROVE  data'[n][rxPtr'[n] + j] = Received(rxFifo'[n][j].byte)
      BY DEF Mismatch
    <3>1. CASE j \in 1 .. k
      BY <2>2, <2>7, <2>11, <3>1 DEF AsGiven, Mismatch
    <3>2. CASE j \notin 1 .. k
      <4>1. j = k + 1
        BY <2>5, <2>11, <3>2
      <4>2. rxPtr[n] < len[n] /\ rxPtr[n] + j <= len[n]
        BY <2>4, <2>5, <2>7, <4>1
      <4>3. rxPtr[n] + j = c + 1
        BY <2>2, <2>4, <2>5, <4>1, <4>2 DEF AsGiven
      <4> QED BY <2>6, <2>7, <2>11, <4>1, <4>2, <4>3
    <3> QED BY <3>1, <3>2
  <2>13. rxPtr'[n] < len'[n] => rxPtr'[n] + Len(rxFifo'[n]) = Carried(n)'
    BY <2>2, <2>4, <2>5, <2>7, <2>9, <2>11 DEF AsGiven
  <2>14. rxPtr'[n] >= 0 /\ Carried(n)' >= 0
    BY <2>2, <2>5, <2>7, <2>9 DEF AsGiven
  <2> QED BY <2>7, <2>10, <2>12, <2>13, <2>14 DEF AsGiven
<1>4. alone'[n] => alone[n]
  BY <1>1
<1> QED BY <1>1, <1>3, <1>4 DEF Undisturbed

LEMMA ReceiveIrqUndisturbed ==
  ASSUME PointerInv, NEW n \in Node, ReceiveIrq(n), \A k \in Node : Undisturbed(k)
  PROVE  \A k \in Node : Undisturbed(k)'
<1>1. /\ rxFifo' = [rxFifo EXCEPT ![n] = <<>>]
      /\ UNCHANGED <<main, data, txPtr, txFifo, overrun, status, alone>>
  BY DEF ReceiveIrq, history
<1>2. PICK u : Handling(u, n)
  BY SomeHandling DEF PointerInv
<1>3. ASSUME NEW k \in Node, k # n PROVE Undisturbed(k)'
  BY <1>1, <1>2, <1>3, SameUndisturbed DEF PointerInv, Types, Handling
<1>4. ASSUME AsGiven(n), data[n] # NoFrame PROVE AsGiven(n)'
  <2> PICK m : m = Len(rxFifo[n])
    OBVIOUS
  <2>1. /\ rxPtr'[n] = u[m].echoed /\ len'[n] = u[m].expected /\ rxFifo'[n] = <<>>
    BY <1>1, <1>2 DEF PointerInv, Types, Handling
  <2>2. /\ m \in Nat /\ len[n] \in Int /\ rxPtr[n] \in Int /\ rxPtr[n] >= 0
        /\ rxPtr[n] <= len[n]
    BY <1>4 DEF PointerInv, Types, Pointers, EchoPointers, AsGiven
  <2>3. Echoed(n, u[m], m)
    <3>1. Follows(n, u[m], m)
      BY <1>2, <1>4, <2>2, EchoLoop
    <3> QED BY <1>4, <3>1 DEF AsGiven, Follows
  <2>4. len'[n] = len[n] /\ rxPtr'[n] = Smaller(len[n], rxPtr[n] + m)
    BY <2>1, <2>3 DEF Echoed
  <2>5. /\ rxPtr'[n] \in Int /\ rxPtr'[n] >= 0
        /\ rxPtr'[n] < len[n] => rxPtr'[n] = rxPtr[n] + m /\ rxPtr[n] < len[n]
    BY <2>2, <2>4, SMT DEF Smaller
  <2>6. Len(rxFifo'[n]) = 0 /\ Carried(n)' = Carried(n)
    BY <1>1, <2>1 DEF Carried
  <2>7. ~ Mismatch(n, Len(rxFifo[n]))'
    BY <2>6 DEF Mismatch
  <2>8. rxPtr'[n] < len'[n] => rxPtr'[n] + Len(rxFifo'[n]) = Carried(n)'
    BY <1>4, <2>4, <2>5, <2>6 DEF AsGiven
  <2> QED BY <1>1, <1>4, <2>4, <2>5, <2>6, <2>7, <2>8 DEF AsGiven
<1>5. Undisturbed(n)'
  BY <1>1, <1>4 DEF Undisturbed
<1> QED BY <1>3, <1>5

LEMMA PollStatusUndisturbed ==
  ASSUME PointerInv, NEW n \in Node, PollStatus(n), \A k \in Node : Undisturbed(k)
  PROVE  \A k \in Node : Undisturbed(k)'
<1>1. /\ main[n] = "sending" /\ status' = [status EXCEPT ![n] = SendStatus(n)]
      /\ SendStatus(n) # 0 /\ main' = [main EXCEPT ![n] = "idle"]
      /\ UNCHANGED <<data, len, rxPtr, txPtr, txFifo, rxFifo, overrun, alone>>
  BY DEF PollStatus, tx, uart, history
<1>2. ASSUME NEW k \in Node, k # n PROVE Undisturbed(k)'
  BY <1>1, <1>2, SameUndisturbed DEF PointerInv, Types
<1>3. ASSUME SendStatus(n) = -1, data[n] # NoFrame, alone[n] PROVE FALSE
  <2>1. AsGiven(n)
    BY <1>1, <1>3 DEF Undisturbed
  <2>2. /\ txPtr[n] \in Int /\ rxPtr[n] \in Int /\ len[n] \in Int /\ txPtr[n] >= 0
        /\ bytes[n] = PaddedLength(data[n]) /\ rxPtr[n] >= 0 /\ rxPtr[n] <= len[n]
        /\ rxFifo[n] \in Seq(Heard)
    BY <1>1, <1>3, <2>1 DEF PointerInv, Types, Pointers, EchoPointers, AsGiven
  <2>3. txFifo[n] = <<>> /\ txPtr[n] = bytes[n] /\ rxPtr[n] < len[n] /\ rxFifo[n] = <<>>
    BY <1>1, <1>3, <2>2 DEF SendStatus, Transmitting
  <2>4. Len(txFifo[n]) = 0 /\ Len(rxFifo[n]) = 0
    BY <2>3
  <2>5. rxPtr[n] = bytes[n]
    BY <2>1, <2>2, <2>3, <2>4 DEF AsGiven, Carried
  <2>6. len[n] = Len(data[n]) /\ Len(data[n]) \in Nat
    <3>1. len[n] # -1
      BY <2>2, <2>3
    <3>2. Pointers(n) /\ data[n] \in Seq(Byte)
      BY <1>3 DEF PointerInv, Types
    <3> QED BY <1>1, <1>3, <3>1, <3>2 DEF Pointers, Checked
  <2>7. PaddedLength(data[n]) >= Len(data[n])
    BY <2>6, HdUartAssumption DEF PaddedLength, Larger
  <2> QED BY <2>2, <2>3, <2>5, <2>6, <2>7
<1>4. status'[n] = SendStatus(n) /\ main'[n] = "idle"
  BY <1>1 DEF PointerInv, Types
<1>5. Undisturbed(n)'
  BY <1>1, <1>3, <1>4 DEF Undisturbed
<1> QED BY <1>2, <1>5

LEMMA NextUndisturbed ==
  ASSUME PointerInv, [Next]_vars, \A k \in Node : Undisturbed(k)
  PROVE  \A k \in Node : Undisturbed(k)'
<1> DEFINE read == <<main, status, data, len, rxPtr, txPtr, txFifo, rxFifo, overrun, alone>>
<1>1. ASSUME NEW n \in Node, SendCheck(n) PROVE \A k \in Node : Undisturbed(k)'
  <2>1. /\ status' = [status EXCEPT ![n] = 0]
        /\ \/ /\ main' = [main EXCEPT ![n] = "sending"]
              /\ data' = [data EXCEPT ![n] = NoFrame]
              /\ len' = [len EXCEPT ![n] = -1] /\ rxPtr' = [rxPtr EXCEPT ![n] = -1]
              /\ txPtr' = [txPtr EXCEPT ![n] = -1]
           \/ /\ main' = [main EXCEPT ![n] = "checked"] /\ UNCHANGED <<len, rxPtr, txPtr>>
              /\ \E f \in FramesOf[n] : data' = [data EXCEPT ![n] = f]
        /\ UNCHANGED <<txFifo, rxFifo, overrun, alone>>
    BY <1>1 DEF SendCheck, uart
  <2>2. ASSUME NEW k \in Node, k # n PROVE Undisturbed(k)'
    BY <2>1, <2>2, SameUndisturbed DEF PointerInv, Types
  <2>3. status'[n] = 0 /\ ~ (main'[n] = "sending" /\ data'[n] # NoFrame)
    BY <2>1 DEF PointerInv, Types
  <2>4. Undisturbed(n)'
    BY <2>3 DEF Undisturbed
  <2> QED BY <2>2, <2>4
<1>2. CASE UNCHANGED read
  BY <1>2, SameUndisturbed
<1>3. ASSUME NEW n \in Node, ReceiveData(n) PROVE UNCHANGED read
  BY <1>3 DEF ReceiveData, tx, uart
<1>4. CASE UNCHANGED vars
  <2>1. UNCHANGED read
    BY <1>4 DEF vars, tx, uart, history
  <2> QED BY <2>1, <1>2
<1> QED BY <1>1, <1>2, <1>3, <1>4, LineUndisturbed, PreloadUndisturbed,
           TransmitIrqUndisturbed, ReceiveIrqUndisturbed, PollStatusUndisturbed
        DEF Next, Progress, Interrupts, Main

(* A send that nothing disturbed is not reported as failed, whatever the   *)
(* length of the frame against the sizes of the FIFOs, however the         *)
(* interrupts fall between the bytes, and whenever send_status looks.      *)
THEOREM AloneSucceeds == Spec => []UndisturbedSucceeds
<1> DEFINE Inv == \A n \in Node : Undisturbed(n)
<1>1. Init => Inv
  <2> SUFFICES ASSUME Init, NEW n \in Node PROVE Undisturbed(n)
    OBVIOUS
  <2>1. main[n] = "idle" /\ status[n] = 0
    BY DEF Init
  <2> QED BY <2>1 DEF Undisturbed
<1>2. PointerInv /\ Inv /\ [Next]_vars => Inv'
  BY NextUndisturbed
<1>3. PointerInv /\ Inv => UndisturbedSucceeds
  <2> SUFFICES ASSUME PointerInv, Inv, NEW n \in Node, status[n] = -1, txPtr[n] >= 0
               PROVE  ~ alone[n]
    BY DEF UndisturbedSucceeds
  <2>1. data[n] # NoFrame
    BY DEF PointerInv, Types, Pointers
  <2> QED BY <2>1 DEF Undisturbed
<1> QED BY <1>1, <1>2, <1>3, PointersAlways, PTL DEF Spec

-----------------------------------------------------------------------------
(***************************************************************************)
(* What a board that only listens gets to read: a chain, in which every    *)
(* two neighbours are what the line carried one after the other, or one of *)
(* them is a frame end.  It runs from the byte last taken through the ring *)
(* and the FIFO to the byte on the line, where an error stands for the     *)
(* frame end it will become.                                               *)
(***************************************************************************)
Ends == {End, Error}
Near(a, b) == a.byte \in Ends \/ b.byte \in Ends \/ b.after = a.byte

Chain(t, s) ==
  /\ s # <<>> => Near(t, s[1])
  /\ \A i \in 1 .. Len(s) - 1 : Near(s[i], s[i + 1])

Final(t, s) == IF s = <<>> THEN t ELSE s[Len(s)]

LEMMA EmptyIs ==
  ASSUME NEW S, NEW s \in Seq(S)
  PROVE  s = <<>> <=> Len(s) = 0
OBVIOUS

LEMMA ChainAppend ==
  ASSUME NEW S, NEW s \in Seq(S), NEW t, NEW e \in S, Chain(t, s), Near(Final(t, s), e)
  PROVE  Chain(t, Append(s, e)) /\ Final(t, Append(s, e)) = e
<1> PICK l : l = Len(s)
  OBVIOUS
<1> PICK z : z = Append(s, e)
  OBVIOUS
<1>1. /\ l \in Nat /\ z \in Seq(S) /\ Len(z) = l + 1 /\ z[l + 1] = e /\ z # <<>>
      /\ \A i \in 1 .. l : z[i] = s[i]
      /\ s = <<>> <=> l = 0
  OBVIOUS
<1>2. Final(t, z) = e
  BY <1>1 DEF Final
<1>3. Near(t, z[1])
  <2>1. CASE s = <<>>
    BY <1>1, <2>1 DEF Final
  <2>2. CASE s # <<>>
    <3>1. 1 \in 1 .. l
      BY <1>1, <2>2
    <3> QED BY <1>1, <2>2, <3>1 DEF Chain
  <2> QED BY <2>1, <2>2
<1>4. ASSUME NEW i \in 1 .. Len(z) - 1 PROVE Near(z[i], z[i + 1])
  <2>1. CASE i = l
    <3>1. l # 0 /\ s # <<>> /\ z[i] = s[l]
      BY <1>1, <1>4, <2>1
    <3> QED BY <1>1, <2>1, <3>1 DEF Final
  <2>2. CASE i # l
    <3>1. i \in 1 .. l - 1 /\ i \in 1 .. l /\ i + 1 \in 1 .. l
      BY <1>1, <1>4, <2>2
    <3> QED BY <1>1, <3>1 DEF Chain
  <2> QED BY <2>1, <2>2
<1> QED BY <1>2, <1>3, <1>4 DEF Chain

LEMMA ChainTail ==
  ASSUME NEW S, NEW s \in Seq(S), NEW t, s # <<>>, Chain(t, s)
  PROVE  Chain(Head(s), Tail(s)) /\ Final(Head(s), Tail(s)) = Final(t, s)
<1> PICK l : l = Len(s)
  OBVIOUS
<1> PICK z : z = Tail(s)
  OBVIOUS
<1>1. /\ l \in Nat /\ l # 0 /\ z \in Seq(S) /\ Len(z) = l - 1 /\ Head(s) = s[1]
      /\ \A i \in 1 .. l - 1 : z[i] = s[i + 1]
      /\ z = <<>> <=> l = 1
  <2>1. /\ l \in Nat /\ l # 0 /\ z \in Seq(S) /\ Len(z) = l - 1 /\ Head(s) = s[1]
        /\ \A i \in 1 .. l - 1 : z[i] = s[i + 1]
    OBVIOUS
  <2>2. z = <<>> <=> Len(z) = 0
    BY ONLY <2>1, EmptyIs
  <2> QED BY <2>1, <2>2
<1>2. Final(s[1], z) = Final(t, s)
  <2>1. CASE l = 1
    BY <1>1, <2>1 DEF Final
  <2>2. CASE l # 1
    <3>1. l - 1 \in 1 .. l - 1 /\ (l - 1) + 1 = l
      BY <1>1, <2>2
    <3> QED BY <1>1, <2>2, <3>1 DEF Final
  <2> QED BY <2>1, <2>2
<1>3. z # <<>> => Near(s[1], z[1])
  <2> SUFFICES ASSUME z # <<>> PROVE Near(s[1], z[1])
    OBVIOUS
  <2>1. 1 \in 1 .. l - 1 /\ z[1] = s[1 + 1]
    BY <1>1
  <2> QED BY <2>1 DEF Chain
<1>4. ASSUME NEW i \in 1 .. Len(z) - 1 PROVE Near(z[i], z[i + 1])
  <2>1. i \in 1 .. l - 1 /\ i + 1 \in 1 .. l - 1
    BY <1>1
  <2> QED BY <1>1, <2>1 DEF Chain
<1> QED BY <1>1, <1>2, <1>3, <1>4 DEF Chain

(* The last of a full ring gives way to a frame end.                       *)
LEMMA ChainEnded ==
  ASSUME NEW S, NEW s \in Seq(S), NEW t, NEW e \in S, s # <<>>, Chain(t, s),
         e.byte = End
  PROVE  /\ Chain(t, [s EXCEPT ![Len(s)] = e])
         /\ Final(t, [s EXCEPT ![Len(s)] = e]) = e
<1> PICK z : z = [s EXCEPT ![Len(s)] = e]
  OBVIOUS
<1> PICK l : l = Len(s)
  OBVIOUS
<1>1. /\ l \in Nat /\ l # 0 /\ z \in Seq(S) /\ Len(z) = l /\ z[l] = e /\ z # <<>>
      /\ \A i \in 1 .. l - 1 : z[i] = s[i]
  OBVIOUS
<1>2. \A a : Near(a, e)
  BY DEF Near, Ends
<1>3. Near(t, z[1])
  <2>1. CASE l = 1
    BY <1>1, <1>2, <2>1
  <2>2. CASE l # 1
    <3>1. 1 \in 1 .. l - 1
      BY <1>1, <2>2
    <3> QED BY <1>1, <3>1 DEF Chain
  <2> QED BY <2>1, <2>2
<1>4. ASSUME NEW i \in 1 .. l - 1 PROVE Near(z[i], z[i + 1])
  <2>1. CASE i + 1 = l
    BY <1>1, <1>2, <2>1
  <2>2. CASE i + 1 # l
    <3>1. i + 1 \in 1 .. l - 1
      BY <1>1, <2>2
    <3> QED BY <1>1, <3>1 DEF Chain
  <2> QED BY <2>1, <2>2
<1> QED BY <1>1, <1>3, <1>4 DEF Chain, Final

LEMMA ChainStored ==
  ASSUME NEW r \in Seq(Kept), NEW t, NEW b \in Heard, Chain(t, r), Near(Final(t, r), b)
  PROVE  /\ Chain(t, Stored(r, b))
         /\ Final(t, Stored(r, b)).byte \in {End, Received(b.byte)}
<1>1. End \in Byte /\ RingSize \in Nat /\ RingSize > 1
  BY HdUartAssumption
<1>2. CASE RingFull(r)
  <2> DEFINE e == [byte |-> End, after |-> b.after]
  <2>1. r # <<>>
    BY <1>1, <1>2 DEF RingFull
  <2>2. e \in Kept /\ e.byte = End
    BY <1>1 DEF Heard, Kept
  <2>3. Stored(r, b) = [r EXCEPT ![Len(r)] = e]
    BY <1>2 DEF Stored, Invalidated
  <2> HIDE DEF e
  <2>4. Chain(t, Stored(r, b)) /\ Final(t, Stored(r, b)) = e
    <3>1. r \in Seq(Kept) /\ Chain(t, r)
      OBVIOUS
    <3>2. /\ Chain(t, [r EXCEPT ![Len(r)] = e])
          /\ Final(t, [r EXCEPT ![Len(r)] = e]) = e
      BY ONLY <2>1, <2>2, <3>1, ChainEnded
    <3> QED BY <2>3, <3>2
  <2> QED BY <2>2, <2>4
<1>3. CASE ~ RingFull(r)
  <2> DEFINE e == [b EXCEPT !.byte = Received(@)]
  <2>1. e \in Kept /\ e.byte = Received(b.byte) /\ e.after = b.after
    BY <1>1 DEF Heard, Kept, Received
  <2>2. Stored(r, b) = Append(r, e)
    BY <1>3 DEF Stored
  <2>3. b.byte \in Ends => e.byte \in Ends
    BY <2>1 DEF Received, Ends
  <2> HIDE DEF e
  <2>4. Near(Final(t, r), e)
    BY <2>1, <2>3 DEF Near
  <2> QED BY <2>1, <2>2, <2>4, ChainAppend
<1> QED BY <1>2, <1>3

(* A board that has not sent compares nothing and keeps everything.        *)
Latest(n) == Final(Final(taken[n], ring[n]), rxFifo[n])

Listening(n) ==
  silent[n] =>
    /\ main[n] = "idle" /\ len[n] = -1 /\ rxPtr[n] = -1
    /\ Chain(taken[n], ring[n])
    /\ Chain(Final(taken[n], ring[n]), rxFifo[n])
    /\ overrun[n] \/ Latest(n).byte \in Ends \cup {before}

LEMMA SameListening ==
  ASSUME NEW n \in Node, Listening(n), before' = before,
         main'[n] = main[n], len'[n] = len[n], rxPtr'[n] = rxPtr[n],
         taken'[n] = taken[n], ring'[n] = ring[n], rxFifo'[n] = rxFifo[n],
         overrun'[n] = overrun[n], silent'[n] = silent[n]
  PROVE  Listening(n)'
BY DEF Listening, Latest

LEMMA ListeningLoop ==
  ASSUME Types, NEW n \in Node, Listening(n), silent[n], NEW u, Handling(u, n),
         rxFifo[n] # <<>>
  PROVE  LET v == u[Len(rxFifo[n])]
         IN /\ v.expected = -1 /\ v.echoed = -1
            /\ Chain(taken[n], v.ring)
            /\ Final(taken[n], v.ring).byte \in {End, Received(rxFifo[n][Len(rxFifo[n])].byte)}
<1> PICK m : m = Len(rxFifo[n])
  OBVIOUS
<1> DEFINE Last(i) == Final(taken[n], u[i].ring)
           T == { i \in 0 .. m :
                    /\ GivenUp(u[i]) /\ Chain(taken[n], u[i].ring)
                    /\ IF i = 0 THEN Last(0) = Final(taken[n], ring[n])
                                ELSE Last(i).byte \in {End, Received(rxFifo[n][i].byte)} }
<1>1. m \in Nat /\ m # 0
  BY DEF Types
<1>2. 0 \in T
  BY <1>1 DEF Handling, GivenUp, Listening
<1>3. ASSUME NEW i \in 1 .. m, i - 1 \in T PROVE i \in T
  <2>1. /\ u[i] = Handled(data[n], u[i - 1], rxFifo[n][i]) /\ u[i - 1] \in Loop
        /\ i \in 0 .. m /\ i - 1 \in 0 .. m /\ rxFifo[n][i] \in Heard
        /\ Chain(Final(taken[n], ring[n]), rxFifo[n])
    <3>1. rxFifo[n] \in Seq(Heard) /\ i - 1 \in 0 .. m /\ i \in 0 .. m
      BY <1>1 DEF Types
    <3>2. rxFifo[n][i] \in Heard
      BY <3>1
    <3>3. u[i] = Handled(data[n], u[i - 1], rxFifo[n][i]) /\ u[i - 1] \in Loop
      BY <3>1 DEF Handling, RoomyLoop
    <3> QED BY <3>1, <3>2, <3>3 DEF Listening
  <2>2. GivenUp(u[i - 1]) /\ Chain(taken[n], u[i - 1].ring)
    BY <1>3
  <2>3. Near(Last(i - 1), rxFifo[n][i])
    <3>1. CASE i = 1
      <4>1. Last(0) = Final(taken[n], ring[n])
        BY <1>3, <3>1
      <4> QED BY <2>1, <3>1, <4>1 DEF Chain
    <3>2. CASE i # 1
      <4>1. Last(i - 1).byte \in {End, Received(rxFifo[n][i - 1].byte)}
        BY <1>3, <3>2
      <4>2. i - 1 \in 1 .. m - 1 /\ (i - 1) + 1 = i
        BY <3>2
      <4>3. Near(rxFifo[n][i - 1], rxFifo[n][i])
        BY <2>1, <4>2 DEF Chain
      <4> QED BY <4>1, <4>3 DEF Near, Ends, Received
    <3> QED BY <3>1, <3>2
  <2>4. /\ u[i - 1] = [echoed |-> -1, expected |-> -1, ring |-> u[i - 1].ring]
        /\ u[i - 1].echoed >= u[i - 1].expected /\ u[i - 1].ring \in Seq(Kept)
    BY <2>1, <2>2 DEF GivenUp, Loop
  <2>5. u[i] = [u[i - 1] EXCEPT !.ring = Stored(@, rxFifo[n][i])]
    BY <2>1, <2>4 DEF Handled
  <2>6. GivenUp(u[i]) /\ u[i].ring = Stored(u[i - 1].ring, rxFifo[n][i])
    BY <2>4, <2>5 DEF GivenUp
  <2>7. /\ Chain(taken[n], u[i].ring)
        /\ Last(i).byte \in {End, Received(rxFifo[n][i].byte)}
    BY <2>1, <2>2, <2>3, <2>4, <2>6, ChainStored
  <2> HIDE DEF Last
  <2> QED BY <1>1, <2>1, <2>6, <2>7
<1> HIDE DEF T
<1>4. \A i \in 0 .. m : i \in T
  BY <1>1, <1>2, <1>3, CountUp
<1>5. m \in T
  BY <1>1, <1>4
<1> QED BY <1>1, <1>5 DEF T, GivenUp

LEMMA ReceiveIrqListening ==
  ASSUME Types, NEW n \in Node, ReceiveIrq(n), \A k \in Node : Listening(k)
  PROVE  \A k \in Node : Listening(k)'
<1>1. /\ rxFifo' = [rxFifo EXCEPT ![n] = <<>>] /\ rxFifo[n] # <<>>
      /\ UNCHANGED <<main, overrun, before, taken, silent>>
  BY DEF ReceiveIrq, history
<1>2. PICK u : Handling(u, n)
  BY SomeHandling
<1>3. ASSUME NEW k \in Node, k # n PROVE Listening(k)'
  BY <1>1, <1>2, <1>3, SameListening DEF Types, Handling
<1>4. ASSUME silent[n] PROVE Listening(n)'
  <2> PICK m : m = Len(rxFifo[n])
    OBVIOUS
  <2>1. /\ rxPtr'[n] = u[m].echoed /\ len'[n] = u[m].expected /\ rxFifo'[n] = <<>>
        /\ ring'[n] = u[m].ring
    BY <1>1, <1>2 DEF Types, Handling
  <2>2. /\ u[m].expected = -1 /\ u[m].echoed = -1
        /\ Chain(taken[n], u[m].ring)
        /\ Final(taken[n], u[m].ring).byte \in {End, Received(rxFifo[n][m].byte)}
    BY <1>1, <1>2, <1>4, ListeningLoop
  <2>3. \A t : Chain(t, <<>>) /\ Final(t, <<>>) = t
    BY DEF Chain, Final
  <2>4. Latest(n)' = Final(taken[n], u[m].ring)
    BY <1>1, <2>1, <2>3 DEF Latest
  <2>5. overrun[n] \/ rxFifo[n][m].byte \in Ends \cup {before}
    BY <1>1, <1>4 DEF Listening, Latest, Final
  <2>6. overrun[n] \/ Latest(n)'.byte \in Ends \cup {before}
    BY <2>2, <2>4, <2>5 DEF Ends, Received
  <2> QED BY <1>1, <1>4, <2>1, <2>2, <2>3, <2>6 DEF Listening
<1>5. ~ silent[n] => Listening(n)'
  BY <1>1 DEF Listening
<1> QED BY <1>3, <1>4, <1>5

LEMMA LineListening ==
  ASSUME Types, Line, NEW n \in Node, Listening(n)
  PROVE  Listening(n)'
<1>1. /\ main' = [k \in Node |-> IF main[k] = "checked" THEN "late" ELSE main[k]]
      /\ overrun' = [k \in Node |-> Full(k)]
      /\ UNCHANGED <<len, rxPtr, ring, taken, silent>>
  BY DEF Line, tx
<1>2. PICK b \in LineByte :
        /\ rxFifo' = [k \in Node |->
             IF Full(k) THEN rxFifo[k]
             ELSE Append(rxFifo[k], [byte |-> IF overrun[k] THEN Error ELSE b,
                                     after |-> before])]
        /\ before' = Received(b)
  BY DEF Line
<1> SUFFICES ASSUME silent[n] PROVE Listening(n)'
  BY <1>1 DEF Listening
<1>3. main'[n] = "idle"
  BY <1>1 DEF Listening
<1>4. CASE Full(n)
  <2>1. overrun'[n] /\ rxFifo'[n] = rxFifo[n]
    BY <1>1, <1>2, <1>4
  <2> QED BY <1>1, <1>3, <2>1 DEF Listening
<1>5. CASE ~ Full(n)
  <2> DEFINE t == Final(taken[n], ring[n])
             e == [byte |-> IF overrun[n] THEN Error ELSE b, after |-> before]
  <2>1. b \in Byte \cup {Error}
    BY LineByteType
  <2>2. /\ rxFifo'[n] = Append(rxFifo[n], e) /\ rxFifo[n] \in Seq(Heard) /\ e \in Heard
    BY <1>2, <1>5, <2>1 DEF Types, Heard
  <2>3. Near(Final(t, rxFifo[n]), e)
    <3>1. overrun[n] => e.byte \in Ends
      BY DEF Ends
    <3>2. ~ overrun[n] => Final(t, rxFifo[n]).byte \in Ends \cup {before}
      BY DEF Listening, Latest
    <3>3. e.after = before
      OBVIOUS
    <3> HIDE DEF e, t
    <3> QED BY <3>1, <3>2, <3>3 DEF Near
  <2>4. e.byte \in Ends \cup {Received(b)}
    BY <2>1 DEF Ends, Received
  <2>5. Chain(t, rxFifo[n])
    BY DEF Listening
  <2> HIDE DEF e
  <2>6. Chain(t, rxFifo'[n]) /\ Final(t, rxFifo'[n]) = e
    BY <2>2, <2>3, <2>5, ChainAppend
  <2>7. /\ Final(taken'[n], ring'[n]) = t /\ Chain(taken'[n], ring'[n])
        /\ len'[n] = -1 /\ rxPtr'[n] = -1
    BY <1>1 DEF Listening
  <2> HIDE DEF t
  <2>8. Latest(n)'.byte \in Ends \cup {before'}
    BY <1>2, <2>4, <2>6, <2>7 DEF Latest
  <2> QED BY <1>3, <2>6, <2>7, <2>8 DEF Listening
<1> QED BY <1>4, <1>5

LEMMA ReceiveDataListening ==
  ASSUME Types, NEW n \in Node, ReceiveData(n), \A k \in Node : Listening(k)
  PROVE  \A k \in Node : Listening(k)'
<1>1. /\ ring[n] # <<>>
      /\ taken' = [taken EXCEPT ![n] = Head(ring[n])]
      /\ ring' = [ring EXCEPT ![n] = Tail(ring[n])]
      /\ UNCHANGED <<main, len, rxPtr, rxFifo, overrun, before, silent>>
  BY DEF ReceiveData, tx, uart, Types
<1>2. ASSUME NEW k \in Node, k # n PROVE Listening(k)'
  BY <1>1, <1>2, SameListening DEF Types
<1>3. ASSUME silent[n] PROVE Listening(n)'
  <2>1. taken'[n] = Head(ring[n]) /\ ring'[n] = Tail(ring[n]) /\ ring[n] \in Seq(Kept)
    BY <1>1 DEF Types
  <2>2. Chain(taken[n], ring[n])
    BY <1>3 DEF Listening
  <2>3. /\ Chain(taken'[n], ring'[n])
        /\ Final(taken'[n], ring'[n]) = Final(taken[n], ring[n])
    BY <1>1, <2>1, <2>2, ChainTail
  <2> QED BY <1>1, <1>3, <2>3 DEF Listening, Latest
<1>4. ~ silent[n] => Listening(n)'
  BY <1>1 DEF Listening
<1> QED BY <1>2, <1>3, <1>4

LEMMA NextListening ==
  ASSUME Types, [Next]_vars, \A k \in Node : Listening(k)
  PROVE  \A k \in Node : Listening(k)'
<1> DEFINE read == <<before, main, len, rxPtr, taken, ring, rxFifo, overrun, silent>>
<1>1. CASE UNCHANGED read
  BY <1>1, SameListening
<1>2. ASSUME NEW n \in Node, SendCheck(n) PROVE \A k \in Node : Listening(k)'
  <2>1. /\ silent' = [silent EXCEPT ![n] = FALSE]
        /\ \E s \in {"sending", "checked"} : main' = [main EXCEPT ![n] = s]
        /\ len' = len \/ len' = [len EXCEPT ![n] = -1]
        /\ rxPtr' = rxPtr \/ rxPtr' = [rxPtr EXCEPT ![n] = -1]
        /\ UNCHANGED <<before, taken, ring, rxFifo, overrun>>
    BY <1>2 DEF SendCheck, uart
  <2>2. ASSUME NEW k \in Node, k # n PROVE Listening(k)'
    BY <2>1, <2>2, SameListening DEF Types
  <2>3. Listening(n)'
    BY <2>1 DEF Listening, Types
  <2> QED BY <2>2, <2>3
<1>3. ASSUME NEW n \in Node, Preload(n) PROVE \A k \in Node : Listening(k)'
  <2>1. /\ main[n] # "idle" /\ main' = [main EXCEPT ![n] = "sending"]
        /\ len' = [len EXCEPT ![n] = Len(data[n])] /\ rxPtr' = [rxPtr EXCEPT ![n] = 0]
        /\ UNCHANGED <<before, taken, ring, rxFifo, overrun, silent>>
    BY <1>3 DEF Preload, Checked
  <2>2. ASSUME NEW k \in Node, k # n PROVE Listening(k)'
    BY <2>1, <2>2, SameListening DEF Types
  <2>3. Listening(n)'
    BY <2>1 DEF Listening
  <2> QED BY <2>2, <2>3
<1>4. ASSUME NEW n \in Node, PollStatus(n) PROVE \A k \in Node : Listening(k)'
  <2>1. /\ main[n] # "idle" /\ main' = [main EXCEPT ![n] = "idle"]
        /\ UNCHANGED <<before, len, rxPtr, taken, ring, rxFifo, overrun, silent>>
    BY <1>4 DEF PollStatus, tx, uart, history
  <2>2. ASSUME NEW k \in Node, k # n PROVE Listening(k)'
    BY <2>1, <2>2, SameListening DEF Types
  <2>3. Listening(n)'
    BY <2>1 DEF Listening
  <2> QED BY <2>2, <2>3
<1>5. ASSUME NEW n \in Node, TransmitIrq(n) PROVE UNCHANGED read
  BY <1>5 DEF TransmitIrq, history
<1>6. CASE UNCHANGED vars
  <2>1. UNCHANGED read
    BY <1>6 DEF vars, tx, uart, history
  <2> QED BY <1>1, <2>1
<1> QED BY <1>1, <1>2, <1>3, <1>4, <1>5, <1>6, LineListening, ReceiveIrqListening,
           ReceiveDataListening
        DEF Next, Progress, Interrupts, Main

(* A board that has not sent never takes two bytes for neighbours that     *)
(* were not: wherever the FIFO or the ring had no room, the handler has    *)
(* left a frame end, whatever the sizes of both.                           *)
THEOREM NeverSpliced == Spec => []NothingSpliced
<1> DEFINE Inv == \A n \in Node : Listening(n)
<1>1. Init => Inv
  <2> SUFFICES ASSUME Init, NEW n \in Node PROVE Listening(n)
    OBVIOUS
  <2>1. /\ main[n] = "idle" /\ len[n] = -1 /\ rxPtr[n] = -1 /\ ring[n] = <<>>
        /\ rxFifo[n] = <<>> /\ taken[n].byte = End
    BY DEF Init
  <2>2. \A t : Chain(t, <<>>) /\ Final(t, <<>>) = t
    BY DEF Chain, Final
  <2> QED BY <2>1, <2>2 DEF Listening, Latest, Ends
<1>2. PointerInv /\ Inv /\ [Next]_vars => Inv'
  BY NextListening DEF PointerInv
<1>3. PointerInv /\ Inv => NothingSpliced
  <2> SUFFICES ASSUME PointerInv, Inv, NEW n \in Node, silent[n],
                      NEW i \in 1 .. Len(<<taken[n]>> \o ring[n]) - 1
               PROVE  LET seen == <<taken[n]>> \o ring[n]
                      IN Neighbours(seen[i], seen[i + 1])
    BY DEF NothingSpliced
  <2> PICK seen : seen = <<taken[n]>> \o ring[n]
    OBVIOUS
  <2> PICK l : l = Len(ring[n])
    OBVIOUS
  <2>1. Chain(taken[n], ring[n]) /\ ring[n] \in Seq(Kept) /\ taken[n] \in Kept
    BY DEF Listening, PointerInv, Types
  <2>2. /\ l \in Nat /\ Len(seen) = l + 1 /\ seen[1] = taken[n]
        /\ \A j \in 1 .. l : seen[j + 1] = ring[n][j]
    BY <2>1
  <2>3. seen[i] \in Kept /\ seen[i + 1] \in Kept /\ Near(seen[i], seen[i + 1])
    <3>1. i \in 1 .. l /\ seen[i + 1] = ring[n][i] /\ ring[n][i] \in Kept /\ l # 0
      BY <2>1, <2>2
    <3>2. CASE i = 1
      BY <2>1, <2>2, <3>1, <3>2 DEF Chain
    <3>3. CASE i # 1
      <4>1. i - 1 \in 1 .. l - 1 /\ (i - 1) + 1 = i /\ i - 1 \in 1 .. l
        BY <2>2, <3>1, <3>3
      <4>2. seen[i] = ring[n][i - 1] /\ ring[n][i - 1] \in Kept
        BY <2>1, <2>2, <4>1
      <4> QED BY <2>1, <3>1, <4>1, <4>2 DEF Chain
    <3> QED BY <3>2, <3>3
  <2>4. \A a \in Kept : a.byte # Error
    BY HdUartAssumption DEF Kept
  <2> QED BY <2>3, <2>4 DEF Near, Ends, Neighbours
<1> QED BY <1>1, <1>2, <1>3, PointersAlways, PTL DEF Spec

=============================================================================
