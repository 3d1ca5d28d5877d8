-------------------------- MODULE UsbBridgeProofs --------------------------
(***************************************************************************)
(* The ring between the receiver thread and the main loop of the hub, and  *)
(* the framing of the line, for every size of ring and buffers, all        *)
(* packets and any losses.                                                 *)
(*                                                                         *)
(* Bytes are only lost and read at the head of the line, so it always is   *)
(* the end of the stream of frames (Route); the receiver is in step with   *)
(* the packet it reads once it has begun to read it behind a newline       *)
(* (Tracking).                                                             *)
(***************************************************************************)
EXTENDS UsbBridge, SequenceTheorems, WellFoundedInduction, TLAPS

(* Counting packets instead of slots: head and tail are the numbers of     *)
(* packets published and delivered, wrapped around the ring.               *)
Published == Len(accepted) - IF receiver = "storing" THEN 1 ELSE 0

RingInv ==
  /\ Published \in Nat
  /\ head = Published % RingSize
  /\ tail = Len(delivered) % RingSize
  /\ Len(delivered) <= Published
  /\ Len(accepted) - Len(delivered) < RingSize
  /\ adding => Len(delivered) < Published
  /\ \A k \in 1 .. Len(delivered) : delivered[k] = accepted[k]
  /\ \A k \in Len(delivered) + 1 .. Len(accepted) :
       slots[(k - 1) % RingSize] = accepted[k]

Safe == TypeOK /\ RingInv

-----------------------------------------------------------------------------
(* Arithmetic of positions in the ring.                                    *)
LEMMA Sizes ==
  /\ RingSize \in Nat \ {0} /\ RingSize > 1
  /\ HeaderSize \in Nat \ {0} /\ MaxSize \in Nat /\ RxbufSize \in Nat \ {0}
  /\ FrontSize \in Nat /\ FrontSize < HeaderSize
  /\ Newline \in Byte /\ Escape \in Byte
BY UsbBridgeAssumption, SMT DEF UsbBridgeAssumption

LEMMA Remainder ==
  ASSUME NEW n \in Nat, NEW q \in Nat, NEW r \in 0 .. RingSize - 1,
         n = RingSize * q + r
  PROVE  n % RingSize = r
BY Sizes, SMT

LEMMA Quotient ==
  ASSUME NEW n \in Nat
  PROVE  \E q \in Nat : \E r \in 0 .. RingSize - 1 :
           n = RingSize * q + r /\ n % RingSize = r
<1> DEFINE q == n \div RingSize
           r == n % RingSize
<1>1. q \in Nat /\ r \in 0 .. RingSize - 1 /\ n = RingSize * q + r
  BY Sizes, SMT
<1> QED
  BY <1>1

(* Adding to a wrapped position, and to the one it stands for.             *)
LEMMA AddWrapped ==
  ASSUME NEW n \in Nat, NEW d \in Nat
  PROVE  ((n % RingSize) + d) % RingSize = (n + d) % RingSize
<1>1. PICK q \in Nat, r \in 0 .. RingSize - 1 : n = RingSize * q + r /\ n % RingSize = r
  BY Quotient
<1>2. r + d \in Nat
  BY Sizes, SMT
<1>3. PICK p \in Nat, s \in 0 .. RingSize - 1 :
        r + d = RingSize * p + s /\ (r + d) % RingSize = s
  BY <1>2, Quotient
<1>4. n + d = RingSize * (q + p) + s
  <2>1. RingSize * (q + p) = RingSize * q + RingSize * p
    BY Sizes, SMT
  <2>2. RingSize * q \in Nat /\ RingSize * p \in Nat
    BY Sizes, SMT
  <2> QED
    BY <1>1, <1>3, <2>1, <2>2, SMT
<1>5. (n + d) % RingSize = s
  <2>1. n + d \in Nat /\ q + p \in Nat
    BY SMT
  <2> QED
    BY <1>4, <2>1, Remainder
<1> QED
  BY <1>1, <1>3, <1>5

(* Positions less than a ring apart are different; a ring apart the same.  *)
LEMMA Apart ==
  ASSUME NEW a \in Nat, NEW b \in Nat, a < b, b - a < RingSize
  PROVE  a % RingSize # b % RingSize
<1> SUFFICES ASSUME a % RingSize = b % RingSize PROVE FALSE
  OBVIOUS
<1>1. PICK q \in Nat, r \in 0 .. RingSize - 1 : a = RingSize * q + r /\ a % RingSize = r
  BY Quotient
<1>2. PICK p \in Nat, s \in 0 .. RingSize - 1 : b = RingSize * p + s /\ b % RingSize = s
  BY Quotient
<1>3. b - a = RingSize * (p - q)
  BY <1>1, <1>2, Sizes, SMT
<1>4. CASE p <= q
  BY <1>3, <1>4, Sizes, SMT
<1>5. CASE p > q
  BY <1>3, <1>5, Sizes, SMT
<1> QED
  BY <1>4, <1>5

LEMMA OneRound ==
  ASSUME NEW n \in Nat
  PROVE  (n + RingSize) % RingSize = n % RingSize
<1>1. PICK q \in Nat, r \in 0 .. RingSize - 1 : n = RingSize * q + r /\ n % RingSize = r
  BY Quotient
<1>2. n + RingSize = RingSize * (q + 1) + r /\ n + RingSize \in Nat /\ q + 1 \in Nat
  BY <1>1, Sizes, SMT
<1> QED
  BY <1>1, <1>2, Remainder

LEMMA Wrapped ==
  ASSUME NEW n \in Nat
  PROVE  n % RingSize \in Slot
BY Sizes, SMT DEF Slot

(* The distance of two positions from their slots.                         *)
LEMMA Distance ==
  ASSUME NEW a \in Nat, NEW b \in Nat, a <= b, b - a < RingSize
  PROVE  ((b % RingSize) - (a % RingSize)) % RingSize = b - a
<1>1. PICK q \in Nat, r \in 0 .. RingSize - 1 : a = RingSize * q + r /\ a % RingSize = r
  BY Quotient
<1>2. PICK p \in Nat, s \in 0 .. RingSize - 1 : b = RingSize * p + s /\ b % RingSize = s
  BY Quotient
<1>3. b - a = RingSize * (p - q) + (s - r)
  BY <1>1, <1>2, Sizes, SMT
<1>4. CASE s >= r
  <2>1. p = q
    <3>1. CASE p < q
      BY <1>3, <1>4, <3>1, Sizes, SMT
    <3>2. CASE p > q
      BY <1>3, <1>4, <3>2, Sizes, SMT
    <3> QED
      BY <3>1, <3>2
  <2>2. b - a = s - r
    BY <1>3, <2>1, Sizes, SMT
  <2> QED
    BY <1>1, <1>2, <2>2, Sizes, SMT
<1>5. CASE s < r
  <2>1. p = q + 1
    <3>1. CASE p <= q
      BY <1>3, <1>5, <3>1, Sizes, SMT
    <3>2. CASE p > q + 1
      BY <1>3, <1>5, <3>2, Sizes, SMT
    <3> QED
      BY <3>1, <3>2
  <2>2. b - a = RingSize + (s - r)
    BY <1>3, <2>1, Sizes, SMT
  <2>3. (s - r) % RingSize = RingSize + (s - r)
    BY <1>5, Sizes, SMT
  <2> QED
    BY <1>1, <1>2, <2>2, <2>3
<1> QED
  BY <1>4, <1>5

-----------------------------------------------------------------------------
(* Steps that leave the ring and the history of it alone.                  *)
Elsewhere ==
  UNCHANGED <<receiver, slots, head, tail, adding, accepted, delivered>>

LEMMA ElsewhereRing ==
  ASSUME RingInv, Elsewhere
  PROVE  RingInv'
BY DEF RingInv, Elsewhere, Published

LEMMA CrcBackType ==
  ASSUME NEW u \in Seq(Byte), Len(u) >= HeaderSize
  PROVE  CrcBack(u) \in Seq(Byte)
<1> DEFINE payload == Len(u) - HeaderSize
<1>1. Len(u) \in Nat /\ payload \in Nat
  BY Sizes, LenProperties, SMT
<1>2. \A i \in 1 .. Len(u) : u[i] \in Byte
  BY ElementOfSeq
<1>3. SubSeq(u, 1, FrontSize) \in Seq(Byte)
  BY <1>1, <1>2, Sizes, SubSeqProperties
<1>4. SubSeq(u, FrontSize + payload + 1, Len(u)) \in Seq(Byte)
  <2>1. FrontSize + payload + 1 \in 1 .. Len(u) + 1
    BY <1>1, Sizes, SMT
  <2> QED
    BY <1>1, <1>2, <2>1, SubSeqProperties
<1>5. SubSeq(u, FrontSize + 1, FrontSize + payload) \in Seq(Byte)
  <2>1. FrontSize + 1 \in Nat /\ FrontSize + payload \in 0 .. Len(u)
    BY <1>1, Sizes, SMT
  <2>2. FrontSize + payload <= Len(u)
    BY <1>1, Sizes, SMT
  <2>3. \A i \in FrontSize + 1 .. FrontSize + payload : u[i] \in Byte
    BY <1>1, <1>2, <2>2, Sizes, SMT
  <2>4. FrontSize + 1 \in 1 .. Len(u) + 1 /\ FrontSize + payload \in Nat
    BY <1>1, <2>1, <2>2, Sizes, SMT
  <2> HIDE DEF payload
  <2> QED
    BY <1>1, <2>1, <2>3, <2>4, SubSeqProperties
<1> QED
  BY <1>3, <1>4, <1>5, ConcatProperties DEF CrcBack

LEMMA KeptType ==
  ASSUME TypeOK, NEW s \in Seq(Byte), Len(s) <= 1
  PROVE  Kept(s) \in Seq(Byte) /\ Len(Kept(s)) <= RxbufSize
<1>1. rxbuf \in Seq(Byte) /\ Len(rxbuf) \in Nat /\ Len(rxbuf) <= RxbufSize
  BY LenProperties DEF TypeOK
<1>2. /\ rxbuf \o s \in Seq(Byte)
      /\ Len(rxbuf \o s) = Len(rxbuf) + Len(s)
      /\ Len(s) \in Nat
  BY <1>1, ConcatProperties, LenProperties
<1> QED
  BY <1>1, <1>2, Sizes, SMT DEF Kept

LEMMA InitSafe == Init => Safe
<1> SUFFICES ASSUME Init PROVE Safe
  OBVIOUS
<1>1. /\ <<>> \in Seq(Byte) /\ <<>> \in Seq(Seq(Byte)) /\ Len(<<>>) = 0
  BY EmptySeq
<1>2. 0 \in Slot /\ 0 % RingSize = 0
  BY Sizes, SMT DEF Slot
<1>3. TypeOK
  BY <1>1, <1>2, Sizes DEF Init, TypeOK
<1>4. RingInv
  BY <1>1, <1>2, Sizes, SMT DEF Init, RingInv, Published
<1> QED
  BY <1>3, <1>4 DEF Safe

LEMMA ReadSafe ==
  ASSUME Safe, NEW b \in Byte, ReadEscaped(b) \/ ReadEscape(b) \/ ReadPlain(b)
  PROVE  Safe'
<1> USE DEF ring, history
<1>1. Elsewhere
  BY DEF ReadEscaped, ReadEscape, ReadPlain, Elsewhere
<1>2. \/ rxbuf' = rxbuf
      \/ rxbuf' = Kept(Decoded(b))
      \/ rxbuf' = Kept(<<b>>)
  BY DEF ReadEscaped, ReadEscape, ReadPlain
<1>3. \A c \in Byte : <<c>> \in Seq(Byte) /\ Len(<<c>>) = 1
  BY SMT
<1>4. <<>> \in Seq(Byte) /\ Len(<<>>) = 0
  BY EmptySeq
<1>5. Decoded(b) \in Seq(Byte) /\ Len(Decoded(b)) <= 1
  BY <1>3, <1>4, Sizes DEF Decoded
<1>6. rxbuf' \in Seq(Byte) /\ Len(rxbuf') <= RxbufSize
  <2>1. CASE rxbuf' = rxbuf
    BY <2>1 DEF Safe, TypeOK
  <2>2. CASE rxbuf' = Kept(Decoded(b))
    BY <2>2, <1>5, KeptType DEF Safe
  <2>3. CASE rxbuf' = Kept(<<b>>)
    <3>1. <<b>> \in Seq(Byte) /\ Len(<<b>>) <= 1
      BY <1>3
    <3> QED
      BY <2>3, <3>1, KeptType DEF Safe
  <2> QED
    BY <1>2, <2>1, <2>2, <2>3
<1>7. escape' \in BOOLEAN
  BY DEF ReadEscaped, ReadEscape, ReadPlain, Safe, TypeOK
<1>8. TypeOK'
  BY <1>1, <1>6, <1>7 DEF Safe, TypeOK, Elsewhere
<1> QED
  BY <1>1, <1>8, ElsewhereRing DEF Safe

(* The end of a frame: a packet is only stored in a slot that has been     *)
(* delivered.                                                              *)
LEMMA EndFrameSafe ==
  ASSUME Safe, EndFrame
  PROVE  Safe'
<1>1. <<>> \in Seq(Byte) /\ Len(<<>>) = 0
  BY EmptySeq
<1>2. /\ rxbuf' = <<>> /\ receiver = "reading"
      /\ UNCHANGED <<escape, head, tail, adding, delivered>>
  BY DEF EndFrame, AfterFrame, Read
<1>3. CASE IsPacket(rxbuf) /\ ~ Full
  <2> DEFINE p == CrcBack(rxbuf)
             n == Len(accepted)
             d == Len(delivered)
  <2>1. p \in Seq(Byte)
    BY <1>3, CrcBackType DEF IsPacket, Safe, TypeOK
  <2>2. /\ receiver' = "storing" /\ slots' = [slots EXCEPT ![head] = p]
        /\ accepted' = Append(accepted, p)
    BY <1>3 DEF EndFrame
  <2>3. /\ n \in Nat /\ d \in Nat /\ head = n % RingSize /\ tail = d % RingSize
        /\ d <= n /\ n - d < RingSize
        /\ adding => d < n
    BY <1>2, LenProperties, SMT DEF Safe, TypeOK, RingInv, Published
  <2>4. /\ accepted' \in Seq(Seq(Byte)) /\ Len(accepted') = n + 1
        /\ \A k \in 1 .. n : accepted'[k] = accepted[k]
        /\ accepted'[n + 1] = p
    BY <2>1, <2>2, SMT DEF Safe, TypeOK
  <2> HIDE DEF p, n, d
  <2>5. n + 1 - d < RingSize
    <3>1. SUFFICES ASSUME n + 1 = d + RingSize PROVE FALSE
      BY <2>3, Sizes, SMT
    <3>2. (n + 1) % RingSize = d % RingSize
      BY <2>3, <3>1, OneRound
    <3>3. NextSlot(head) = (n + 1) % RingSize
      BY <2>3, AddWrapped DEF NextSlot
    <3> QED
      BY <1>3, <2>3, <3>2, <3>3 DEF Full
  <2>6. TypeOK'
    BY <1>1, <1>2, <2>1, <2>2, <2>4, Sizes DEF Safe, TypeOK
  <2>7. ASSUME NEW k \in d + 1 .. n + 1
        PROVE  slots'[(k - 1) % RingSize] = accepted'[k]
    <3>1. k - 1 \in Nat /\ (k - 1) % RingSize \in Slot
      BY <2>3, Wrapped, SMT
    <3>2. CASE k = n + 1
      <4>1. k - 1 = n
        BY <2>3, <3>2, SMT
      <4> QED
        BY <2>2, <2>3, <2>4, <3>1, <3>2, <4>1 DEF Safe, TypeOK
    <3>3. CASE k # n + 1
      <4>1. k \in d + 1 .. n /\ k \in 1 .. n /\ k - 1 < n
        BY <2>3, <3>3, SMT
      <4>0. n - (k - 1) < RingSize
        BY <2>3, <2>5, <4>1, Sizes, SMT
      <4>2. (k - 1) % RingSize # head
        BY <2>3, <3>1, <4>0, <4>1, Apart
      <4>3. slots[(k - 1) % RingSize] = accepted[k]
        BY <4>1 DEF Safe, RingInv, n, d
      <4> QED
        BY <2>2, <2>4, <3>1, <4>1, <4>2, <4>3 DEF Safe, TypeOK
    <3> QED
      BY <3>2, <3>3
  <2>8. \A k \in 1 .. d : delivered'[k] = accepted'[k]
    BY <1>2, <2>3, <2>4, SMT DEF Safe, RingInv, n, d
  <2>9. Published' = n
    BY <2>2, <2>3, <2>4, SMT DEF Published
  <2>10. RingInv'
    <3>1. Len(delivered') = d
      BY <1>2 DEF d
    <3>2. /\ head' = n % RingSize /\ tail' = d % RingSize /\ d <= n
          /\ adding' => d < n
      BY <1>2, <2>3
    <3>3. Len(accepted') - d < RingSize
      BY <2>3, <2>4, <2>5, Sizes, SMT
    <3> QED
      BY <2>3, <2>4, <2>7, <2>8, <2>9, <3>1, <3>2, <3>3 DEF RingInv
  <2> QED
    BY <2>6, <2>10 DEF Safe
<1>4. CASE ~ (IsPacket(rxbuf) /\ ~ Full)
  <2>1. Elsewhere
    BY <1>2, <1>4 DEF EndFrame, Elsewhere
  <2>2. TypeOK'
    BY <1>1, <1>2, <2>1, Sizes DEF Safe, TypeOK, Elsewhere
  <2> QED
    BY <2>1, <2>2, ElsewhereRing DEF Safe
<1> QED
  BY <1>3, <1>4

LEMMA MoveHeadSafe ==
  ASSUME Safe, MoveHead
  PROVE  Safe'
<1> USE DEF history
<1>1. /\ receiver = "storing" /\ receiver' = "reading" /\ head' = NextSlot(head)
      /\ UNCHANGED <<rxbuf, escape, slots, tail, adding, accepted, delivered>>
  BY DEF MoveHead
<1>2. /\ Len(accepted) - 1 \in Nat /\ head = (Len(accepted) - 1) % RingSize
      /\ Len(accepted) \in Nat /\ Len(delivered) \in Nat
  BY <1>1, LenProperties DEF Safe, TypeOK, RingInv, Published
<1>3. head' = Len(accepted) % RingSize
  <2>1. (((Len(accepted) - 1) % RingSize) + 1) % RingSize = ((Len(accepted) - 1) + 1) % RingSize
    BY <1>2, AddWrapped
  <2>2. (Len(accepted) - 1) + 1 = Len(accepted)
    BY <1>2, SMT
  <2> QED
    BY <1>1, <1>2, <2>1, <2>2 DEF NextSlot
<1>4. TypeOK'
  BY <1>1, <1>2, <1>3, Wrapped DEF Safe, TypeOK
<1>5. Published' = Len(accepted) /\ Published = Len(accepted) - 1
  BY <1>1, <1>2 DEF Published
<1>6. RingInv'
  BY <1>1, <1>2, <1>3, <1>5, SMT DEF Safe, RingInv
<1> QED
  BY <1>4, <1>6 DEF Safe

LEMMA AddSafe ==
  ASSUME Safe, AddPacket
  PROVE  Safe'
<1> USE DEF history, ring
<1>1. /\ adding' = TRUE /\ head # tail
      /\ UNCHANGED <<rxbuf, escape, receiver, slots, head, tail, accepted, delivered>>
  BY DEF AddPacket
<1>2. TypeOK'
  BY <1>1 DEF Safe, TypeOK
<1>3. Len(delivered) # Published
  BY <1>1 DEF Safe, RingInv
<1>4. Len(delivered) < Published
  BY <1>3, LenProperties, SMT DEF Safe, RingInv, TypeOK
<1>5. RingInv'
  BY <1>1, <1>4 DEF Safe, RingInv, Published
<1> QED
  BY <1>2, <1>5 DEF Safe

LEMMA AddedSafe ==
  ASSUME Safe, PacketAdded
  PROVE  Safe'
<1> DEFINE d == Len(delivered)
<1>1. /\ adding /\ adding' = FALSE
      /\ delivered' = Append(delivered, slots[tail]) /\ tail' = NextSlot(tail)
      /\ UNCHANGED <<rxbuf, escape, receiver, slots, head, accepted>>
  BY DEF PacketAdded
<1>2. /\ d \in Nat /\ Len(accepted) \in Nat /\ Published \in Nat
      /\ d < Published /\ Published <= Len(accepted)
      /\ Len(accepted) - d < RingSize
      /\ tail = d % RingSize
  BY <1>1, LenProperties, SMT DEF Safe, TypeOK, RingInv, Published
<1>3. slots[tail] \in Seq(Byte) /\ slots[tail] = accepted[d + 1]
  <2>1. d + 1 \in d + 1 .. Len(accepted) /\ (d + 1) - 1 = d
    BY <1>2, SMT
  <2>2. slots[((d + 1) - 1) % RingSize] = accepted[d + 1]
    BY <2>1 DEF Safe, RingInv
  <2> QED
    BY <1>2, <2>1, <2>2 DEF Safe, TypeOK
<1>4. /\ delivered' \in Seq(Seq(Byte)) /\ Len(delivered') = d + 1
      /\ \A k \in 1 .. d : delivered'[k] = delivered[k]
      /\ delivered'[d + 1] = accepted[d + 1]
  BY <1>1, <1>3, SMT DEF Safe, TypeOK
<1>5. tail' = (d + 1) % RingSize
  BY <1>1, <1>2, AddWrapped DEF NextSlot
<1>6. TypeOK'
  <2>1. tail' \in Slot
    BY <1>2, <1>5, Wrapped
  <2> QED
    BY <1>1, <1>4, <2>1 DEF Safe, TypeOK
<1>7. \A k \in 1 .. d : delivered[k] = accepted[k]
  BY DEF Safe, RingInv
<1>8. \A k \in d + 1 .. Len(accepted) : slots[(k - 1) % RingSize] = accepted[k]
  BY DEF Safe, RingInv
<1>9. head = Published % RingSize /\ Published' = Published
  BY <1>1 DEF Safe, RingInv, Published
<1> HIDE DEF d
<1>10. \A k \in 1 .. d + 1 : delivered'[k] = accepted[k]
  BY <1>2, <1>4, <1>7, SMT
<1>11. \A k \in d + 2 .. Len(accepted) : slots[(k - 1) % RingSize] = accepted[k]
  BY <1>2, <1>8, SMT
<1>12. RingInv'
  <2>1. /\ d + 1 \in Nat /\ d + 1 <= Published /\ Len(accepted) - (d + 1) < RingSize
        /\ (d + 1) + 1 = d + 2
    BY <1>2, Sizes, SMT
  <2> QED
    BY <1>1, <1>2, <1>4, <1>5, <1>9, <1>10, <1>11, <2>1 DEF RingInv
<1> QED
  BY <1>6, <1>12 DEF Safe

LEMMA NextSafe == Safe /\ [Next]_vars => Safe'
<1> SUFFICES ASSUME Safe, [Next]_vars PROVE Safe'
  OBVIOUS
<1>1. CASE Send \/ Lose \/ UNCHANGED vars
  <2>1. Elsewhere /\ UNCHANGED <<rxbuf, escape>>
    BY <1>1 DEF Send, Lose, vars, ring, history, Elsewhere
  <2>2. TypeOK'
    BY <2>1 DEF Safe, TypeOK, Elsewhere
  <2> QED
    BY <2>1, <2>2, ElsewhereRing DEF Safe
<1>2. CASE Receive
  BY <1>2, ReadSafe, EndFrameSafe, MoveHeadSafe DEF Receive
<1> QED
  BY <1>1, <1>2, AddSafe, AddedSafe DEF Next

LEMMA AlwaysSafe == Spec => []Safe
BY InitSafe, NextSafe, PTL DEF Spec

-----------------------------------------------------------------------------
(* Every variable keeps to the values the code can give it; rxbuf is never *)
(* written behind its end.                                                 *)
THEOREM TypeCorrect == Spec => []TypeOK
<1>1. Safe => TypeOK
  BY DEF Safe
<1> QED
  BY <1>1, AlwaysSafe, PTL

(* The hub is handed what the receiver put in the ring, each packet once   *)
(* and in order, and no slot is written while the hub reads it.            *)
THEOREM RingKept == Spec => []RingInOrder
<1>1. Safe => RingInOrder
  <2> SUFFICES ASSUME Safe PROVE RingInOrder
    OBVIOUS
  <2> DEFINE d == Len(delivered)
  <2>1. /\ d \in Nat /\ Len(accepted) \in Nat /\ Published \in Nat
        /\ d <= Published /\ Len(accepted) - d < RingSize
        /\ head = Published % RingSize /\ tail = d % RingSize
    BY LenProperties DEF Safe, TypeOK, RingInv
  <2>0. Published <= Len(accepted) /\ Published - d < RingSize
    BY <2>1, Sizes, SMT DEF Published
  <2>2. (head - tail) % RingSize = Published - d
    BY <2>0, <2>1, Distance
  <2>3. Waiting = Len(accepted) - d
    <3>1. Waiting = (Published - d) + (IF receiver = "storing" THEN 1 ELSE 0)
      BY <2>2 DEF Waiting
    <3>2. Published = Len(accepted) - IF receiver = "storing" THEN 1 ELSE 0
      BY DEF Published
    <3> HIDE DEF d
    <3>3. CASE receiver = "storing"
      BY <2>1, <3>1, <3>2, <3>3, SMT
    <3>4. CASE receiver # "storing"
      BY <2>1, <3>1, <3>2, <3>4, SMT
    <3> QED
      BY <3>3, <3>4
  <2>4. ASSUME NEW k \in 1 .. Waiting
        PROVE  slots[(tail + k - 1) % RingSize] = accepted[d + k]
    <3>1. k - 1 \in Nat /\ d + k \in d + 1 .. Len(accepted) /\ (d + k) - 1 = d + (k - 1)
      BY <2>1, <2>3, SMT
    <3>2. slots[((d + k) - 1) % RingSize] = accepted[d + k]
      BY <3>1 DEF Safe, RingInv
    <3>3. ((d % RingSize) + (k - 1)) % RingSize = (d + (k - 1)) % RingSize
      BY <2>1, <3>1, AddWrapped
    <3>4. tail + k - 1 = (d % RingSize) + (k - 1)
      BY <2>1
    <3> QED
      BY <3>1, <3>2, <3>3, <3>4
  <2>5. Len(accepted) = d + Waiting
    BY <2>1, <2>3, SMT
  <2>6. \A k \in 1 .. d : delivered[k] = accepted[k]
    BY DEF Safe, RingInv
  <2> QED
    BY <2>4, <2>5, <2>6 DEF RingInOrder
<1> QED
  BY <1>1, AlwaysSafe, PTL

LEMMA Least ==
  ASSUME NEW T, T \subseteq Nat, T # {}
  PROVE  \E n \in T : \A m \in T : n <= m
<1> DEFINE R == { p \in Nat \X Nat : p[1] < p[2] }
<1>1. IsWellFoundedOn(R, Nat)
  BY NatLessThanWellFounded, Zenon DEF OpToRel
<1>2. \A x, y \in Nat : <<x, y>> \in R <=> x < y
  OBVIOUS
<1> HIDE DEF R
<1>3. PICK x \in T : \A y \in T : ~ (<<y, x>> \in R)
  BY <1>1, WFMin
<1>4. ASSUME NEW y \in T PROVE x <= y
  <2>1. x \in Nat /\ y \in Nat
    OBVIOUS
  <2>2. ~ (y < x)
    BY <1>2, <1>3, <2>1
  <2> QED BY <2>1, <2>2
<1> QED BY <1>4

LEMMA CountUp ==
  ASSUME NEW n \in Nat, NEW T, 0 \in T, \A i \in 1 .. n : i - 1 \in T => i \in T
  PROVE  \A i \in 0 .. n : i \in T
<1> DEFINE Missing == { i \in 0 .. n : i \notin T }
<1> SUFFICES ASSUME Missing # {} PROVE FALSE
  OBVIOUS
<1>1. Missing \subseteq Nat
  OBVIOUS
<1> HIDE DEF Missing
<1>2. PICK i \in Missing : \A j \in Missing : i <= j
  BY <1>1, Least
<1> USE DEF Missing
<1>3. i \in 1 .. n /\ i - 1 \in 0 .. n /\ ~ (i <= i - 1)
  OBVIOUS
<1>4. i - 1 \in T
  BY <1>2, <1>3
<1> QED BY <1>3, <1>4

Loops(f, n, S, b, G) ==
  f \in [0 .. n -> S] /\ f[0] = b /\ \A i \in 1 .. n : f[i] = G[i][f[i - 1]]

LEMMA LoopExists ==
  ASSUME NEW n, NEW S, NEW b, NEW G,
         n \in Nat, b \in S, G \in [1 .. n -> [S -> S]]
  PROVE  \E f : Loops(f, n, S, b, G)
<1> DEFINE Good(k) == { f \in [0 .. k -> S] :
                f[0] = b /\ \A i \in 1 .. k : f[i] = G[i][f[i - 1]] }
           T == { k \in 0 .. n : Good(k) = {} }
<1>1. T \subseteq Nat
  OBVIOUS
<1>2. CASE T # {}
  <2> HIDE DEF T
  <2>1. PICK k \in T : \A j \in T : k <= j
    BY <1>1, <1>2, Least
  <2> USE DEF T
  <2>2. k \in 0 .. n /\ Good(k) = {}
    OBVIOUS
  <2>3. k # 0
    <3>1. [i \in 0 .. 0 |-> b] \in Good(0)
      OBVIOUS
    <3> QED BY <2>2, <3>1
  <2>4. k \in 1 .. n /\ k - 1 \in 0 .. n /\ ~ (k <= k - 1)
    BY <2>2, <2>3
  <2>5. Good(k - 1) # {}
    BY <2>1, <2>4
  <2>6. PICK f \in [0 .. k - 1 -> S] : f[0] = b /\ \A i \in 1 .. k - 1 : f[i] = G[i][f[i - 1]]
    BY <2>5
  <2> DEFINE g == [i \in 0 .. k |-> IF i = k THEN G[k][f[k - 1]] ELSE f[i]]
  <2>7. g \in [0 .. k -> S]
    BY <2>4, <2>6
  <2>8. g[0] = b /\ \A i \in 1 .. k : g[i] = G[i][g[i - 1]]
    BY <2>4, <2>6
  <2> HIDE DEF g
  <2>9. g \in Good(k)
    BY <2>7, <2>8
  <2> QED BY <2>2, <2>9
<1>3. CASE T = {}
  <2>1. n \notin T
    BY <1>3
  <2>2. Good(n) # {}
    BY <2>1
  <2>3. PICK f : f \in Good(n)
    BY <2>2
  <2> QED BY <2>3 DEF Loops
<1> QED BY <1>2, <1>3

-----------------------------------------------------------------------------
(***************************************************************************)
(* The frame of a packet, byte by byte.  FlattenSeq is computed by         *)
(* recursion; f[i] is what it makes of the first i sequences.              *)
(***************************************************************************)
Flattening(f, s) ==
  /\ f \in [0 .. Len(s) -> Seq(Byte)]
  /\ f[0] = <<>>
  /\ \A i \in 1 .. Len(s) : f[i] = f[i - 1] \o s[i]
  /\ FlattenSeq(s) = f[Len(s)]

LEMMA FlatteningExists ==
  ASSUME NEW s \in Seq(Seq(Byte)), Len(s) > 0
  PROVE  \E f : Flattening(f, s)
<1> DEFINE n == Len(s)
           r[i \in 1 .. n] == IF i = 1 THEN s[i] ELSE r[i - 1] \o s[i]
           G == [i \in 1 .. n |-> [v \in Seq(Byte) |-> v \o s[i]]]
<1>1. n \in Nat /\ n > 0 /\ <<>> \in Seq(Byte)
  OBVIOUS
<1>2. G \in [1 .. n -> [Seq(Byte) -> Seq(Byte)]]
  OBVIOUS
<1>3. FlattenSeq(s) = r[n]
  BY <1>1 DEF FlattenSeq
<1>4. \A i \in 1 .. n : s[i] \in Seq(Byte)
  OBVIOUS
<1> HIDE DEF n, r, G
<1>5. PICK f : Loops(f, n, Seq(Byte), <<>>, G)
  BY <1>1, <1>2, LoopExists
<1>6. ASSUME NEW i \in 1 .. n PROVE f[i] = f[i - 1] \o s[i] /\ f[i - 1] \in Seq(Byte)
  <2>0. i - 1 \in 0 .. n /\ f \in [0 .. n -> Seq(Byte)]
    BY <1>1, <1>5 DEF Loops
  <2>1. f[i - 1] \in Seq(Byte)
    BY <2>0
  <2> QED BY <1>5, <2>1 DEF G, Loops
<1> DEFINE h == [i \in 1 .. n |-> f[i]]
<1>7. ASSUME NEW i \in 1 .. n
      PROVE  h[i] = IF i = 1 THEN s[i] ELSE h[i - 1] \o s[i]
  <2>1. CASE i = 1
    <3>1. f[0] = <<>>
      BY <1>5 DEF Loops
    <3>2. f[i] = f[0] \o s[i] /\ h[i] = f[i]
      <4>1. i - 1 = 0
        BY <2>1
      <4>2. f[i] = f[i - 1] \o s[i]
        BY <1>6
      <4> QED BY <4>1, <4>2
    <3>3. <<>> \o s[i] = s[i]
      BY <1>1, <1>4, ConcatEmptySeq
    <3> QED BY <2>1, <3>1, <3>2, <3>3
  <2>2. CASE i # 1
    <3>1. i - 1 \in 1 .. n
      BY <1>1, <2>2
    <3> QED BY <1>6, <2>2, <3>1
  <2> QED BY <2>1, <2>2
<1>8. h = [i \in 1 .. n |-> IF i = 1 THEN s[i] ELSE h[i - 1] \o s[i]]
  BY <1>7
<1> HIDE DEF h
<1>9. r = [i \in 1 .. n |-> IF i = 1 THEN s[i] ELSE r[i - 1] \o s[i]]
  BY <1>8, Zenon DEF r
<1> DEFINE T == { i \in 0 .. n : i = 0 \/ r[i] = h[i] }
<1>10. ASSUME NEW i \in 1 .. n, i - 1 \in T PROVE i \in T
  <2>1. CASE i = 1
    BY <1>8, <1>9, <2>1
  <2>2. CASE i # 1
    <3>1. i - 1 \in 1 .. n /\ r[i - 1] = h[i - 1]
      BY <1>1, <1>10, <2>2
    <3>2. r[i] = r[i - 1] \o s[i] /\ h[i] = h[i - 1] \o s[i]
      BY <1>8, <1>9, <2>2
    <3>3. r[i] = h[i]
      BY <3>1, <3>2, Zenon
    <3> QED BY <3>3
  <2> QED BY <2>1, <2>2
<1>11. n \in T
  <2>1. 0 \in T
    BY <1>1
  <2> HIDE DEF T
  <2>2. \A i \in 0 .. n : i \in T
    BY <1>1, <1>10, <2>1, CountUp
  <2> QED BY <1>1, <2>2
<1>12. r[n] = f[n]
  BY <1>1, <1>11 DEF h
<1>13. f \in [0 .. n -> Seq(Byte)] /\ f[0] = <<>>
  BY <1>5 DEF Loops
<1>14. Flattening(f, s)
  BY <1>3, <1>6, <1>12, <1>13 DEF Flattening, n
<1> QED BY <1>14

(* One byte of the packet, or two in its place, as the sender escapes it.  *)
LEMMA EncodedShape ==
  ASSUME NEW b \in Byte
  PROVE  LET e == Encoded(b)
         IN /\ e \in Seq(Byte)
            /\ \/ /\ b \notin {Newline, Escape} /\ Len(e) = 1 /\ e[1] = b
               \/ /\ b \in {Newline, Escape} /\ Len(e) = 2 /\ e[1] = Escape
                  /\ e[2] \in {EscapedNewline, EscapedEscape} /\ Decoded(e[2]) = <<b>>
<1>1. /\ Newline \in Byte /\ Escape \in Byte /\ EscapedNewline \in Byte /\ EscapedEscape \in Byte
      /\ Newline # Escape /\ EscapedNewline # EscapedEscape
  BY UsbBridgeAssumption DEF UsbBridgeAssumption
<1>2. CASE b = Newline
  <2>1. Encoded(b) = <<Escape, EscapedNewline>>
    BY <1>1, <1>2 DEF Encoded
  <2>2. Decoded(EscapedNewline) = <<b>>
    BY <1>1, <1>2 DEF Decoded
  <2> QED BY <1>1, <1>2, <2>1, <2>2
<1>3. CASE b = Escape
  <2>1. Encoded(b) = <<Escape, EscapedEscape>>
    BY <1>1, <1>3 DEF Encoded
  <2>2. Decoded(EscapedEscape) = <<b>>
    BY <1>1, <1>3 DEF Decoded
  <2> QED BY <1>1, <1>3, <2>1, <2>2
<1>4. CASE b \notin {Newline, Escape}
  <2>1. Encoded(b) = <<b>>
    BY <1>4 DEF Encoded
  <2> QED BY <1>4, <2>1
<1> QED BY <1>2, <1>3, <1>4

LEMMA CrcLastShape ==
  ASSUME NEW p \in Packet
  PROVE  LET u == CrcLast(p)
         IN /\ p \in Seq(Byte) /\ u \in Seq(Byte) /\ Len(u) = Len(p)
            /\ HeaderSize <= Len(u) /\ Len(u) <= MaxSize
            /\ IsPacket(u) /\ CrcBack(u) = p
<1> DEFINE n == Len(p)
           a == SubSeq(p, 1, FrontSize)
           b == SubSeq(p, HeaderSize + 1, n)
           c == SubSeq(p, FrontSize + 1, HeaderSize)
           u == CrcLast(p)
<1>1. /\ p \in Seq(Byte) /\ n \in Nat /\ HeaderSize <= n /\ n <= MaxSize
      /\ p[1] \in Preamble /\ p[2] \in HeaderLength
      /\ FrontSize \in Nat /\ HeaderSize \in Nat /\ 2 <= FrontSize /\ FrontSize < HeaderSize
  BY UsbBridgeAssumption DEF UsbBridgeAssumption
<1>2. \A i \in 1 .. n : p[i] \in Byte
  BY <1>1
<1>3. /\ a \in Seq(Byte) /\ Len(a) = FrontSize
      /\ \A i \in 1 .. FrontSize : a[i] = p[i]
  <2>1. \A i \in 1 .. FrontSize : p[i] \in Byte
    BY <1>1, <1>2
  <2> QED BY <1>1, <2>1, SubSeqProperties
<1>4. /\ b \in Seq(Byte) /\ Len(b) = n - HeaderSize
      /\ \A i \in 1 .. n - HeaderSize : b[i] = p[HeaderSize + i]
  <2>1. \A i \in HeaderSize + 1 .. n : p[i] \in Byte
    BY <1>1, <1>2
  <2> HIDE DEF n
  <2>2. /\ b \in Seq(Byte)
        /\ Len(b) = IF HeaderSize + 1 <= n THEN n - (HeaderSize + 1) + 1 ELSE 0
        /\ \A i \in 1 .. n - (HeaderSize + 1) + 1 : b[i] = p[HeaderSize + 1 + i - 1]
    BY <1>1, <2>1, SubSeqProperties
  <2> HIDE DEF b
  <2> QED BY <1>1, <2>2
<1>5. /\ c \in Seq(Byte) /\ Len(c) = HeaderSize - FrontSize
      /\ \A i \in 1 .. HeaderSize - FrontSize : c[i] = p[FrontSize + i]
  <2>1. \A i \in FrontSize + 1 .. HeaderSize : p[i] \in Byte
    BY <1>1, <1>2
  <2>2. /\ c \in Seq(Byte)
        /\ Len(c) = IF FrontSize + 1 <= HeaderSize THEN HeaderSize - (FrontSize + 1) + 1 ELSE 0
        /\ \A i \in 1 .. HeaderSize - (FrontSize + 1) + 1 : c[i] = p[FrontSize + 1 + i - 1]
    BY <1>1, <2>1, SubSeqProperties
  <2> HIDE DEF c, n
  <2> QED BY <1>1, <2>2
<1>6. u = a \o b \o c
  BY DEF CrcLast
<1> HIDE DEF n, a, b, c, u
<1>7. /\ u \in Seq(Byte) /\ Len(u) = n
      /\ \A i \in 1 .. n : u[i] = IF i <= FrontSize THEN p[i]
                                  ELSE IF i <= FrontSize + (n - HeaderSize)
                                       THEN p[HeaderSize + (i - FrontSize)]
                                       ELSE p[FrontSize + (i - (FrontSize + (n - HeaderSize)))]
  <2>1. /\ a \o b \in Seq(Byte) /\ Len(a \o b) = FrontSize + (n - HeaderSize)
        /\ \A i \in 1 .. FrontSize + (n - HeaderSize) :
             (a \o b)[i] = IF i <= FrontSize THEN a[i] ELSE b[i - FrontSize]
    <3>1. /\ a \o b \in Seq(Byte) /\ Len(a \o b) = Len(a) + Len(b)
          /\ \A i \in 1 .. Len(a) + Len(b) :
               (a \o b)[i] = IF i <= Len(a) THEN a[i] ELSE b[i - Len(a)]
      BY <1>3, <1>4, ConcatProperties
    <3>2. Len(a) + Len(b) = FrontSize + (n - HeaderSize)
      BY <1>1, <1>3, <1>4
    <3> QED BY <1>3, <3>1, <3>2
  <2>2. /\ u \in Seq(Byte) /\ Len(u) = Len(a \o b) + Len(c)
        /\ \A i \in 1 .. Len(a \o b) + Len(c) :
             u[i] = IF i <= Len(a \o b) THEN (a \o b)[i] ELSE c[i - Len(a \o b)]
    <3>1. a \o b \in Seq(Byte) /\ c \in Seq(Byte)
      BY <1>5, <2>1
    <3>2. /\ (a \o b) \o c \in Seq(Byte)
          /\ Len((a \o b) \o c) = Len(a \o b) + Len(c)
          /\ \A i \in 1 .. Len(a \o b) + Len(c) :
               ((a \o b) \o c)[i] = IF i <= Len(a \o b) THEN (a \o b)[i] ELSE c[i - Len(a \o b)]
      BY <3>1, ConcatProperties
    <3> QED BY <1>6, <3>2, Zenon
  <2>3. Len(u) = n
    <3>1. Len(u) = (FrontSize + (n - HeaderSize)) + (HeaderSize - FrontSize)
      BY <1>5, <2>1, <2>2, Zenon
    <3> QED BY <1>1, <3>1
  <2>4. ASSUME NEW i \in 1 .. n
        PROVE  u[i] = IF i <= FrontSize THEN p[i]
                      ELSE IF i <= FrontSize + (n - HeaderSize)
                           THEN p[HeaderSize + (i - FrontSize)]
                           ELSE p[FrontSize + (i - (FrontSize + (n - HeaderSize)))]
    <3>0. u[i] = IF i <= FrontSize + (n - HeaderSize) THEN (a \o b)[i]
                 ELSE c[i - (FrontSize + (n - HeaderSize))]
      <4>1. Len(a \o b) + Len(c) = n /\ Len(a \o b) = FrontSize + (n - HeaderSize)
        BY <1>1, <1>5, <2>1
      <4> QED BY <2>2, <4>1
    <3>1. CASE i <= FrontSize
      BY <1>1, <1>3, <2>1, <3>0, <3>1
    <3>2. CASE ~ (i <= FrontSize) /\ i <= FrontSize + (n - HeaderSize)
      <4>1. i - FrontSize \in 1 .. n - HeaderSize
        BY <1>1, <3>2
      <4>2. (a \o b)[i] = b[i - FrontSize]
        BY <1>1, <2>1, <3>2
      <4> QED BY <1>4, <3>0, <3>2, <4>1, <4>2
    <3>3. CASE ~ (i <= FrontSize + (n - HeaderSize))
      <4>1. i - (FrontSize + (n - HeaderSize)) \in 1 .. HeaderSize - FrontSize
        BY <1>1, <3>3
      <4>2. ~ (i <= FrontSize)
        BY <1>1, <3>3
      <4> QED BY <1>5, <3>0, <3>3, <4>1, <4>2
    <3> QED BY <3>1, <3>2, <3>3
  <2> QED BY <2>2, <2>3, <2>4
<1>8. IsPacket(u)
  <2>1. u[1] = p[1] /\ u[2] = p[2]
    BY <1>1, <1>7
  <2> QED BY <1>1, <1>7, <2>1 DEF IsPacket
<1>9. CrcBack(u) = p
  <2> DEFINE m == n - HeaderSize
             A == SubSeq(u, 1, FrontSize)
             B == SubSeq(u, FrontSize + m + 1, n)
             C == SubSeq(u, FrontSize + 1, FrontSize + m)
             v == CrcBack(u)
  <2>1. v = A \o B \o C
    BY <1>7 DEF CrcBack
  <2>2. m \in Nat /\ n = HeaderSize + m
    BY <1>1
  <2>3. \A i \in 1 .. n : u[i] \in Byte
    BY <1>1, <1>7
  <2>4. /\ A \in Seq(Byte) /\ Len(A) = FrontSize
        /\ \A i \in 1 .. FrontSize : A[i] = u[i]
    <3>1. \A i \in 1 .. FrontSize : u[i] \in Byte
      BY <1>1, <2>3
    <3> QED BY <1>1, <3>1, SubSeqProperties
  <2> HIDE DEF m
  <2>5. /\ B \in Seq(Byte) /\ Len(B) = HeaderSize - FrontSize
        /\ \A i \in 1 .. HeaderSize - FrontSize : B[i] = u[FrontSize + m + i]
    <3>1. \A i \in FrontSize + m + 1 .. n : u[i] \in Byte
      BY <1>1, <2>2, <2>3
    <3>2. /\ B \in Seq(Byte)
          /\ Len(B) = IF FrontSize + m + 1 <= n THEN n - (FrontSize + m + 1) + 1 ELSE 0
          /\ \A i \in 1 .. n - (FrontSize + m + 1) + 1 : B[i] = u[FrontSize + m + 1 + i - 1]
      BY <1>1, <2>2, <3>1, SubSeqProperties
    <3> HIDE DEF B
    <3> QED BY <1>1, <2>2, <3>2
  <2>6. /\ C \in Seq(Byte) /\ Len(C) = m
        /\ \A i \in 1 .. m : C[i] = u[FrontSize + i]
    <3>1. \A i \in FrontSize + 1 .. FrontSize + m : u[i] \in Byte
      BY <1>1, <2>2, <2>3
    <3>2. /\ C \in Seq(Byte)
          /\ Len(C) = IF FrontSize + 1 <= FrontSize + m THEN FrontSize + m - (FrontSize + 1) + 1 ELSE 0
          /\ \A i \in 1 .. FrontSize + m - (FrontSize + 1) + 1 : C[i] = u[FrontSize + 1 + i - 1]
      BY <1>1, <2>2, <3>1, SubSeqProperties
    <3> HIDE DEF C
    <3>3. FrontSize + m - (FrontSize + 1) + 1 = m
      BY <1>1, <2>2
    <3>4. Len(C) = m
      BY <1>1, <2>2, <3>2
    <3>5. ASSUME NEW i \in 1 .. m PROVE C[i] = u[FrontSize + i]
      <4>1. FrontSize + 1 + i - 1 = FrontSize + i
        BY <1>1, <2>2
      <4> QED BY <3>2, <3>3, <4>1
    <3> QED BY <3>2, <3>4, <3>5
  <2> HIDE DEF A, B, C, v
  <2>7. /\ A \o B \in Seq(Byte) /\ Len(A \o B) = HeaderSize
        /\ \A i \in 1 .. HeaderSize : (A \o B)[i] = IF i <= FrontSize THEN A[i] ELSE B[i - FrontSize]
    <3>1. /\ A \o B \in Seq(Byte) /\ Len(A \o B) = Len(A) + Len(B)
          /\ \A i \in 1 .. Len(A) + Len(B) : (A \o B)[i] = IF i <= Len(A) THEN A[i] ELSE B[i - Len(A)]
      BY <2>4, <2>5, ConcatProperties
    <3>2. Len(A) + Len(B) = HeaderSize
      BY <1>1, <2>4, <2>5
    <3> QED BY <2>4, <3>1, <3>2
  <2>8. /\ v \in Seq(Byte) /\ Len(v) = n
        /\ \A i \in 1 .. n : v[i] = IF i <= HeaderSize THEN (A \o B)[i] ELSE C[i - HeaderSize]
    <3>1. /\ v \in Seq(Byte) /\ Len(v) = Len(A \o B) + Len(C)
          /\ \A i \in 1 .. Len(A \o B) + Len(C) :
               v[i] = IF i <= Len(A \o B) THEN (A \o B)[i] ELSE C[i - Len(A \o B)]
      BY <2>1, <2>6, <2>7, ConcatProperties
    <3> QED BY <2>2, <2>6, <2>7, <3>1
  <2>9. ASSUME NEW i \in 1 .. n PROVE v[i] = p[i]
    <3>1. CASE i <= FrontSize
      <4>1. v[i] = u[i]
        BY <1>1, <2>4, <2>7, <2>8, <3>1
      <4> QED BY <1>7, <3>1, <4>1
    <3>2. CASE ~ (i <= FrontSize) /\ i <= HeaderSize
      <4>1. i - FrontSize \in 1 .. HeaderSize - FrontSize /\ i \in 1 .. HeaderSize
        BY <1>1, <3>2
      <4>2. v[i] = u[FrontSize + m + (i - FrontSize)]
        BY <2>5, <2>7, <2>8, <3>2, <4>1
      <4> DEFINE j == FrontSize + m + (i - FrontSize)
      <4>3. /\ j \in 1 .. n /\ ~ (j <= FrontSize) /\ ~ (j <= FrontSize + (n - HeaderSize))
            /\ FrontSize + (j - (FrontSize + (n - HeaderSize))) = i
        BY <1>1, <2>2, <3>2, <4>1
      <4> HIDE DEF j
      <4>4. u[j] = p[FrontSize + (j - (FrontSize + (n - HeaderSize)))]
        BY <1>7, <4>3
      <4> QED BY <4>2, <4>3, <4>4 DEF j
    <3>3. CASE ~ (i <= HeaderSize)
      <4>1. i - HeaderSize \in 1 .. m
        BY <1>1, <2>2, <3>3
      <4>2. v[i] = u[FrontSize + (i - HeaderSize)]
        BY <2>6, <2>8, <3>3, <4>1
      <4> DEFINE j == FrontSize + (i - HeaderSize)
      <4>3. /\ j \in 1 .. n /\ ~ (j <= FrontSize) /\ j <= FrontSize + (n - HeaderSize)
            /\ HeaderSize + (j - FrontSize) = i
        BY <1>1, <2>2, <3>3, <4>1
      <4> HIDE DEF j
      <4>4. u[j] = p[HeaderSize + (j - FrontSize)]
        BY <1>7, <4>3
      <4> QED BY <4>2, <4>3, <4>4 DEF j
    <3> QED BY <3>1, <3>2, <3>3
  <2>10. Len(v) = Len(p)
    BY <2>8 DEF n
  <2>11. v = p
    BY <1>1, <2>8, <2>9, <2>10, SeqEqual DEF n
  <2> QED BY <2>11 DEF v
<1> QED BY <1>1, <1>7, <1>8, <1>9 DEF n, u

(* e[m] bytes of the frame stand for the first m bytes of the packet.      *)
Encoding(e, p) ==
  LET u == CrcLast(p)
      w == Frame(p)
  IN /\ e \in [0 .. Len(p) -> Nat] /\ e[0] = 0
     /\ w \in Seq(Byte) /\ Len(w) = e[Len(p)] + 1 /\ w[Len(w)] = Newline
     /\ \A m \in 1 .. Len(p) :
          /\ e[m] = e[m - 1] + Len(Encoded(u[m])) /\ e[m] < Len(w)
          /\ \A j \in 1 .. Len(Encoded(u[m])) : w[e[m - 1] + j] = Encoded(u[m])[j]

LEMMA EncodingExists ==
  ASSUME NEW p \in Packet
  PROVE  \E e : Encoding(e, p)
<1> DEFINE n == Len(p)
           u == CrcLast(p)
           s == [i \in 1 .. n |-> Encoded(u[i])]
           w == Frame(p)
<1>1. /\ n \in Nat /\ n > 0 /\ u \in Seq(Byte) /\ Len(u) = n /\ Newline \in Byte
  BY CrcLastShape, UsbBridgeAssumption DEF UsbBridgeAssumption
<1>2. \A i \in 1 .. n : Encoded(u[i]) \in Seq(Byte)
  <2> SUFFICES ASSUME NEW i \in 1 .. n PROVE Encoded(u[i]) \in Seq(Byte)
    OBVIOUS
  <2>1. u[i] \in Byte
    BY <1>1
  <2> QED BY <2>1, EncodedShape
<1>3. s \in Seq(Seq(Byte)) /\ Len(s) = n
  BY <1>1, <1>2
<1>4. w = FlattenSeq(s) \o <<Newline>>
  BY DEF Frame
<1>5. \A i \in 1 .. n : s[i] = Encoded(u[i])
  OBVIOUS
<1> HIDE DEF n, u, s, w
<1>6. PICK f : Flattening(f, s)
  BY <1>1, <1>3, FlatteningExists
<1>7. /\ f \in [0 .. n -> Seq(Byte)] /\ f[0] = <<>>
      /\ \A i \in 1 .. n : f[i] = f[i - 1] \o s[i]
      /\ w = f[n] \o <<Newline>>
  BY <1>3, <1>4, <1>6 DEF Flattening
<1> DEFINE e == [m \in 0 .. n |-> Len(f[m])]
           z == [m \in 1 .. n |-> Len(s[m])]
<1>8. /\ e \in [0 .. n -> Nat] /\ e[0] = 0 /\ z \in [1 .. n -> Nat]
      /\ \A m \in 0 .. n : e[m] = Len(f[m])
      /\ \A m \in 1 .. n : z[m] = Len(s[m])
  <2>1. (\A m \in 0 .. n : Len(f[m]) \in Nat) /\ Len(f[0]) = 0
    BY <1>1, <1>7
  <2>2. \A m \in 1 .. n : Len(s[m]) \in Nat
    BY <1>3
  <2> QED BY <1>1, <2>1, <2>2
<1> HIDE DEF e, z
<1>9. ASSUME NEW m \in 1 .. n
      PROVE  /\ e[m] \in Nat /\ e[m - 1] \in Nat /\ z[m] \in Nat
             /\ e[m] = e[m - 1] + z[m]
             /\ \A j \in 1 .. e[m] : f[m][j] = IF j <= e[m - 1] THEN f[m - 1][j]
                                               ELSE s[m][j - e[m - 1]]
  <2>1. m \in 0 .. n /\ m - 1 \in 0 .. n
    BY <1>1
  <2>2. f[m] \in Seq(Byte) /\ f[m - 1] \in Seq(Byte) /\ s[m] \in Seq(Byte)
    BY <1>2, <1>5, <1>7, <2>1
  <2>3. f[m] = f[m - 1] \o s[m]
    BY <1>7
  <2>4. /\ Len(f[m - 1] \o s[m]) = Len(f[m - 1]) + Len(s[m])
        /\ \A j \in 1 .. Len(f[m - 1]) + Len(s[m]) :
             (f[m - 1] \o s[m])[j] = IF j <= Len(f[m - 1]) THEN f[m - 1][j]
                                     ELSE s[m][j - Len(f[m - 1])]
    BY <2>2, ConcatProperties
  <2>5. e[m] = Len(f[m]) /\ e[m - 1] = Len(f[m - 1]) /\ z[m] = Len(s[m])
    BY <1>8, <2>1
  <2>6. e[m] = e[m - 1] + z[m]
    BY <2>3, <2>4, <2>5, Zenon
  <2>7. \A j \in 1 .. e[m] : f[m][j] = IF j <= e[m - 1] THEN f[m - 1][j]
                                       ELSE s[m][j - e[m - 1]]
    BY <2>3, <2>4, <2>5, Zenon
  <2>8. e[m] \in Nat /\ e[m - 1] \in Nat /\ z[m] \in Nat
    BY <1>8, <2>1
  <2> QED BY <2>6, <2>7, <2>8
<1> DEFINE T == { d \in 0 .. n : /\ e[n - d] <= e[n]
                                 /\ \A j \in 1 .. e[n - d] : f[n][j] = f[n - d][j] }
<1>10. 0 \in T
  <2>1. n - 0 = n /\ e[n] \in Nat
    BY <1>1, <1>8
  <2> QED BY <1>1, <2>1
<1>11. ASSUME NEW d \in 1 .. n, d - 1 \in T PROVE d \in T
  <2> DEFINE m == n - (d - 1)
  <2>1. m \in 1 .. n /\ m - 1 = n - d /\ d \in 0 .. n
    BY <1>1
  <2>2. e[m] <= e[n] /\ \A j \in 1 .. e[m] : f[n][j] = f[m][j]
    BY <1>11
  <2> HIDE DEF m, T
  <2>3. /\ e[m] \in Nat /\ e[m - 1] \in Nat /\ z[m] \in Nat /\ e[n] \in Nat
        /\ e[m] = e[m - 1] + z[m]
    BY <1>1, <1>8, <1>9, <2>1
  <2>4. e[m - 1] <= e[n]
    BY <2>2, <2>3
  <2>5. ASSUME NEW j \in 1 .. e[m - 1] PROVE f[n][j] = f[m - 1][j]
    <3>1. j \in 1 .. e[m] /\ j <= e[m - 1]
      BY <2>3
    <3>2. f[m][j] = f[m - 1][j]
      BY <1>9, <2>1, <3>1
    <3> QED BY <2>2, <3>1, <3>2
  <2> QED BY <2>1, <2>4, <2>5 DEF T
<1>12. \A d \in 0 .. n : d \in T
  <2> HIDE DEF T
  <2> QED BY <1>1, <1>10, <1>11, CountUp
<1>13. ASSUME NEW m \in 1 .. n
       PROVE  e[m] <= e[n] /\ \A j \in 1 .. e[m] : f[n][j] = f[m][j]
  <2> DEFINE d == n - m
  <2>1. d \in 0 .. n /\ n - d = m
    BY <1>1
  <2> HIDE DEF d
  <2>2. d \in T
    BY <1>12, <2>1
  <2> QED BY <2>1, <2>2
<1> HIDE DEF T
<1>14. /\ e[n] \in Nat
       /\ w \in Seq(Byte) /\ Len(w) = e[n] + 1 /\ w[Len(w)] = Newline
       /\ \A j \in 1 .. e[n] : w[j] = f[n][j]
  <2>1. f[n] \in Seq(Byte) /\ <<Newline>> \in Seq(Byte) /\ e[n] = Len(f[n]) /\ e[n] \in Nat
    BY <1>1, <1>7, <1>8
  <2>2. /\ w \in Seq(Byte) /\ Len(w) = Len(f[n]) + Len(<<Newline>>)
        /\ \A j \in 1 .. Len(f[n]) + Len(<<Newline>>) :
             w[j] = IF j <= Len(f[n]) THEN f[n][j] ELSE <<Newline>>[j - Len(f[n])]
    BY <1>7, <2>1, ConcatProperties
  <2>3. Len(<<Newline>>) = 1 /\ <<Newline>>[1] = Newline
    OBVIOUS
  <2>4. /\ Len(w) = e[n] + 1
        /\ \A j \in 1 .. e[n] + 1 :
             w[j] = IF j <= e[n] THEN f[n][j] ELSE <<Newline>>[j - e[n]]
    BY <2>1, <2>2, <2>3, Zenon
  <2>5. e[n] + 1 \in 1 .. e[n] + 1 /\ ~ (e[n] + 1 <= e[n]) /\ e[n] + 1 - e[n] = 1
    BY <2>1
  <2>6. w[e[n] + 1] = Newline
    <3>1. PICK k : k = e[n] + 1
      OBVIOUS
    <3>2. k \in 1 .. e[n] + 1 /\ ~ (k <= e[n]) /\ k - e[n] = 1
      BY <2>1, <3>1
    <3>3. w[k] = <<Newline>>[k - e[n]]
      BY <2>4, <3>2, Zenon
    <3> QED BY <2>3, <3>1, <3>2, <3>3, Zenon
  <2>7. \A j \in 1 .. e[n] : w[j] = f[n][j]
    BY <2>1, <2>4
  <2> QED BY <2>1, <2>2, <2>4, <2>6, <2>7
<1>15. ASSUME NEW m \in 1 .. n
       PROVE  /\ e[m] = e[m - 1] + Len(Encoded(u[m])) /\ e[m] < Len(w)
              /\ \A j \in 1 .. Len(Encoded(u[m])) : w[e[m - 1] + j] = Encoded(u[m])[j]
  <2>1. s[m] = Encoded(u[m]) /\ z[m] = Len(s[m])
    BY <1>5, <1>8
  <2>2. /\ e[m] \in Nat /\ e[m - 1] \in Nat /\ z[m] \in Nat /\ e[n] \in Nat
        /\ e[m] = e[m - 1] + z[m] /\ e[m] <= e[n] /\ Len(w) = e[n] + 1
    BY <1>9, <1>13, <1>14
  <2>3. e[m] < Len(w)
    BY <2>2
  <2>4. ASSUME NEW j \in 1 .. z[m] PROVE w[e[m - 1] + j] = s[m][j]
    <3> DEFINE k == e[m - 1] + j
    <3>1. /\ k \in 1 .. e[m] /\ k \in 1 .. e[n]
          /\ ~ (k <= e[m - 1]) /\ k - e[m - 1] = j
      BY <2>2
    <3> HIDE DEF k
    <3>2. f[m][k] = s[m][k - e[m - 1]]
      BY <1>9, <3>1
    <3>3. w[k] = f[n][k] /\ f[n][k] = f[m][k]
      BY <1>13, <1>14, <3>1
    <3> QED BY <3>1, <3>2, <3>3 DEF k
  <2>5. e[m] = e[m - 1] + Len(Encoded(u[m]))
    BY <2>1, <2>2, Zenon
  <2>6. \A j \in 1 .. Len(Encoded(u[m])) : w[e[m - 1] + j] = Encoded(u[m])[j]
    BY <2>1, <2>4, Zenon
  <2> QED BY <2>3, <2>5, <2>6
<1>16. Encoding(e, p)
  BY <1>8, <1>14, <1>15 DEF Encoding, n, u, w
<1> QED BY <1>16

-----------------------------------------------------------------------------
(***************************************************************************)
(* Where the line is in what has been sent: the byte at j is the byte      *)
(* off[j] of the frame of packet of[j].  The entry behind the last byte is *)
(* the first byte of the next packet.                                      *)
(***************************************************************************)
Route(of, off, l, s) ==
  /\ of \in [1 .. Len(l) + 1 -> Nat] /\ off \in [1 .. Len(l) + 1 -> Nat]
  /\ of[Len(l) + 1] = Len(s) + 1 /\ off[Len(l) + 1] = 1
  /\ \A j \in 1 .. Len(l) :
       LET w == Frame(s[of[j]])
       IN /\ of[j] \in 1 .. Len(s) /\ off[j] \in 1 .. Len(w)
          /\ l[j].of = of[j] /\ l[j].byte = w[off[j]]
          /\ IF off[j] = Len(w) THEN of[j + 1] = of[j] + 1 /\ off[j + 1] = 1
             ELSE of[j + 1] = of[j] /\ off[j + 1] = off[j] + 1

(* What has been read of packet p, of which byte k of the frame comes      *)
(* next: the bytes of the packet up to m, and if z also an escape.         *)
ReadUpTo(p, e, m, k, r, z) ==
  LET u == CrcLast(p)
  IN /\ m \in 0 .. Len(p)
     /\ r = SubSeq(u, 1, m)
     /\ \/ ~ z /\ k = e[m] + 1
        \/ z /\ m < Len(p) /\ u[m + 1] \in {Newline, Escape} /\ k = e[m] + 2

InStep(p, k, r, z) == \E e, m : Encoding(e, p) /\ ReadUpTo(p, e, m, k, r, z)

Clean(c, h) == c \notin h /\ (c > 1 => c - 1 \notin h)

(* The receiver, with byte k of packet c coming next, r in rxbuf, z saying *)
(* whether an escape has been read, and h harmed: it may be out of         *)
(* step behind a packet that was harmed, but not on an escape that has     *)
(* been read already.                                                      *)
NotCutOff(c, k, z, s, h) == c \notin h /\ k > 1 /\ z => Frame(s[c])[k - 1] = Escape
Fresh(c, k, r, z, h) == k = 1 /\ (c > 1 => c - 1 \notin h) => r = <<>> /\ ~ z
Following(c, k, r, z, s, h) == k > 1 /\ Clean(c, h) => InStep(s[c], k, r, z)

Tracking(c, k, r, z, s, h) ==
  NotCutOff(c, k, z, s, h) /\ Fresh(c, k, r, z, h) /\ Following(c, k, r, z, s, h)

TrackingNow(c, k) == Tracking(c, k, rxbuf, escape, sent, harmed)

LineInv ==
  /\ sent \in Seq(Packet) /\ ended \subseteq 1 .. Len(sent)
  /\ line \in Seq([byte : Byte, of : Nat])
  /\ \E of, off : Route(of, off, line, sent) /\ TrackingNow(of[1], off[1])

Synchronised == LineInv /\ Resynchronises

(* Steps that leave the line and the receiver alone.                       *)
LineElsewhere ==
  UNCHANGED <<line, rxbuf, escape, sent, harmed, ended, refused, arrived>>

LEMMA LineElsewhereKeeps ==
  ASSUME Synchronised, LineElsewhere
  PROVE  Synchronised'
<1>1. PICK of, off : Route(of, off, line, sent) /\ TrackingNow(of[1], off[1])
  BY DEF Synchronised, LineInv
<1>2. Route(of, off, line', sent')
  BY <1>1 DEF Route, LineElsewhere
<1>3. Tracking(of[1], off[1], rxbuf', escape', sent', harmed')
  BY <1>1 DEF TrackingNow, LineElsewhere
<1>4. Resynchronises'
  BY DEF Synchronised, LineElsewhere, Resynchronises, Whole
<1>5. LineInv'
  BY <1>2, <1>3 DEF Synchronised, LineInv, LineElsewhere, TrackingNow
<1> QED BY <1>4, <1>5 DEF Synchronised

(* One byte less on the line.                                              *)
Advanced(of, off) ==
  \E a, b : Route(a, b, line', sent') /\ a[1] = of[2] /\ b[1] = off[2]

LEMMA RouteTail ==
  ASSUME NEW of, NEW off, Route(of, off, line, sent), line \in Seq([byte : Byte, of : Nat]),
         line # <<>>, line' = Tail(line), sent' = sent
  PROVE  Advanced(of, off)
<1>1. PICK n : n = Len(line)
  OBVIOUS
<1>2. n \in Nat /\ n > 0 /\ Len(line') = n - 1
  BY <1>1
<1>3. \A j \in 1 .. n - 1 : line'[j] = line[j + 1]
  BY <1>1, <1>2
<1>0. PICK a, b : a = [j \in 1 .. n |-> of[j + 1]] /\ b = [j \in 1 .. n |-> off[j + 1]]
  OBVIOUS
<1>4. /\ a \in [1 .. n -> Nat] /\ b \in [1 .. n -> Nat]
      /\ a[n] = Len(sent') + 1 /\ b[n] = 1
  <2>1. /\ of \in [1 .. n + 1 -> Nat] /\ off \in [1 .. n + 1 -> Nat]
        /\ of[n + 1] = Len(sent) + 1 /\ off[n + 1] = 1
    BY <1>1 DEF Route
  <2>2. \A j \in 1 .. n : j + 1 \in 1 .. n + 1
    BY <1>2
  <2>3. a \in [1 .. n -> Nat] /\ b \in [1 .. n -> Nat]
    BY <1>0, <2>1, <2>2
  <2>4. n \in 1 .. n
    BY <1>2
  <2> QED BY <1>0, <2>1, <2>3, <2>4
<1>5. ASSUME NEW j \in 1 .. n - 1
      PROVE  LET w == Frame(sent'[a[j]])
             IN /\ a[j] \in 1 .. Len(sent') /\ b[j] \in 1 .. Len(w)
                /\ line'[j].of = a[j] /\ line'[j].byte = w[b[j]]
                /\ IF b[j] = Len(w) THEN a[j + 1] = a[j] + 1 /\ b[j + 1] = 1
                   ELSE a[j + 1] = a[j] /\ b[j + 1] = b[j] + 1
  <2>1. j \in 1 .. n /\ j + 1 \in 1 .. n /\ line'[j] = line[j + 1]
    BY <1>2, <1>3
  <2>2. a[j] = of[j + 1] /\ b[j] = off[j + 1] /\ a[j + 1] = of[j + 1 + 1] /\ b[j + 1] = off[j + 1 + 1]
    BY <1>0, <2>1
  <2> QED BY <1>1, <2>1, <2>2 DEF Route
<1>6. 1 .. Len(line') = 1 .. n - 1 /\ 1 .. Len(line') + 1 = 1 .. n /\ Len(line') + 1 = n
  BY <1>2
<1>7. Route(a, b, line', sent')
  <2>1. /\ a \in [1 .. Len(line') + 1 -> Nat] /\ b \in [1 .. Len(line') + 1 -> Nat]
        /\ a[Len(line') + 1] = Len(sent') + 1 /\ b[Len(line') + 1] = 1
    BY <1>4, <1>6
  <2>2. ASSUME NEW j \in 1 .. Len(line')
        PROVE  LET w == Frame(sent'[a[j]])
               IN /\ a[j] \in 1 .. Len(sent') /\ b[j] \in 1 .. Len(w)
                  /\ line'[j].of = a[j] /\ line'[j].byte = w[b[j]]
                  /\ IF b[j] = Len(w) THEN a[j + 1] = a[j] + 1 /\ b[j + 1] = 1
                     ELSE a[j + 1] = a[j] /\ b[j + 1] = b[j] + 1
    <3>1. j \in 1 .. n - 1
      BY <1>6
    <3> QED BY <1>5, <3>1
  <2> QED BY <2>1, <2>2, Zenon DEF Route
<1>8. a[1] = of[2] /\ b[1] = off[2]
  <2>1. 1 \in 1 .. n /\ 1 + 1 = 2
    BY <1>2
  <2> QED BY <1>0, <2>1
<1> QED BY <1>7, <1>8 DEF Advanced

(* What the receiver makes of the byte that comes next.                    *)
LEMMA HeadOfRoute ==
  ASSUME LineInv, line # <<>>, NEW of, NEW off, Route(of, off, line, sent)
  PROVE  LET c == of[1]
             k == off[1]
             w == Frame(sent[of[1]])
         IN /\ c \in 1 .. Len(sent) /\ sent[c] \in Packet /\ k \in 1 .. Len(w)
            /\ Head(line).of = c /\ Head(line).byte = w[k] /\ Head(line).byte \in Byte
            /\ IF k = Len(w) THEN of[2] = c + 1 /\ off[2] = 1 ELSE of[2] = c /\ off[2] = k + 1
<1>1. sent \in Seq(Packet) /\ line \in Seq([byte : Byte, of : Nat])
  BY DEF LineInv
<1>2. 1 \in 1 .. Len(line) /\ 1 + 1 = 2 /\ Head(line) = line[1]
  BY <1>1
<1>3. /\ of[1] \in 1 .. Len(sent) /\ off[1] \in 1 .. Len(Frame(sent[of[1]]))
      /\ line[1].of = of[1] /\ line[1].byte = Frame(sent[of[1]])[off[1]]
      /\ IF off[1] = Len(Frame(sent[of[1]])) THEN of[2] = of[1] + 1 /\ off[2] = 1
         ELSE of[2] = of[1] /\ off[2] = off[1] + 1
  BY <1>2 DEF Route
<1>4. sent[of[1]] \in Packet
  BY <1>1, <1>3
<1>5. line[1].byte \in Byte
  <2>1. line[1] \in [byte : Byte, of : Nat]
    BY <1>1, <1>2, ElementOfSeq
  <2> QED BY <2>1
<1> QED BY <1>2, <1>3, <1>4, <1>5

(* A frame has bytes before its newline, and the last of them does not     *)
(* escape it.                                                              *)
LEMMA LastByte ==
  ASSUME NEW p \in Packet
  PROVE  LET w == Frame(p)
         IN /\ w \in Seq(Byte) /\ Len(w) \in Nat /\ Len(w) > 1 /\ w[Len(w)] = Newline
            /\ w[Len(w) - 1] # Escape
<1> DEFINE n == Len(p)
           u == CrcLast(p)
           w == Frame(p)
<1>1. PICK e : Encoding(e, p)
  BY EncodingExists
<1>2. /\ n \in Nat /\ n > 0 /\ u \in Seq(Byte) /\ Len(u) = n
      /\ Escape \notin {EscapedNewline, EscapedEscape}
  <2>1. Escape \notin {EscapedNewline, EscapedEscape}
    BY UsbBridgeAssumption DEF UsbBridgeAssumption
  <2>3. n \in HeaderSize .. MaxSize /\ HeaderSize \in Nat \ {0} /\ MaxSize \in Nat
    <3>1. Len(p) \in HeaderSize .. MaxSize
      BY UsbBridgeAssumption, Zenon DEF UsbBridgeAssumption
    <3> QED BY <3>1, Sizes
  <2>2. u \in Seq(Byte) /\ Len(u) = n
    BY CrcLastShape
  <2> HIDE DEF n, u
  <2> QED BY <2>1, <2>2, <2>3
<1>3. u[n] \in Byte
  BY <1>2
<1> HIDE DEF n, u, w
<1>4. /\ e[n] \in Nat /\ e[n - 1] \in Nat /\ w \in Seq(Byte) /\ Len(w) = e[n] + 1
      /\ w[Len(w)] = Newline
      /\ e[n] = e[n - 1] + Len(Encoded(u[n]))
      /\ \A j \in 1 .. Len(Encoded(u[n])) : w[e[n - 1] + j] = Encoded(u[n])[j]
  <2>1. n \in 1 .. n /\ n \in 0 .. n /\ n - 1 \in 0 .. n
    BY <1>2
  <2> QED BY <1>1, <2>1 DEF Encoding, n, u, w
<1>5. PICK l : l = Len(Encoded(u[n]))
  OBVIOUS
<1>6. l \in {1, 2} /\ Encoded(u[n])[l] # Escape
  BY <1>2, <1>3, <1>5, EncodedShape
<1>7. l \in 1 .. l /\ e[n - 1] + l = e[n] /\ Len(w) = e[n] + 1 /\ e[n] > 0
  <2>1. e[n] = e[n - 1] + l /\ Len(w) = e[n] + 1 /\ e[n] \in Nat /\ e[n - 1] \in Nat
    BY <1>4, <1>5, Zenon
  <2> QED BY <1>6, <2>1
<1>8. w[e[n]] # Escape
  BY <1>4, <1>5, <1>6, <1>7
<1>9. Len(w) - 1 = e[n] /\ Len(w) \in Nat /\ Len(w) > 1
  BY <1>4, <1>7
<1> QED BY <1>4, <1>8, <1>9 DEF w

LEMMA Started ==
  ASSUME NEW p \in Packet, rxbuf = <<>>, ~ escape
  PROVE  InStep(p, 1, rxbuf, escape)
<1>1. PICK e : Encoding(e, p)
  BY EncodingExists
<1>2. Len(p) \in Nat /\ 0 \in 0 .. Len(p)
  BY CrcLastShape
<1>3. SubSeq(CrcLast(p), 1, 0) = <<>>
  BY SubSeqEmpty
<1>4. ReadUpTo(p, e, 0, 1, rxbuf, escape)
  BY <1>1, <1>2, <1>3 DEF ReadUpTo, Encoding
<1> QED BY <1>1, <1>4 DEF InStep

ReadStep(b) == ReadEscaped(b) \/ ReadEscape(b) \/ ReadPlain(b)

(* In step, a byte takes the receiver one byte further; only the newline   *)
(* at the end ends the frame, and then rxbuf holds the packet.             *)
LEMMA InStepReads ==
  ASSUME TypeOK, NEW p \in Packet, NEW k \in 1 .. Len(Frame(p)), InStep(p, k, rxbuf, escape),
         NEW b \in Byte, b = Frame(p)[k], Head(line).byte = b, ReadStep(b) \/ EndFrame
  PROVE  /\ k < Len(Frame(p)) => ReadStep(b) /\ b # Newline /\ InStep(p, k + 1, rxbuf', escape')
         /\ k = Len(Frame(p)) => EndFrame /\ rxbuf = CrcLast(p)
<1> DEFINE n == Len(p)
           u == CrcLast(p)
           w == Frame(p)
<1>1. PICK e, m : Encoding(e, p) /\ ReadUpTo(p, e, m, k, rxbuf, escape)
  BY DEF InStep
<1>2. /\ n \in Nat /\ u \in Seq(Byte) /\ Len(u) = n /\ n < RxbufSize /\ RxbufSize \in Nat
      /\ Newline # Escape /\ {Newline, Escape} \cap {EscapedNewline, EscapedEscape} = {}
  <2>1. /\ Len(p) \in Nat /\ Len(p) <= MaxSize /\ MaxSize \in Nat /\ MaxSize < RxbufSize
        /\ RxbufSize \in Nat /\ Newline # Escape
        /\ {Newline, Escape} \cap {EscapedNewline, EscapedEscape} = {}
    BY UsbBridgeAssumption DEF UsbBridgeAssumption
  <2>2. CrcLast(p) \in Seq(Byte) /\ Len(CrcLast(p)) = Len(p)
    BY CrcLastShape
  <2> QED BY <2>1, <2>2
<1>3. EndFrame => b = Newline /\ ~ escape
  BY DEF EndFrame, Read
<1>4. /\ ReadEscaped(b) => escape /\ rxbuf' = Kept(Decoded(b)) /\ escape' = FALSE
      /\ ReadEscape(b) => ~ escape /\ b = Escape /\ escape' = TRUE /\ rxbuf' = rxbuf
      /\ ReadPlain(b) => ~ escape /\ b \notin {Newline, Escape} /\ escape' = escape
                         /\ rxbuf' = Kept(<<b>>)
  BY DEF ReadEscaped, ReadEscape, ReadPlain
<1> HIDE DEF n, u, w
<1>5. /\ m \in 0 .. n /\ rxbuf = SubSeq(u, 1, m)
      /\ \/ ~ escape /\ k = e[m] + 1
         \/ escape /\ m < n /\ u[m + 1] \in {Newline, Escape} /\ k = e[m] + 2
  BY <1>1 DEF ReadUpTo, n, u
<1>6. /\ w \in Seq(Byte) /\ Len(w) = e[n] + 1 /\ w[Len(w)] = Newline /\ e \in [0 .. n -> Nat]
  BY <1>1 DEF Encoding, n, w
<1>7. CASE m = n
  <2>1. ~ escape /\ k = e[n] + 1 /\ k = Len(w) /\ b = Newline
    BY <1>2, <1>5, <1>6, <1>7 DEF w
  <2>2. EndFrame
    BY <1>2, <1>4, <2>1 DEF ReadStep
  <2>3. rxbuf = u
    <3>1. rxbuf = SubSeq(u, 1, Len(u))
      BY <1>2, <1>5, <1>7
    <3> QED BY <1>2, <3>1, SubSeqFull
  <2>4. ~ (k < Len(w))
    BY <1>2, <1>6, <2>1
  <2> QED BY <2>2, <2>3, <2>4 DEF w, u
<1>8. CASE m # n
  <2>1. m \in Nat /\ m + 1 \in 1 .. n /\ m + 1 \in 0 .. n /\ m + 1 - 1 = m /\ m < RxbufSize
    BY <1>2, <1>5, <1>8
  <2>2. u[m + 1] \in Byte
    BY <1>2, <2>1
  <2>3. PICK c, l : c = Encoded(u[m + 1]) /\ l = Len(c)
    OBVIOUS
  <2>4. /\ e[m] \in Nat /\ e[m + 1] \in Nat /\ e[m + 1] = e[m] + l /\ e[m + 1] < Len(w)
        /\ \A j \in 1 .. l : w[e[m] + j] = c[j]
    <3>1. e[m] \in Nat /\ e[m + 1] \in Nat
      BY <1>6, <2>1, <1>5
    <3>2. PICK q : q = m + 1
      OBVIOUS
    <3>3. q \in 1 .. n /\ q - 1 = m
      BY <2>1, <3>2
    <3>4. \A i \in 1 .. n :
            /\ e[i] = e[i - 1] + Len(Encoded(u[i])) /\ e[i] < Len(w)
            /\ \A j \in 1 .. Len(Encoded(u[i])) : w[e[i - 1] + j] = Encoded(u[i])[j]
      BY <1>1 DEF Encoding, n, u, w
    <3>5. /\ e[q] = e[q - 1] + Len(Encoded(u[q])) /\ e[q] < Len(w)
          /\ \A j \in 1 .. Len(Encoded(u[q])) : w[e[q - 1] + j] = Encoded(u[q])[j]
      BY <3>3, <3>4, Zenon
    <3>6. /\ e[m + 1] = e[m] + l /\ e[m + 1] < Len(w)
          /\ \A j \in 1 .. l : w[e[m] + j] = c[j]
      BY <2>3, <3>2, <3>3, <3>5, Zenon
    <3> QED BY <3>1, <3>6
  <2>5. SubSeq(u, 1, m + 1) = SubSeq(u, 1, m) \o <<u[m + 1]>>
    <3>1. m + 1 \in 1 .. Len(u) /\ m + 1 \in m + 1 .. Len(u) /\ 1 \in 1 .. Len(u)
          /\ m + 1 \in 1 .. Len(u)
      BY <1>2, <2>1
    <3> QED BY <1>2, <2>1, <3>1, SubSeqRecursiveSecond
  <2>6. Len(rxbuf) = m
    <3>1. \A i \in 1 .. m : u[i] \in Byte
      BY <1>2, <2>1
    <3>2. Len(SubSeq(u, 1, m)) = IF 1 <= m THEN m - 1 + 1 ELSE 0
      BY <2>1, <3>1, SubSeqProperties
    <3> QED BY <1>5, <2>1, <3>2
  <2>7. \A s : Kept(s) = rxbuf \o s
    BY <1>2, <2>1, <2>6 DEF Kept
  <2>8. CASE ~ escape /\ u[m + 1] \notin {Newline, Escape}
    <3>1. l = 1 /\ c[1] = u[m + 1]
      BY <2>2, <2>3, <2>8, EncodedShape
    <3>2. k = e[m] + 1 /\ b = u[m + 1]
      BY <1>5, <2>4, <2>8, <3>1 DEF w
    <3>3. ReadPlain(b) /\ rxbuf' = SubSeq(u, 1, m + 1) /\ ~ escape'
      <4>1. b \notin {Newline, Escape}
        BY <2>8, <3>2
      <4>2. ReadPlain(b)
        BY <1>3, <1>4, <2>8, <4>1, Zenon DEF ReadStep
      <4>3. rxbuf' = rxbuf \o <<u[m + 1]>>
        BY <1>4, <2>7, <3>2, <4>2, Zenon
      <4>4. rxbuf' = SubSeq(u, 1, m + 1)
        BY <1>5, <2>5, <4>3
      <4>5. ~ escape'
        BY <1>4, <2>8, <4>2
      <4> QED BY <4>2, <4>4, <4>5
    <3>4. k + 1 = e[m + 1] + 1 /\ k < Len(w) /\ k # Len(w)
      BY <1>6, <2>4, <3>1, <3>2
    <3>5. ReadUpTo(p, e, m + 1, k + 1, rxbuf', escape')
      BY <2>1, <3>3, <3>4 DEF ReadUpTo, u, n
    <3> QED BY <1>1, <2>8, <3>2, <3>3, <3>4, <3>5 DEF InStep, w, ReadStep
  <2>9. CASE ~ escape /\ u[m + 1] \in {Newline, Escape}
    <3>1. l = 2 /\ c[1] = Escape
      BY <2>2, <2>3, <2>9, EncodedShape
    <3>2. k = e[m] + 1 /\ b = Escape
      BY <1>5, <2>4, <2>9, <3>1 DEF w
    <3>3. ReadEscape(b) /\ rxbuf' = SubSeq(u, 1, m) /\ escape'
      BY <1>2, <1>3, <1>4, <1>5, <2>9, <3>2 DEF ReadStep
    <3>4. k + 1 = e[m] + 2 /\ k < Len(w) /\ k # Len(w) /\ m < n
      BY <1>2, <1>6, <2>1, <2>4, <3>1, <3>2
    <3>5. ReadUpTo(p, e, m, k + 1, rxbuf', escape')
      BY <1>5, <2>9, <3>3, <3>4 DEF ReadUpTo, u, n
    <3> QED BY <1>1, <1>2, <3>2, <3>3, <3>4, <3>5 DEF InStep, w, ReadStep
  <2>10. CASE escape
    <3>1. k = e[m] + 2 /\ u[m + 1] \in {Newline, Escape}
      BY <1>5, <2>10
    <3>2. l = 2 /\ c[2] \in {EscapedNewline, EscapedEscape} /\ Decoded(c[2]) = <<u[m + 1]>>
      BY <2>2, <2>3, <3>1, EncodedShape
    <3>3. b = c[2] /\ b # Newline
      <4>1. 2 \in 1 .. l
        BY <3>2
      <4>2. w[e[m] + 2] = c[2]
        BY <2>4, <4>1
      <4>3. b = c[2]
        BY <3>1, <4>2 DEF w
      <4> QED BY <1>2, <3>2, <4>3
    <3>4. ReadEscaped(b) /\ rxbuf' = SubSeq(u, 1, m + 1) /\ ~ escape'
      BY <1>3, <1>4, <1>5, <2>5, <2>7, <2>10, <3>2, <3>3 DEF ReadStep
    <3>5. k + 1 = e[m + 1] + 1 /\ k < Len(w) /\ k # Len(w)
      BY <1>6, <2>4, <3>1, <3>2
    <3>6. ReadUpTo(p, e, m + 1, k + 1, rxbuf', escape')
      BY <2>1, <3>4, <3>5 DEF ReadUpTo, u, n
    <3> QED BY <1>1, <3>3, <3>4, <3>5, <3>6 DEF InStep, w, ReadStep
  <2> QED BY <2>8, <2>9, <2>10
<1> QED BY <1>7, <1>8

LEMMA ReadKeeps ==
  ASSUME TypeOK, Synchronised, NEW x \in Byte, ReadStep(x) \/ (EndFrame /\ x = Newline)
  PROVE  Synchronised'
<1>0. LineInv
  BY DEF Synchronised
<1>1. PICK of, off : Route(of, off, line, sent) /\ TrackingNow(of[1], off[1])
  BY <1>0 DEF LineInv
<1>2. /\ line # <<>> /\ x = Head(line).byte /\ line' = Tail(line)
      /\ UNCHANGED <<sent, harmed>>
  BY DEF ReadStep, ReadEscaped, ReadEscape, ReadPlain, EndFrame, Read, history
<1>3. PICK c, k, w : c = of[1] /\ k = off[1] /\ w = Frame(sent[of[1]])
  OBVIOUS
<1>4. /\ c \in 1 .. Len(sent) /\ sent[c] \in Packet /\ k \in 1 .. Len(w)
      /\ Head(line).of = c /\ x = w[k]
      /\ IF k = Len(w) THEN of[2] = c + 1 /\ off[2] = 1 ELSE of[2] = c /\ off[2] = k + 1
  BY <1>0, <1>1, <1>2, <1>3, HeadOfRoute, Zenon
<1>5. PICK a, b : Route(a, b, line', sent') /\ a[1] = of[2] /\ b[1] = off[2]
  <2>1. line \in Seq([byte : Byte, of : Nat]) /\ Route(of, off, line, sent) /\ sent' = sent
    BY <1>0, <1>1, <1>2 DEF LineInv
  <2>2. line # <<>> /\ line' = Tail(line)
    BY <1>2
  <2>3. Advanced(of, off)
    BY <2>1, <2>2, RouteTail
  <2> QED BY <2>3 DEF Advanced
<1>6. w = Frame(sent[c]) /\ Tracking(c, k, rxbuf, escape, sent, harmed)
  BY <1>1, <1>3 DEF TrackingNow
<1>7. w \in Seq(Byte) /\ Len(w) \in Nat /\ Len(w) > 1 /\ w[Len(w)] = Newline /\ w[Len(w) - 1] # Escape
  BY <1>4, <1>6, LastByte
<1>8. /\ ReadEscaped(x) => escape /\ escape' = FALSE
      /\ ReadEscape(x) => x = Escape /\ escape' = TRUE
      /\ ReadPlain(x) => x \notin {Newline, Escape} /\ ~ escape /\ escape' = escape
      /\ EndFrame => ~ escape /\ escape' = escape /\ rxbuf' = <<>>
      /\ Newline # Escape
  BY Sizes, UsbBridgeAssumption
  DEF ReadEscaped, ReadEscape, ReadPlain, EndFrame, AfterFrame, UsbBridgeAssumption
<1>9. ASSUME Clean(c, harmed)
      PROVE  /\ k < Len(w) => ReadStep(x) /\ x # Newline /\ InStep(sent[c], k + 1, rxbuf', escape')
             /\ k = Len(w) => EndFrame /\ rxbuf = CrcLast(sent[c])
  <2>1. InStep(sent[c], k, rxbuf, escape)
    <3>1. CASE k = 1
      <4>1. rxbuf = <<>> /\ ~ escape
        BY <1>6, <1>9, <3>1 DEF Tracking, Clean, Fresh
      <4> QED BY <1>4, <3>1, <4>1, Started
    <3>2. CASE k # 1
      <4>1. k > 1
        BY <1>4, <1>7, <3>2
      <4> QED BY <1>6, <1>9, <4>1 DEF Tracking, NotCutOff, Fresh, Following
    <3> QED BY <3>1, <3>2
  <2>2. PICK p : p = sent[c]
    OBVIOUS
  <2>3. /\ p \in Packet /\ k \in 1 .. Len(Frame(p)) /\ InStep(p, k, rxbuf, escape)
        /\ x = Frame(p)[k] /\ Head(line).byte = x /\ (ReadStep(x) \/ EndFrame)
    BY <1>2, <1>4, <1>6, <2>1, <2>2
  <2>4. /\ k < Len(Frame(p)) => ReadStep(x) /\ x # Newline /\ InStep(p, k + 1, rxbuf', escape')
        /\ k = Len(Frame(p)) => EndFrame /\ rxbuf = CrcLast(p)
    BY <2>3, InStepReads
  <2> QED BY <1>6, <2>2, <2>4
<1>10. Tracking(a[1], b[1], rxbuf', escape', sent, harmed)
  <2>1. CASE k = Len(w)
    <3>1. a[1] = c + 1 /\ b[1] = 1 /\ ~ (1 > 1)
      BY <1>4, <1>5, <2>1
    <3>2. ASSUME c \notin harmed PROVE rxbuf' = <<>> /\ ~ escape'
      <4>1. k > 1 /\ x = Newline
        BY <1>4, <1>7, <2>1
      <4>2. ~ escape
        BY <1>6, <1>7, <2>1, <3>2, <4>1 DEF Tracking, NotCutOff, Fresh, Following
      <4>3. EndFrame
        BY <1>8, <4>1, <4>2 DEF ReadStep
      <4> QED BY <1>8, <4>2, <4>3
    <3>3. c + 1 > 1 /\ (c + 1) - 1 = c
      BY <1>4
    <3>4. Tracking(c + 1, 1, rxbuf', escape', sent, harmed)
      <4>4. NotCutOff(c + 1, 1, escape', sent, harmed)
        BY <3>1 DEF NotCutOff
      <4>5. Fresh(c + 1, 1, rxbuf', escape', harmed)
        <5> SUFFICES ASSUME (c + 1) - 1 \notin harmed PROVE rxbuf' = <<>> /\ ~ escape'
          BY <3>3 DEF Fresh
        <5>1. c \notin harmed
          BY <3>3, Zenon
        <5> QED BY <3>2, <5>1
      <4>6. Following(c + 1, 1, rxbuf', escape', sent, harmed)
        BY <3>1 DEF Following
      <4> QED BY <4>4, <4>5, <4>6 DEF Tracking
    <3> QED BY <3>1, <3>4
  <2>2. CASE k # Len(w)
    <3>1. a[1] = c /\ b[1] = k + 1 /\ k < Len(w) /\ (k + 1) - 1 = k /\ k + 1 # 1
      BY <1>4, <1>5, <1>7, <2>2
    <3>2. escape' => Frame(sent[c])[(k + 1) - 1] = Escape
      BY <1>4, <1>6, <1>8, <3>1 DEF ReadStep
    <3>3. Clean(c, harmed) => InStep(sent[c], k + 1, rxbuf', escape')
      BY <1>9, <3>1
    <3>4. Tracking(c, k + 1, rxbuf', escape', sent, harmed)
      <4>1. NotCutOff(c, k + 1, escape', sent, harmed)
        BY <3>2 DEF NotCutOff
      <4>2. Fresh(c, k + 1, rxbuf', escape', harmed)
        BY <3>1 DEF Fresh
      <4>3. Following(c, k + 1, rxbuf', escape', sent, harmed)
        BY <3>3 DEF Following
      <4> QED BY <4>1, <4>2, <4>3 DEF Tracking
    <3> QED BY <3>1, <3>4
  <2> QED BY <2>1, <2>2
<1>11. /\ ended' \in {ended, ended \cup {c}} /\ refused \subseteq refused' /\ arrived \subseteq arrived'
       /\ c \in ended' \ ended => x = Newline
  BY <1>2, <1>4 DEF ReadStep, ReadEscaped, ReadEscape, ReadPlain, EndFrame, EndRead, history
<1>12. ASSUME Clean(c, harmed), x = Newline PROVE c \in refused' \/ <<c, sent[c]>> \in arrived'
  <2>1. k = Len(w)
    BY <1>4, <1>7, <1>9, <1>12
  <2>2. EndFrame /\ rxbuf = CrcLast(sent[c])
    BY <1>9, <1>12, <2>1
  <2>3. IsPacket(rxbuf) /\ CrcBack(rxbuf) = sent[c]
    BY <1>4, <2>2, CrcLastShape
  <2>4. CASE Full
    BY <1>4, <2>2, <2>3, <2>4 DEF EndFrame
  <2>5. CASE ~ Full
    BY <1>4, <2>2, <2>3, <2>5 DEF EndFrame
  <2> QED BY <2>4, <2>5
<1>13. Resynchronises'
  <2> SUFFICES ASSUME NEW i \in ended', i \notin refused', Clean(i, harmed)
               PROVE  <<i, sent[i]>> \in arrived'
    BY <1>2 DEF Resynchronises, Clean, Whole
  <2>1. CASE i \in ended
    BY <1>11, <2>1 DEF Synchronised, Resynchronises, Clean, Whole
  <2>2. CASE i \notin ended
    BY <1>11, <1>12, <2>2
  <2> QED BY <2>1, <2>2
<1>14. LineInv'
  <2>1. sent' \in Seq(Packet) /\ ended' \subseteq 1 .. Len(sent')
    BY <1>0, <1>2, <1>4, <1>11 DEF LineInv
  <2>2. line' \in Seq([byte : Byte, of : Nat])
    BY <1>0, <1>2 DEF LineInv
  <2> QED BY <1>2, <1>5, <1>10, <2>1, <2>2 DEF LineInv, TrackingNow
<1> QED BY <1>13, <1>14 DEF Synchronised

LEMMA LoseKeeps ==
  ASSUME Synchronised, Lose
  PROVE  Synchronised'
<1>0. LineInv
  BY DEF Synchronised
<1>1. PICK of, off : Route(of, off, line, sent) /\ TrackingNow(of[1], off[1])
  BY <1>0 DEF LineInv
<1>2. /\ line # <<>> /\ line' = Tail(line) /\ harmed' = harmed \cup {Head(line).of}
      /\ UNCHANGED <<sent, rxbuf, escape, ended, refused, arrived>>
  BY DEF Lose
<1>3. PICK c, k, w : c = of[1] /\ k = off[1] /\ w = Frame(sent[of[1]])
  OBVIOUS
<1>4. /\ c \in 1 .. Len(sent) /\ sent[c] \in Packet /\ k \in 1 .. Len(w)
      /\ Head(line).of = c
      /\ IF k = Len(w) THEN of[2] = c + 1 /\ off[2] = 1 ELSE of[2] = c /\ off[2] = k + 1
  BY <1>0, <1>1, <1>2, <1>3, HeadOfRoute, Zenon
<1>5. PICK a, b : Route(a, b, line', sent') /\ a[1] = of[2] /\ b[1] = off[2]
  <2>1. line \in Seq([byte : Byte, of : Nat]) /\ Route(of, off, line, sent) /\ sent' = sent
    BY <1>0, <1>1, <1>2 DEF LineInv
  <2>2. line # <<>> /\ line' = Tail(line)
    BY <1>2
  <2>3. Advanced(of, off)
    BY <2>1, <2>2, RouteTail
  <2> QED BY <2>3 DEF Advanced
<1>6. c \in harmed'
  BY <1>2, <1>4
<1>7. c \in Nat /\ c > 0 /\ k \in Nat /\ k > 0
  BY <1>0, <1>4 DEF LineInv
<1>8. Tracking(a[1], b[1], rxbuf', escape', sent', harmed')
  <2>1. CASE k = Len(w)
    <3>1. a[1] = c + 1 /\ b[1] = 1 /\ c + 1 > 1 /\ (c + 1) - 1 = c /\ ~ (1 > 1)
      BY <1>4, <1>5, <1>7, <2>1
    <3>2. Tracking(c + 1, 1, rxbuf', escape', sent', harmed')
      <4>1. NotCutOff(c + 1, 1, escape', sent', harmed')
        BY <3>1 DEF NotCutOff
      <4>2. Fresh(c + 1, 1, rxbuf', escape', harmed')
        <5>1. (c + 1) - 1 \in harmed'
          BY <1>6, <3>1, Zenon
        <5> QED BY <3>1, <5>1 DEF Fresh
      <4>3. Following(c + 1, 1, rxbuf', escape', sent', harmed')
        BY <3>1 DEF Following
      <4> QED BY <4>1, <4>2, <4>3 DEF Tracking
    <3> QED BY <3>1, <3>2
  <2>2. CASE k # Len(w)
    <3>1. a[1] = c /\ b[1] = k + 1 /\ k + 1 # 1
      BY <1>4, <1>5, <1>7, <2>2
    <3> QED BY <1>6, <3>1 DEF Tracking, Clean, NotCutOff, Fresh, Following
  <2> QED BY <2>1, <2>2
<1>9. Resynchronises'
  BY <1>2 DEF Synchronised, Resynchronises, Whole
<1>10. line' \in Seq([byte : Byte, of : Nat])
  BY <1>0, <1>2 DEF LineInv
<1>11. LineInv'
  BY <1>0, <1>2, <1>5, <1>8, <1>10 DEF LineInv, TrackingNow
<1> QED BY <1>9, <1>11 DEF Synchronised

LEMMA SendKeeps ==
  ASSUME Synchronised, Send
  PROVE  Synchronised'
<1>0. LineInv
  BY DEF Synchronised
<1>1. PICK of, off : Route(of, off, line, sent) /\ TrackingNow(of[1], off[1])
  BY <1>0 DEF LineInv
<1>2. PICK p \in Packet :
        /\ line' = line \o [i \in 1 .. Len(Frame(p)) |->
                             [byte |-> Frame(p)[i], of |-> Len(sent) + 1]]
        /\ sent' = Append(sent, p)
  BY DEF Send
<1>3. UNCHANGED <<rxbuf, escape, harmed, ended, refused, arrived>>
  BY DEF Send
<1>4. PICK w, n, l, q : w = Frame(p) /\ n = Len(w) /\ l = Len(line) /\ q = Len(sent) + 1
  OBVIOUS
<1>5. w \in Seq(Byte) /\ n \in Nat /\ n > 1
  BY <1>4, LastByte
<1>6. /\ l \in Nat /\ q \in Nat /\ q > 0 /\ Len(sent) \in Nat
      /\ sent \in Seq(Packet) /\ line \in Seq([byte : Byte, of : Nat])
  BY <1>0, <1>4 DEF LineInv
<1>7. PICK f : f = [i \in 1 .. n |-> [byte |-> w[i], of |-> q]]
  OBVIOUS
<1>8. f \in Seq([byte : Byte, of : Nat]) /\ Len(f) = n /\ line' = line \o f
  <2>1. \A i \in 1 .. n : [byte |-> w[i], of |-> q] \in [byte : Byte, of : Nat]
    BY <1>4, <1>5, <1>6
  <2>2. f \in Seq([byte : Byte, of : Nat]) /\ Len(f) = n
    BY <1>5, <1>7, <2>1
  <2>3. line' = line \o f
    BY <1>2, <1>4, <1>7
  <2> QED BY <2>2, <2>3
<1>9. /\ line' \in Seq([byte : Byte, of : Nat]) /\ Len(line') = l + n
      /\ \A j \in 1 .. l + n : line'[j] = IF j <= l THEN line[j] ELSE f[j - l]
  <2>1. /\ line \o f \in Seq([byte : Byte, of : Nat])
        /\ Len(line \o f) = Len(line) + Len(f)
        /\ \A j \in 1 .. Len(line) + Len(f) :
             (line \o f)[j] = IF j <= Len(line) THEN line[j] ELSE f[j - Len(line)]
    BY <1>6, <1>8, ConcatProperties
  <2> QED BY <1>4, <1>8, <2>1, Zenon
<1>10. /\ sent' \in Seq(Packet) /\ Len(sent') = q /\ sent'[q] = p
       /\ \A i \in 1 .. Len(sent) : sent'[i] = sent[i]
  <2>1. /\ Append(sent, p) \in Seq(Packet) /\ Len(Append(sent, p)) = Len(sent) + 1
        /\ \A i \in 1 .. Len(sent) : Append(sent, p)[i] = sent[i]
        /\ Append(sent, p)[Len(sent) + 1] = p
    BY <1>6, AppendProperties
  <2> QED BY <1>2, <1>4, <2>1, Zenon
<1>11. PICK a, b : /\ a = [j \in 1 .. l + n + 1 |->
                             IF j <= l THEN of[j] ELSE IF j <= l + n THEN q ELSE q + 1]
                   /\ b = [j \in 1 .. l + n + 1 |->
                             IF j <= l THEN off[j] ELSE IF j <= l + n THEN j - l ELSE 1]
  OBVIOUS
<1>12. /\ of \in [1 .. l + 1 -> Nat] /\ off \in [1 .. l + 1 -> Nat]
       /\ of[l + 1] = q /\ off[l + 1] = 1
       /\ \A j \in 1 .. l :
            /\ of[j] \in 1 .. Len(sent) /\ off[j] \in 1 .. Len(Frame(sent[of[j]]))
            /\ line[j].of = of[j] /\ line[j].byte = Frame(sent[of[j]])[off[j]]
            /\ IF off[j] = Len(Frame(sent[of[j]])) THEN of[j + 1] = of[j] + 1 /\ off[j + 1] = 1
               ELSE of[j + 1] = of[j] /\ off[j + 1] = off[j] + 1
  BY <1>1, <1>4 DEF Route
<1>13. /\ a \in [1 .. l + n + 1 -> Nat] /\ b \in [1 .. l + n + 1 -> Nat]
       /\ a[l + n + 1] = q + 1 /\ b[l + n + 1] = 1
       /\ \A j \in 1 .. l + 1 : a[j] = of[j] /\ b[j] = off[j]
       /\ \A j \in l + 1 .. l + n : a[j] = q /\ b[j] = j - l
  <2>1. ASSUME NEW j \in 1 .. l + n + 1
        PROVE  /\ (IF j <= l THEN of[j] ELSE IF j <= l + n THEN q ELSE q + 1) \in Nat
               /\ (IF j <= l THEN off[j] ELSE IF j <= l + n THEN j - l ELSE 1) \in Nat
    BY <1>5, <1>6, <1>12
  <2>2. a \in [1 .. l + n + 1 -> Nat] /\ b \in [1 .. l + n + 1 -> Nat]
    BY <1>11, <2>1
  <2>3. /\ l + n + 1 \in 1 .. l + n + 1 /\ ~ (l + n + 1 <= l) /\ ~ (l + n + 1 <= l + n)
    BY <1>5, <1>6
  <2>4. a[l + n + 1] = q + 1 /\ b[l + n + 1] = 1
    BY <1>11, <2>3
  <2>5. ASSUME NEW j \in 1 .. l + 1 PROVE a[j] = of[j] /\ b[j] = off[j]
    <3>1. j \in 1 .. l + n + 1 /\ j <= l + n /\ (j <= l \/ j = l + 1) /\ (l + 1) - l = 1
          /\ ~ (l + 1 <= l)
      BY <1>5, <1>6
    <3> QED BY <1>11, <1>12, <3>1
  <2>6. ASSUME NEW j \in l + 1 .. l + n PROVE a[j] = q /\ b[j] = j - l
    <3>1. j \in 1 .. l + n + 1 /\ ~ (j <= l) /\ j <= l + n
      BY <1>5, <1>6
    <3> QED BY <1>11, <3>1
  <2> QED BY <2>2, <2>4, <2>5, <2>6
<1>14. ASSUME NEW j \in 1 .. l + n
       PROVE  /\ a[j] \in 1 .. q /\ b[j] \in 1 .. Len(Frame(sent'[a[j]]))
              /\ line'[j].of = a[j] /\ line'[j].byte = Frame(sent'[a[j]])[b[j]]
              /\ IF b[j] = Len(Frame(sent'[a[j]])) THEN a[j + 1] = a[j] + 1 /\ b[j + 1] = 1
                 ELSE a[j + 1] = a[j] /\ b[j + 1] = b[j] + 1
  <2>1. CASE j <= l
    <3>1. j \in 1 .. l /\ j \in 1 .. l + 1 /\ j + 1 \in 1 .. l + 1
      BY <1>6, <2>1
    <3>2. /\ a[j] = of[j] /\ b[j] = off[j] /\ a[j + 1] = of[j + 1] /\ b[j + 1] = off[j + 1]
          /\ line'[j] = line[j]
      BY <1>9, <1>13, <2>1, <3>1
    <3>3. of[j] \in 1 .. Len(sent) /\ sent'[of[j]] = sent[of[j]]
      BY <1>10, <1>12, <3>1
    <3>4. of[j] \in 1 .. q
      BY <1>4, <1>6, <3>3
    <3> QED BY <1>12, <3>1, <3>2, <3>3, <3>4
  <2>2. CASE ~ (j <= l)
    <3>1. j \in l + 1 .. l + n /\ j - l \in 1 .. n
      BY <1>5, <1>6, <2>2
    <3>2. a[j] = q /\ b[j] = j - l /\ line'[j] = f[j - l] /\ Frame(sent'[q]) = w
      BY <1>4, <1>9, <1>10, <1>13, <2>2, <3>1
    <3>3. line'[j].of = q /\ line'[j].byte = w[j - l] /\ q \in 1 .. q
      BY <1>6, <1>7, <3>1, <3>2
    <3>4. CASE j = l + n
      <4>1. j - l = n /\ a[j + 1] = q + 1 /\ b[j + 1] = 1
        BY <1>5, <1>6, <1>13, <3>4
      <4> QED BY <1>4, <3>1, <3>2, <3>3, <4>1
    <3>5. CASE j # l + n
      <4>1. j + 1 \in l + 1 .. l + n /\ (j + 1) - l = (j - l) + 1 /\ j - l # n
        BY <1>5, <1>6, <3>1, <3>5
      <4>2. a[j + 1] = q /\ b[j + 1] = (j - l) + 1
        BY <1>13, <4>1
      <4> QED BY <1>4, <3>1, <3>2, <3>3, <4>1, <4>2
    <3> QED BY <3>4, <3>5
  <2> QED BY <2>1, <2>2
<1>15. Route(a, b, line', sent')
  <2>1. Len(line') + 1 = l + n + 1 /\ 1 .. Len(line') = 1 .. l + n /\ Len(sent') = q
    BY <1>9, <1>10
  <2> QED BY <1>13, <1>14, <2>1 DEF Route
<1>16. PICK c, k : c = of[1] /\ k = off[1]
  OBVIOUS
<1>17. a[1] = c /\ b[1] = k
  BY <1>6, <1>13, <1>16
<1>18. k > 1 => c \in 1 .. Len(sent) /\ sent'[c] = sent[c]
  <2>1. CASE l = 0
    <3>1. k = 1
      BY <1>12, <1>16, <2>1
    <3> QED BY <3>1
  <2>2. CASE l # 0
    <3>1. 1 \in 1 .. l
      BY <1>6, <2>2
    <3> QED BY <1>10, <1>12, <1>16, <3>1
  <2> QED BY <2>1, <2>2
<1>19. Tracking(c, k, rxbuf, escape, sent', harmed)
  <2>1. Tracking(c, k, rxbuf, escape, sent, harmed)
    BY <1>1, <1>16 DEF TrackingNow
  <2>2. NotCutOff(c, k, escape, sent', harmed)
    BY <1>18, <2>1 DEF Tracking, NotCutOff
  <2>3. Following(c, k, rxbuf, escape, sent', harmed)
    BY <1>18, <2>1 DEF Tracking, Following
  <2> QED BY <2>1, <2>2, <2>3 DEF Tracking
<1>20. ended' \subseteq 1 .. Len(sent')
  BY <1>0, <1>3, <1>4, <1>6, <1>10 DEF LineInv
<1>21. LineInv'
  BY <1>3, <1>9, <1>10, <1>15, <1>17, <1>19, <1>20 DEF LineInv, TrackingNow
<1>22. Resynchronises'
  <2>1. ended \subseteq 1 .. Len(sent)
    BY <1>0 DEF LineInv
  <2> QED BY <1>3, <1>10, <2>1 DEF Synchronised, Resynchronises, Whole
<1> QED BY <1>21, <1>22 DEF Synchronised

LEMMA InitSynchronised == Init => Synchronised
<1> SUFFICES ASSUME Init PROVE Synchronised
  OBVIOUS
<1>1. PICK of : of = [j \in 1 .. 1 |-> 1]
  OBVIOUS
<1>2. Route(of, of, line, sent)
  BY <1>1 DEF Init, Route
<1>3. Tracking(1, 1, rxbuf, escape, sent, harmed)
  BY DEF Init, Tracking, NotCutOff, Fresh, Following
<1>4. of[1] = 1
  BY <1>1
<1>5. LineInv
  BY <1>2, <1>3, <1>4 DEF Init, LineInv, TrackingNow
<1>6. Resynchronises
  BY DEF Init, Resynchronises
<1> QED BY <1>5, <1>6 DEF Synchronised

LEMMA NextSynchronised == Safe /\ Synchronised /\ [Next]_vars => Synchronised'
<1> SUFFICES ASSUME Safe, Synchronised, [Next]_vars PROVE Synchronised'
  OBVIOUS
<1>0. TypeOK
  BY DEF Safe
<1>1. CASE MoveHead \/ AddPacket \/ PacketAdded \/ UNCHANGED vars
  <2>1. LineElsewhere
    BY <1>1 DEF MoveHead, AddPacket, PacketAdded, vars, history, ring, LineElsewhere
  <2> QED BY <2>1, LineElsewhereKeeps
<1>2. CASE \E b \in Byte : ReadEscaped(b) \/ ReadEscape(b) \/ ReadPlain(b)
  <2>1. PICK b \in Byte : ReadStep(b)
    BY <1>2 DEF ReadStep
  <2> QED BY <1>0, <2>1, ReadKeeps
<1>3. CASE EndFrame
  <2>1. Newline \in Byte
    BY Sizes
  <2> QED BY <1>0, <1>3, <2>1, ReadKeeps
<1> QED BY <1>1, <1>2, <1>3, SendKeeps, LoseKeeps DEF Next, Receive

(* A lost byte costs its own packet and the next one at most: a packet     *)
(* that came whole behind one that came whole is accepted unchanged, if    *)
(* the ring had room, for all packets and whatever is lost.                *)
THEOREM LossForgotten == Spec => []Resynchronises
<1>1. Synchronised => Resynchronises
  BY DEF Synchronised
<1> QED BY <1>1, AlwaysSafe, InitSynchronised, NextSynchronised, PTL DEF Spec

=============================================================================
