-------------------------- MODULE CanReportProofs ---------------------------
(***************************************************************************)
(* What the board on the CAN bus reports of the frames on it: every frame  *)
(* that it has to, and no other; for every size of queue, ring and FIFO.   *)
(* Two layers above those of CanProofs:                                    *)
(*                                                                         *)
(* TrackOK: while no bits are lost, a frame that has to be reported is     *)
(* the one the parser is in, or its header is met by a parser that waits   *)
(* for it, and what is on its way behind is in order up to the end the     *)
(* parser will accept (Pursued); or it has been reported (Over).           *)
(*                                                                         *)
(* TruthOK: while no bits are lost, a frame of another board that the      *)
(* parser is in, or is going to take, either runs on undisturbed or ends   *)
(* on the field at which every receiver accepts it (Sound, Honest), and    *)
(* the match machine raises its lines for that frame only (Reply).         *)
(***************************************************************************)
EXTENDS CanProofs

-----------------------------------------------------------------------------
(***************************************************************************)
(* A frame that the parser is in, or is going to take, and that it will    *)
(* report: what is still to come of it is in order (now: the frame that is *)
(* on the bus undisturbed, its header sent).                               *)
(***************************************************************************)
Plain(f) == f.is \in {"eof0", "part"} \/ (f.is \in {"crc", "ack"} /\ f.good)

(* A receiver may take a disturbance in bit 7 for the end of a frame.      *)
Ending(f, own) ==
  f.is = "eof1" /\ (f.first \in {"none", "pause"} \/ (~own /\ f.first = "bit7"))

Intact(p, i, f, now) ==
  \E m \in i + 1 .. Len(p) + 1 :
    /\ \A j \in i + 1 .. m - 1 : Plain(p[j])
    /\ IF m = Len(p) + 1 THEN f \in now ELSE Ending(p[m], f.own)

InFrame == {"CRC", "ACK", "EOF0", "EOF1"}

Inside(d, f) ==
  /\ d.parse \in InFrame /\ d.msg = f
  /\ IF f.own THEN d.report \in {"TX_ACK", "TX_EOF"} /\ f.n = Head(d.queue) ELSE Receiving(d)

Meets(d, p, k, i, f) == p[i].is = "header" /\ p[i].frame = f /\ Due(d, k, i)

Pursued(d, p, k, f, now) ==
  \/ Inside(d, f) /\ Intact(p, k, f, now)
  \/ \E i \in k + 1 .. Len(p) : Meets(d, p, k, i, f) /\ Intact(p, i, f, now)

(* It is reported: as transmitted, and out of the queue, or as received.   *)
Over(d, f) ==
  IF f.own THEN \A j \in 1 .. Len(d.queue) : d.queue[j] # f.n
           ELSE \E j \in 1 .. Len(d.heard) : d.heard[j] = f

(* What is to be reported when, and that the end of the pause is watched   *)
(* until then.                                                             *)
Waits(d) ==
  /\ d.parse \in {"EOF0", "EOF1"} => d.report \notin {"RX_ACK", "TX_ACK"}
  /\ d.report # "IDLE" => "MAYTX" \in d.inte

(* Queue and reports only go on.                                           *)
Proceeds(d, e) ==
  /\ e.queue = d.queue \/ (d.queue # <<>> /\ e.queue = Tail(d.queue))
  /\ e.heard = d.heard \/ e.heard = Append(d.heard, d.msg)

LEMMA HeardOneMore ==
  ASSUME NEW s, IsASequence(s), NEW x, NEW t, t = Append(s, x)
  PROVE  /\ \E j \in 1 .. Len(t) : t[j] = x
         /\ \A j \in 1 .. Len(s) : j \in 1 .. Len(t) /\ t[j] = s[j]
<1>1. /\ Len(s) \in Nat /\ Len(t) = Len(s) + 1 /\ t[Len(s) + 1] = x
      /\ \A j \in 1 .. Len(s) : t[j] = s[j]
  BY AppendedAt
<1>2. Len(s) + 1 \in 1 .. Len(t)
  BY <1>1
<1> QED BY <1>1, <1>2

LEMMA PulledFrom ==
  ASSUME NEW n, NEW s \in Seq(1 .. n), s # <<>>, Increasing(s), NEW t, t = Tail(s)
  PROVE  /\ \A j \in 1 .. Len(t) : t[j] # Head(s)
         /\ \A j \in 1 .. Len(t) : \E i \in 1 .. Len(s) : t[j] = s[i]
<1>1. /\ Head(s) = s[1] /\ Len(s) \in Nat /\ Len(s) >= 1 /\ Len(t) = Len(s) - 1
      /\ \A i \in 1 .. Len(s) - 1 : t[i] = s[i + 1]
  BY Emptied
<1>2. \A i \in 1 .. Len(s) : s[i] \in 1 .. n
  <2> DEFINE S == 1 .. n
  <2>1. s \in Seq(S)
    OBVIOUS
  <2> HIDE DEF S
  <2>2. \A i \in 1 .. Len(s) : s[i] \in S
    BY <2>1
  <2> QED BY <2>2 DEF S
<1>3. ASSUME NEW j \in 1 .. Len(t) PROVE t[j] # Head(s) /\ \E i \in 1 .. Len(s) : t[j] = s[i]
  <2>1. j + 1 \in 1 .. Len(s) /\ 1 \in 1 .. Len(s) /\ 1 < j + 1 /\ t[j] = s[j + 1]
    BY <1>1, <1>3
  <2>2. s[1] < s[j + 1] /\ s[1] \in Int /\ s[j + 1] \in Int
    BY <1>2, <2>1 DEF Increasing
  <2>3. s[1] # s[j + 1]
    BY <2>2
  <2> QED BY <1>1, <2>1, <2>3
<1> QED BY <1>3

LEMMA OverStays ==
  ASSUME NEW d, NEW e, Proceeds(d, e), NEW n, NEW W, DriverInv(d, n, W), IsASequence(d.heard),
         NEW f, Over(d, f)
  PROVE  Over(e, f)
<1>1. d.queue \in Seq(1 .. n) /\ Increasing(d.queue)
  BY DEF DriverInv, QueueInv, Ordered
<1>2. CASE f.own
  <2>1. CASE e.queue = d.queue
    BY <1>2, <2>1 DEF Over
  <2>2. CASE d.queue # <<>> /\ e.queue = Tail(d.queue)
    <3>1. \A j \in 1 .. Len(e.queue) : \E i \in 1 .. Len(d.queue) : e.queue[j] = d.queue[i]
      BY <1>1, <2>2, PulledFrom
    <3> QED BY <1>2, <3>1 DEF Over
  <2> QED BY <2>1, <2>2 DEF Proceeds
<1>3. CASE ~f.own
  <2>1. CASE e.heard = d.heard
    BY <1>3, <2>1 DEF Over
  <2>2. CASE e.heard = Append(d.heard, d.msg)
    <3>1. \A j \in 1 .. Len(d.heard) : j \in 1 .. Len(e.heard) /\ e.heard[j] = d.heard[j]
      BY <2>2, HeardOneMore
    <3> QED BY <1>3, <3>1 DEF Over
  <2> QED BY <2>1, <2>2 DEF Proceeds
<1> QED BY <1>2, <1>3

(* The frame that the parser is in is reported.                            *)
LEMMA Tells ==
  ASSUME NEW d, NEW e, NEW n, NEW W, DriverInv(d, n, W), IsASequence(d.heard), NEW f, Inside(d, f),
         IF f.own THEN e.queue = Tail(d.queue) ELSE e.heard = Append(d.heard, d.msg)
  PROVE  Over(e, f)
<1>1. CASE f.own
  <2>1. d.queue \in Seq(1 .. n) /\ Increasing(d.queue) /\ d.queue # <<>>
    BY <1>1 DEF DriverInv, QueueInv, Ordered, Duties, Inside
  <2>2. \A j \in 1 .. Len(e.queue) : e.queue[j] # Head(d.queue)
    BY <1>1, <2>1, PulledFrom
  <2> QED BY <1>1, <2>2 DEF Over, Inside
<1>2. CASE ~f.own
  <2>1. \E j \in 1 .. Len(e.heard) : e.heard[j] = d.msg
    BY <1>2, HeardOneMore
  <2> QED BY <1>2, <2>1 DEF Over, Inside
<1> QED BY <1>1, <1>2

LEMMA ReadsProceed ==
  ASSUME NEW d, NEW g, NEW e, Reads(d, g, e), NEW n, NEW W, DriverInv(d, n, W), Waits(d),
         d.parse = "HEADER" => "MAYTX" \in d.inte
  PROVE  Proceeds(d, e) /\ Waits(e)
<1>1. ASSUME NEW S, Only(d, e, S), "queue" \notin S, "heard" \notin S PROVE Proceeds(d, e)
  BY <1>1 DEF Only, Fields, Proceeds
<1>2. ASSUME NEW S, Only(d, e, S), "report" \notin S, "inte" \notin S
      PROVE  e.report = d.report /\ e.inte = d.inte
  BY <1>2 DEF Only, Fields
<1>3. CASE g.is = "part" /\ e = d
  BY <1>3 DEF Proceeds
<1>4. CASE Discards(d, g, e)
  BY <1>1, <1>4 DEF Discards, Waits
<1>5. CASE Settles(d, g, e)
  BY <1>1, <1>2, <1>5 DEF Settles, Waits
<1>6. CASE Starts(d, g, e)
  BY <1>1, <1>6 DEF Starts, Waits
<1>7. CASE TakesOwn(d, g, e)
  <2>1. Only(d, e, {"msg", "tx", "report", "key", "parse"}) /\ e.parse = "CRC" /\ d.parse = "HEADER"
    BY <1>7 DEF TakesOwn
  <2>2. e.inte = d.inte
    BY <2>1 DEF Only, Fields
  <2> QED BY <1>1, <2>1, <2>2 DEF Waits
<1>8. CASE TakesOther(d, g, e)
  BY <1>1, <1>8 DEF TakesOther, Waits
<1>9. CASE CrcGood(d, g, e)
  <2>1. Only(d, e, {"inte", "parse"}) /\ e.parse = "ACK"
        /\ e.inte = IF d.report = "TX_ACK" THEN {"MAYTX", "MATCHED"} ELSE d.inte
    BY <1>9 DEF CrcGood
  <2>2. e.report = d.report
    BY <2>1 DEF Only, Fields
  <2> QED BY <1>1, <2>1, <2>2 DEF Waits
<1>10. CASE AckGood(d, g, e)
  <2>1. Only(d, e, {"report", "parse"}) /\ e.parse = "EOF0"
        /\ e.report = CASE d.report = "RX_ACK" -> "RX_EOF" [] d.report = "TX_ACK" -> "TX_EOF"
                        [] OTHER -> d.report
    BY <1>10 DEF AckGood
  <2>2. e.inte = d.inte
    BY <2>1 DEF Only, Fields
  <2> QED BY <1>1, <2>1, <2>2 DEF Waits
<1>11. CASE Eof0Good(d, g, e)
  BY <1>1, <1>2, <1>11 DEF Eof0Good, Waits
<1>12. CASE Ends(d, g, e)
  <2>1. /\ e.report = "IDLE"
        /\ e.queue = IF d.report = "TX_EOF" THEN Tail(d.queue) ELSE d.queue
        /\ e.heard = IF d.report = "RX_EOF" THEN Append(d.heard, d.msg) ELSE d.heard
    BY <1>12 DEF Ends
  <2>2. d.report = "TX_EOF" => d.queue # <<>>
    BY DEF DriverInv, Duties
  <2> QED BY <2>1, <2>2 DEF Proceeds, Waits
<1> QED BY <1>3, <1>4, <1>5, <1>6, <1>7, <1>8, <1>9, <1>10, <1>11, <1>12 DEF Reads

(* In a frame that is in order, no field is discarded.                     *)
LEMMA InsideReads ==
  ASSUME NEW d, NEW g, NEW e, Reads(d, g, e), Awaits(d.parse, g), NEW n, NEW W, DriverInv(d, n, W),
         Waits(d), IsASequence(d.heard), NEW f, Inside(d, f)
  PROVE  /\ Plain(g) => Inside(e, f)
         /\ Ending(g, f.own) => Over(e, f)
<1>1. PICK at : Fits(d.parse, at) /\ Comes(at, g)
  BY DEF Awaits
<1>2. d.parse \in InFrame /\ d.msg = f
      /\ IF f.own THEN d.report \in {"TX_ACK", "TX_EOF"} /\ f.n = Head(d.queue) ELSE Receiving(d)
  BY DEF Inside
<1>3. ASSUME Plain(g) PROVE Inside(e, f)
  <2>1. /\ g.is \in {"crc", "ack"} => g.good
        /\ g.is \in {"part", "crc", "ack", "eof0"}
    BY <1>3 DEF Plain
  <2>2. /\ g.is = "crc" => d.parse = "CRC"
        /\ g.is = "ack" => d.parse = "ACK"
        /\ g.is = "eof0" => d.parse = "EOF0"
    BY <1>1, <1>2 DEF Fits, Comes, InFrame
  <2>3. ~Discards(d, g, e)
    BY <2>1, <2>2 DEF Discards, Wrong
  <2>4. /\ ~Settles(d, g, e) /\ ~Starts(d, g, e) /\ ~TakesOwn(d, g, e) /\ ~TakesOther(d, g, e)
        /\ ~Ends(d, g, e)
    BY <2>1 DEF Settles, Starts, TakesOwn, TakesOther, Ends
  <2>5. CASE g.is = "part" /\ e = d
    BY <2>5
  <2>6. CASE CrcGood(d, g, e) \/ Eof0Good(d, g, e)
    <3>1. Only(d, e, {"inte", "parse"}) /\ e.parse \in InFrame
      BY <2>6 DEF CrcGood, Eof0Good, Only, InFrame
    <3>2. e.msg = d.msg /\ e.report = d.report /\ e.queue = d.queue
      BY <3>1 DEF Only, Fields
    <3> QED BY <1>2, <3>1, <3>2 DEF Inside, Receiving
  <2>7. CASE AckGood(d, g, e)
    <3>1. Only(d, e, {"report", "parse"}) /\ e.parse \in InFrame
          /\ e.report = CASE d.report = "RX_ACK" -> "RX_EOF" [] d.report = "TX_ACK" -> "TX_EOF"
                          [] OTHER -> d.report
      BY <2>7 DEF AckGood, InFrame
    <3>2. e.msg = d.msg /\ e.queue = d.queue
      BY <3>1 DEF Only, Fields
    <3> QED BY <1>2, <3>1, <3>2 DEF Inside, Receiving
  <2> QED BY <2>3, <2>4, <2>5, <2>6, <2>7 DEF Reads
<1>4. ASSUME Ending(g, f.own) PROVE Over(e, f)
  <2>1. g.is = "eof1" /\ (g.first \in {"none", "pause"} \/ (~f.own /\ g.first = "bit7"))
    BY <1>4 DEF Ending
  <2>2. d.parse = "EOF1"
    BY <1>1, <1>2, <2>1 DEF Fits, Comes, InFrame
  <2>3. d.report = IF f.own THEN "TX_EOF" ELSE "RX_EOF"
    BY <1>2, <2>2 DEF Waits, Receiving
  <2>4. ~Discards(d, g, e)
    BY <2>1, <2>2, <2>3 DEF Discards, Wrong
  <2>5. /\ ~Settles(d, g, e) /\ ~Starts(d, g, e) /\ ~TakesOwn(d, g, e) /\ ~TakesOther(d, g, e)
        /\ ~CrcGood(d, g, e) /\ ~AckGood(d, g, e) /\ ~Eof0Good(d, g, e) /\ g.is # "part"
    BY <2>1, <2>2 DEF Settles, Starts, TakesOwn, TakesOther, CrcGood, AckGood, Eof0Good
  <2>6. Ends(d, g, e)
    BY <2>4, <2>5 DEF Reads
  <2>7. IF f.own THEN e.queue = Tail(d.queue) ELSE e.heard = Append(d.heard, d.msg)
    BY <2>3, <2>6 DEF Ends
  <2> QED BY <2>7, Tells
<1> QED BY <1>3, <1>4

LEMMA HeaderReads ==
  ASSUME NEW d, NEW g, NEW e, Reads(d, g, e), g.is = "header", d.parse = "HEADER", NEW f, g.frame = f,
         ~f.same, f.own => d.tx = "QUEUED" /\ f.n = Head(d.queue)
  PROVE  Inside(e, f)
<1>1. ~Discards(d, g, e)
  BY DEF Discards, Wrong
<1>2. /\ ~Settles(d, g, e) /\ ~Starts(d, g, e) /\ ~CrcGood(d, g, e) /\ ~AckGood(d, g, e)
      /\ ~Eof0Good(d, g, e) /\ ~Ends(d, g, e)
  BY DEF Settles, Starts, CrcGood, AckGood, Eof0Good, Ends
<1>3. CASE TakesOwn(d, g, e)
  <2>1. /\ Only(d, e, {"msg", "tx", "report", "key", "parse"}) /\ e.msg = f /\ e.parse = "CRC"
        /\ e.report = "TX_ACK" /\ f.own /\ f.n = Head(d.queue)
    BY <1>3 DEF TakesOwn, Local
  <2>2. e.queue = d.queue
    BY <2>1 DEF Only, Fields
  <2> QED BY <2>1, <2>2 DEF Inside, InFrame
<1>4. CASE TakesOther(d, g, e)
  <2>1. e.msg = f /\ e.parse = "CRC" /\ e.report = "RX_ACK" /\ ~f.own
    BY <1>4 DEF TakesOther, Local
  <2> QED BY <2>1 DEF Inside, InFrame, Receiving
<1> QED BY <1>1, <1>2, <1>3, <1>4 DEF Reads

(* One field is handled.                                                   *)
LEMMA PursuedStep ==
  ASSUME NEW d, NEW e, NEW p, NEW k \in Nat, Len(p) \in Nat, k < Len(p), NEW at,
         Grammar(d, p, k, at), Reads(d, p[k + 1], e), Recognised(d, p, k), ~d.stall,
         NEW n, NEW W, DriverInv(d, n, W), Waits(d), IsASequence(d.heard),
         NEW f, ~f.same, NEW now, Pursued(d, p, k, f, now)
  PROVE  Pursued(e, p, k + 1, f, now) \/ Over(e, f)
<1> DEFINE g == p[k + 1]
           l == Len(p)
<1>1. Awaits(d.parse, g)
  BY DEF Grammar
<1>2. (k + 1) + 1 = k + 2 /\ k + 1 \in k + 1 .. l
  OBVIOUS
<1>3. CASE Inside(d, f) /\ Intact(p, k, f, now)
  <2>1. PICK m \in k + 1 .. l + 1 :
          /\ \A j \in k + 1 .. m - 1 : Plain(p[j])
          /\ IF m = l + 1 THEN f \in now ELSE Ending(p[m], f.own)
    BY <1>3 DEF Intact
  <2>2. CASE m = k + 1
    <3>1. Ending(g, f.own)
      BY <2>1, <2>2
    <3> QED BY <1>1, <1>3, <3>1, InsideReads
  <2>3. CASE m # k + 1
    <3>1. k + 1 \in k + 1 .. m - 1 /\ m \in (k + 1) + 1 .. l + 1
          /\ \A j \in (k + 1) + 1 .. m - 1 : j \in k + 1 .. m - 1
      BY <2>3
    <3>2. Plain(g) /\ Intact(p, k + 1, f, now)
      BY <2>1, <3>1 DEF Intact
    <3>3. Inside(e, f)
      BY <1>1, <1>3, <3>2, InsideReads
    <3> QED BY <3>2, <3>3 DEF Pursued
  <2> QED BY <2>2, <2>3
<1>4. ASSUME NEW i \in k + 1 .. l, Meets(d, p, k, i, f), Intact(p, i, f, now)
      PROVE  Pursued(e, p, k + 1, f, now)
  <2>1. CASE i = k + 1
    <3>1. g.is = "header" /\ g.frame = f /\ d.parse = "HEADER"
      BY <1>4, <2>1 DEF Meets, Due
    <3>2. ASSUME f.own PROVE d.tx = "QUEUED" /\ f.n = Head(d.queue)
      <4>1. Live(d, p, k, k + 1)
        BY <3>1, <3>2 DEF Live, Own, Dazed
      <4> QED BY <1>2, <3>1, <4>1 DEF Recognised
    <3>3. Inside(e, f)
      BY <3>1, <3>2, HeaderReads
    <3> QED BY <1>4, <2>1, <3>3 DEF Pursued
  <2>2. CASE i # k + 1
    <3>1. i \in k + 2 .. l + 1 /\ i \in (k + 1) + 1 .. l /\ i # l + 1
      BY <2>2
    <3>2. Due(e, k + 1, i)
      BY <1>4, <3>1, GrammarStep DEF Meets
    <3> QED BY <1>4, <3>1, <3>2 DEF Pursued, Meets
  <2> QED BY <2>1, <2>2
<1> QED BY <1>3, <1>4 DEF Pursued

-----------------------------------------------------------------------------
(***************************************************************************)
(* All the frames of O are pursued or reported: through the loop.          *)
(***************************************************************************)
Pursues(d, p, k, O, now) == \A f \in O : Pursued(d, p, k, f, now) \/ Over(d, f)

(* The parser will be waiting for the header that is on the bus.           *)
Seen(d, p, k, begun) == begun => Due(d, k, Len(p) + 1)

LEMMA IntactRebased ==
  ASSUME NEW a, NEW b, IsASequence(a), IsASequence(b), NEW i \in Nat, NEW f, NEW now,
         Intact(a \o b, Len(a) + i, f, now)
  PROVE  Intact(b, i, f, now)
<1> DEFINE p == a \o b
           l == Len(a)
           n == Len(b)
<1>1. /\ l \in Nat /\ n \in Nat /\ Len(p) = l + n
      /\ \A j \in 1 .. n : p[l + j] = b[j]
  BY JoinedAt
<1>2. PICK m \in (l + i) + 1 .. Len(p) + 1 :
        /\ \A j \in (l + i) + 1 .. m - 1 : Plain(p[j])
        /\ IF m = Len(p) + 1 THEN f \in now ELSE Ending(p[m], f.own)
  BY DEF Intact
<1> HIDE DEF p, l, n
<1>3. m - l \in i + 1 .. n + 1 /\ (m = Len(p) + 1 <=> m - l = n + 1)
  BY <1>1, <1>2
<1>4. ASSUME NEW j \in i + 1 .. (m - l) - 1 PROVE Plain(b[j])
  <2>1. l + j \in (l + i) + 1 .. m - 1 /\ j \in 1 .. n
    BY <1>1, <1>3, <1>4
  <2> QED BY <1>1, <1>2, <2>1
<1>5. IF m - l = n + 1 THEN f \in now ELSE Ending(b[m - l], f.own)
  <2>1. CASE m - l = n + 1
    BY <1>2, <1>3, <2>1
  <2>2. CASE m - l # n + 1
    <3>1. m - l \in 1 .. n /\ l + (m - l) = m
      <4>1. m \in Int /\ m - l >= i + 1 /\ m - l <= n + 1
        BY <1>1, <1>2, <1>3
      <4> QED BY <1>1, <2>2, <4>1
    <3>2. p[m] = b[m - l]
      BY <1>1, <3>1
    <3> QED BY <1>2, <1>3, <2>2, <3>2
  <2> QED BY <2>1, <2>2
<1> QED BY <1>1, <1>3, <1>4, <1>5 DEF Intact, n

LEMMA PursuedRebased ==
  ASSUME NEW d, NEW a, NEW b, IsASequence(a), IsASequence(b), NEW O, NEW now, NEW begun
  PROVE  /\ Pursues(d, a \o b, Len(a), O, now) => Pursues(d, b, 0, O, now)
         /\ Seen(d, a \o b, Len(a), begun) => Seen(d, b, 0, begun)
<1> DEFINE p == a \o b
           l == Len(a)
           n == Len(b)
<1>1. /\ l \in Nat /\ n \in Nat /\ Len(p) = l + n
      /\ \A j \in 1 .. n : p[l + j] = b[j]
  BY JoinedAt
<1>2. \A i \in Nat : \A f : Intact(p, l + i, f, now) => Intact(b, i, f, now)
  BY IntactRebased
<1> HIDE DEF p, l
<1>3. \A i : i \in Nat => (Due(d, l, l + i) <=> Due(d, 0, i))
  <2>1. \A i : i \in Nat => (l + i = l + 1 <=> i = 0 + 1) /\ (l + i = l + 2 <=> i = 0 + 2)
    BY <1>1
  <2> QED BY <2>1 DEF Due
<1>4. ASSUME NEW f, Pursued(d, p, l, f, now) PROVE Pursued(d, b, 0, f, now)
  <2>1. CASE Inside(d, f) /\ Intact(p, l, f, now)
    <3>1. l + 0 = l /\ 0 \in Nat
      BY <1>1
    <3>2. Intact(b, 0, f, now)
      BY <1>2, <2>1, <3>1
    <3> QED BY <2>1, <3>2 DEF Pursued
  <2>2. ASSUME NEW i \in l + 1 .. Len(p), Meets(d, p, l, i, f), Intact(p, i, f, now)
        PROVE  Pursued(d, b, 0, f, now)
    <3>1. i - l \in 0 + 1 .. n /\ i - l \in 1 .. n /\ i - l \in Nat /\ l + (i - l) = i
      BY <1>1, <2>2
    <3>2. p[i] = b[i - l]
      BY <1>1, <3>1
    <3>3. Intact(b, i - l, f, now) /\ Due(d, 0, i - l)
      BY <1>2, <1>3, <2>2, <3>1 DEF Meets
    <3> QED BY <2>2, <3>1, <3>2, <3>3 DEF Pursued, Meets, n
  <2> QED BY <1>4, <2>1, <2>2 DEF Pursued
<1>5. Seen(d, p, l, begun) => Seen(d, b, 0, begun)
  <2>1. Len(p) + 1 = l + (n + 1) /\ n + 1 \in Nat
    BY <1>1
  <2>2. Due(d, l, Len(p) + 1) <=> Due(d, 0, n + 1)
    BY <1>3, <2>1
  <2> QED BY <2>2 DEF Seen, n
<1> QED BY <1>4, <1>5 DEF Pursues, p, l

LEMMA PursuesStep ==
  ASSUME NEW d, NEW e, NEW p, NEW k \in Nat, Len(p) \in Nat, k < Len(p), NEW at,
         Grammar(d, p, k, at), Reads(d, p[k + 1], e), Recognised(d, p, k), ~d.stall,
         NEW n, NEW W, DriverInv(d, n, W), Waits(d), d.parse = "HEADER" => "MAYTX" \in d.inte,
         IsASequence(d.heard), NEW O, \A f \in O : ~f.same, NEW now, Pursues(d, p, k, O, now),
         NEW begun, begun => at = "header", Seen(d, p, k, begun)
  PROVE  Waits(e) /\ Pursues(e, p, k + 1, O, now) /\ Seen(e, p, k + 1, begun)
<1>1. Proceeds(d, e) /\ Waits(e)
  BY ReadsProceed
<1>2. ASSUME NEW f \in O PROVE Pursued(e, p, k + 1, f, now) \/ Over(e, f)
  <2>1. CASE Over(d, f)
    BY <1>1, <2>1, OverStays
  <2>2. CASE Pursued(d, p, k, f, now)
    BY <2>2, PursuedStep
  <2> QED BY <2>1, <2>2 DEF Pursues
<1>3. Seen(e, p, k + 1, begun)
  <2> SUFFICES ASSUME begun PROVE Due(e, k + 1, Len(p) + 1)
    BY DEF Seen
  <2>1. Len(p) + 1 \in k + 2 .. Len(p) + 1 /\ ~(Len(p) + 1 <= Len(p))
    OBVIOUS
  <2>2. Due(d, k, Len(p) + 1)
    BY DEF Seen
  <2> QED BY <2>1, <2>2, GrammarStep
<1> QED BY <1>1, <1>2, <1>3 DEF Pursues

(* The reset of a quiet line finds every frame reported.                   *)
LEMMA ResetPursues ==
  ASSUME NEW d, Driver(d), NEW p, NEW n \in Nat, n + 1 = Len(p), p[n + 1].is = "quiet",
         NEW at, Grammar(d, p, n, at), NEW O, NEW now, Pursues(d, p, n, O, now)
  PROVE  LET e == LineQuiet(d)
         IN Reset(e) /\ Waits(e) /\ Pursues(e, Pipe(e), 0, O, now) /\ e.held = d.held
<1> DEFINE e == LineQuiet(d)
<1>1. Reset(e) /\ e.queue = d.queue /\ e.heard = d.heard /\ e.held = d.held
  BY ResetIs
<1> HIDE DEF e
<1>2. d.parse \in {"START", "DISCARD"}
  <2>1. n < Len(p)
    OBVIOUS
  <2>2. PICK x : Fits(d.parse, x) /\ Comes(x, p[n + 1])
    BY <2>1 DEF Grammar, Awaits
  <2>3. x = "free"
    BY <2>2 DEF Comes
  <2> QED BY <2>2, <2>3 DEF Fits
<1>3. ASSUME NEW f \in O PROVE Over(e, f)
  <2>1. ~Inside(d, f)
    BY <1>2 DEF Inside, InFrame
  <2>2. \A i \in n + 1 .. Len(p) : i = n + 1
    OBVIOUS
  <2>3. ~Pursued(d, p, n, f, now)
    BY <2>1, <2>2 DEF Pursued, Meets
  <2> QED BY <1>1, <1>3, <2>3 DEF Pursues, Over
<1>4. Waits(e)
  BY <1>1 DEF Waits, Reset
<1> QED BY <1>1, <1>3, <1>4 DEF Pursues, e

LEMMA LoopPursues ==
  ASSUME IrqRxData, Base, FlowOK, ~cd.stall, QuietLast(cd),
         Follows(cd, Pipe(cd), 0, bus.at), WakeInv(cd, Pipe(cd), 0, HeaderOut), Waits(cd),
         NEW O, \A f \in O : ~f.same, NEW now, Pursues(cd, Pipe(cd), 0, O, now),
         NEW begun, begun => bus.at = "header", Seen(cd, Pipe(cd), 0, begun)
  PROVE  /\ Waits(cd') /\ Pursues(cd', Pipe(cd'), 0, O, now) /\ Seen(cd', Pipe(cd'), 0, begun)
         /\ Steady(cd, cd') \/ Reset(cd')
<1>1. PICK u, n : Loop(u, n)
  BY LoopReads
<1> DEFINE p == Pipe(cd)
           at == bus.at
           out == HeaderOut
           ns == sent
           W == withdrawn
           At0(e, i) == /\ Grammar(e, p, i, at) /\ WakeInv(e, p, i, out)
                        /\ Waits(e) /\ Pursues(e, p, i, O, now) /\ Seen(e, p, i, begun)
           T == { i \in 0 .. n : At0(u[i], i) }
<1>2. /\ n \in Nat /\ Len(p) \in Nat /\ n <= Len(p)
      /\ \/ cd' = u[n] /\ n = Len(cd.rx) /\ n # 0
         \/ cd' = LineQuiet(u[n]) /\ n + 1 = Len(p) /\ p[n + 1].is = "quiet" /\ cd.isr = <<>>
  BY <1>1 DEF Loop
<1>3. \A i \in 0 .. n : /\ Driver(u[i]) /\ Steady(cd, u[i]) /\ ~u[i].stall /\ Recognised(u[i], p, i)
                        /\ DriverInv(u[i], ns, W) /\ IsASequence(u[i].heard)
  BY <1>1 DEF Loop, DriverInv, QueueInv, Steady, FlowInv, HeardInOrder, IsASequence
<1>4. \A i \in 1 .. n : Reads(u[i - 1], p[i], u[i])
  BY <1>1 DEF Loop
<1>5. u[0] = Flushed(cd)
  BY <1>1 DEF Loop
<1>q. ASSUME p[n + 1].is = "quiet", n + 1 = Len(p) PROVE at = "free"
  <2>1. n + 1 \in 1 .. Len(p)
    BY <1>2, <1>q
  <2> QED BY <1>q, <2>1, QuietFree
<1>6. Grammar(cd, p, 0, at) /\ WakeInv(cd, p, 0, out) /\ Driver(cd) /\ (out => at = "header")
  BY DEF Follows, FlowOK, Signals, IrqRxData, Base, DriverInv, QueueInv, HeaderOut
<1>7. Pursues(cd, p, 0, O, now) /\ Seen(cd, p, 0, begun) /\ (begun => at = "header")
  OBVIOUS
<1> HIDE DEF p, at, out, ns, W
<1>8. 0 \in T
  <2> DEFINE e == Flushed(cd)
  <2>1. Only(cd, e, {"rx"})
    BY <1>6, FlushedDoes
  <2> HIDE DEF e
  <2>2. Looks(cd, e) /\ e.report = cd.report /\ e.msg = cd.msg /\ e.queue = cd.queue /\ e.heard = cd.heard
    BY <2>1 DEF Only, Fields, Looks
  <2>3. Grammar(e, p, 0, at) /\ WakeInv(e, p, 0, out)
    BY <1>6, <2>2, LooksSame
  <2>4. Waits(e) /\ Seen(e, p, 0, begun)
    BY <1>7, <2>2 DEF Looks, Waits, Seen, Due
  <2>5. Pursues(e, p, 0, O, now)
    <3>1. \A f : Inside(cd, f) <=> Inside(e, f)
      BY <2>2 DEF Looks, Inside, Receiving
    <3>2. \A i, f : Meets(cd, p, 0, i, f) <=> Meets(e, p, 0, i, f)
      BY <2>2 DEF Looks, Meets, Due
    <3>3. \A f : Over(cd, f) <=> Over(e, f)
      BY <2>2 DEF Over
    <3> QED BY <1>7, <3>1, <3>2, <3>3 DEF Pursues, Pursued
  <2> QED BY <1>2, <1>5, <2>3, <2>4, <2>5 DEF e
<1>9. ASSUME NEW i \in 1 .. n, i - 1 \in T
      PROVE  At0(u[i], i)
  <2> DEFINE d == u[i - 1]
             e == u[i]
             k == i - 1
  <2>1. At0(d, k) /\ k \in Nat /\ k + 1 = i /\ k < Len(p) /\ k \in 0 .. n
    BY <1>2, <1>9
  <2>2. /\ Driver(d) /\ ~d.stall /\ Recognised(d, p, k) /\ Reads(d, p[k + 1], e) /\ DriverInv(d, ns, W)
        /\ IsASequence(d.heard)
    BY <1>3, <1>4, <2>1
  <2> HIDE DEF d, e, k
  <2>3. Grammar(e, p, k + 1, at)
    BY <1>2, <2>1, <2>2, GrammarStep
  <2>4. WakeInv(e, p, k + 1, out)
    BY <1>2, <1>6, <2>1, <2>2, WakeStep
  <2>5. d.parse = "HEADER" => "MAYTX" \in d.inte
    BY <2>1 DEF WakeInv, Watched
  <2>6. Waits(e) /\ Pursues(e, p, k + 1, O, now) /\ Seen(e, p, k + 1, begun)
    BY <1>2, <1>7, <2>1, <2>2, <2>5, PursuesStep
  <2> QED BY <2>1, <2>3, <2>4, <2>6 DEF e
<1>10. \A i \in 1 .. n : i - 1 \in T => i \in T
  <2>1. \A i \in 1 .. n : i \in 0 .. n
    BY <1>2
  <2> QED BY <1>9, <2>1
<1>11. n \in T
  <2>1. \A i \in 0 .. n : i \in T
    <3> HIDE DEF T
    <3> QED BY <1>2, <1>8, <1>10, CountUp
  <2>2. n \in 0 .. n
    BY <1>2
  <2> QED BY <2>1, <2>2
<1> DEFINE e == u[n]
<1>12. n \in 0 .. n
  BY <1>2
<1>13. /\ Waits(e) /\ Pursues(e, p, n, O, now) /\ Seen(e, p, n, begun) /\ Steady(cd, e)
       /\ Grammar(e, p, n, at) /\ Driver(e)
  BY <1>3, <1>11, <1>12
<1>14. p = cd.rx \o cd.isr
  BY DEF p, Pipe
<1>15. CASE cd' = e /\ n = Len(cd.rx)
  <2> HIDE DEF e
  <2>1. Pipe(e) = cd.isr /\ IsASequence(cd.rx) /\ IsASequence(cd.isr)
    BY <1>13, LoopLeaves
  <2>2. Pursues(e, Pipe(e), 0, O, now) /\ Seen(e, Pipe(e), 0, begun)
    BY <1>13, <1>14, <1>15, <2>1, PursuedRebased
  <2> QED BY <1>13, <1>15, <2>2
<1>16. CASE cd' = LineQuiet(e) /\ n + 1 = Len(p) /\ p[n + 1].is = "quiet"
  <2>1. ~begun
    BY <1>7, <1>16, <1>q
  <2> DEFINE g == LineQuiet(e)
  <2>2. Reset(g) /\ Waits(g) /\ Pursues(g, Pipe(g), 0, O, now)
    BY <1>2, <1>13, <1>16, ResetPursues
  <2>3. cd' = g
    BY <1>16
  <2> HIDE DEF g
  <2>4. Seen(g, Pipe(g), 0, begun)
    BY <2>1 DEF Seen
  <2> QED BY <2>2, <2>3, <2>4
<1> QED BY <1>2, <1>15, <1>16

-----------------------------------------------------------------------------
(***************************************************************************)
(* All the frames of O are pursued or reported: the lines.                 *)
(***************************************************************************)
(* What the receiving machine holds back is less than ten bits, so that a  *)
(* crc or an acknowledgement is handed over before the bus is free.        *)
Held(d, at) ==
  (\E i \in 1 .. Len(d.isr) : d.isr[i].is \in {"crc", "ack"}) =>
    /\ at \in {"ack", "eof0", "bit5", "bit7", "pause", "flag", "delimiter"}
    /\ at \in {"ack", "eof0"} => d.held >= 1
    /\ at = "bit5" => d.held >= 5
    /\ at = "bit7" => d.held >= 7
    /\ at = "pause" => d.held >= 8

(* What a line leaves of a frame that the parser is in.                    *)
LEMMA ActsTell ==
  ASSUME NEW l, NEW d, NEW e, Acts(l, d, e), Line1(d, e), NEW n, NEW W, DriverInv(d, n, W),
         l \in d.inte, Waits(d), IsASequence(d.heard)
  PROVE  /\ Proceeds(d, e) /\ Waits(e)
         /\ \/ l \in {"MATCHED", "MAYTX"} /\ e.report = "IDLE"
            \/ d.report \notin {"TX_ACK", "TX_EOF"} /\ e.report = d.report
         /\ \A f : Inside(d, f) =>
              \/ Over(e, f)
              \/ Inside(e, f)
              \/ l = "MAYTX" /\ d.report \in {"TX_ACK", "RX_ACK"}
<1>1. e.msg = d.msg /\ e.parse = d.parse /\ Driver(d)
  BY DEF Line1, DriverInv, QueueInv
<1>2. d.report \in {"TX_ACK", "TX_EOF"} => l \in {"MAYTX", "MATCHED"} /\ d.queue # <<>>
  BY DEF DriverInv, Duties
<1>3. d.report \in {"IDLE", "RX_ACK", "TX_ACK", "RX_EOF", "TX_EOF"}
  BY DEF DriverInv, QueueInv, Kinds
<1>4. ASSUME NEW h, NEW lines, Schedules(h, e, lines)
      PROVE  e.report = h.report /\ e.queue = h.queue /\ e.heard = h.heard /\ lines \subseteq e.inte
  BY <1>4 DEF Schedules, Only, Fields
<1>5. ASSUME e.report = d.report, e.queue = d.queue, e.heard = d.heard, l \in {"ACKDONE", "TXPENDING"},
             d.report # "IDLE" => "MAYTX" \in e.inte
      PROVE  /\ Proceeds(d, e) /\ Waits(e)
             /\ d.report \notin {"TX_ACK", "TX_EOF"} /\ e.report = d.report
             /\ \A f : Inside(d, f) => Inside(e, f)
  <2>1. Proceeds(d, e) /\ d.report \notin {"TX_ACK", "TX_EOF"}
    BY <1>2, <1>5 DEF Proceeds
  <2>2. Waits(e)
    BY <1>1, <1>5 DEF Waits
  <2>3. \A f : Inside(d, f) => Inside(e, f)
    BY <1>1, <1>5 DEF Inside, Receiving
  <2> QED BY <1>5, <2>1, <2>2, <2>3
<1>6. ASSUME NEW h, NEW received, NEW transmitted, Finishes(d, h, received, transmitted),
             Schedules(h, e, {}), l \in {"MATCHED", "MAYTX"},
             received \subseteq {"RX_ACK", "RX_EOF"}, transmitted \subseteq {"TX_ACK", "TX_EOF"},
             d.report \in {"RX_EOF", "TX_EOF"} \/ l = "MATCHED" => d.report \in received \cup transmitted \cup {"IDLE"}
      PROVE  /\ Proceeds(d, e) /\ Waits(e)
             /\ e.report = "IDLE"
             /\ \A f : Inside(d, f) => \/ Over(e, f)
                                       \/ l = "MAYTX" /\ d.report \in {"TX_ACK", "RX_ACK"}
  <2>1. /\ h.report = "IDLE"
        /\ h.queue = IF d.report \in transmitted THEN Tail(d.queue) ELSE d.queue
        /\ h.heard = IF d.report \in received THEN Append(d.heard, d.msg) ELSE d.heard
    BY <1>6 DEF Finishes
  <2>2. e.report = "IDLE" /\ e.queue = h.queue /\ e.heard = h.heard
    BY <1>4, <1>6, <2>1
  <2>3. Proceeds(d, e)
    BY <1>2, <1>6, <2>1, <2>2 DEF Proceeds
  <2>4. Waits(e)
    BY <2>2 DEF Waits
  <2>5. ASSUME NEW f, Inside(d, f), ~(l = "MAYTX" /\ d.report \in {"TX_ACK", "RX_ACK"})
        PROVE  Over(e, f)
    <3>1. IF f.own THEN d.report \in {"TX_ACK", "TX_EOF"} ELSE d.report \in {"RX_ACK", "RX_EOF"}
      BY <2>5 DEF Inside, Receiving
    <3>2. d.report \in received \cup transmitted
      BY <1>6, <2>5, <3>1
    <3>3. IF f.own THEN d.report \in transmitted ELSE d.report \in received
      BY <1>6, <3>1, <3>2
    <3>4. IF f.own THEN e.queue = Tail(d.queue) ELSE e.heard = Append(d.heard, d.msg)
      BY <2>1, <2>2, <3>3
    <3> QED BY <2>5, <3>4, Tells
  <2> QED BY <2>2, <2>3, <2>4, <2>5
<1>7. CASE l = "ACKDONE"
  <2>1. PICK h : Only(d, h, {"key"}) /\ Schedules(h, e, {"MAYTX", "MATCHED"})
    BY <1>7 DEF Acts
  <2>2. h.report = d.report /\ h.queue = d.queue /\ h.heard = d.heard
    BY <2>1 DEF Only, Fields
  <2>3. e.report = d.report /\ e.queue = d.queue /\ e.heard = d.heard /\ "MAYTX" \in e.inte
    BY <1>4, <2>1, <2>2
  <2> QED BY <1>5, <1>7, <2>3
<1>8. CASE l = "MATCHED"
  <2>1. PICK h : Finishes(d, h, {"RX_ACK", "RX_EOF"}, {"TX_ACK", "TX_EOF"}) /\ Schedules(h, e, {})
    BY <1>8 DEF Acts
  <2> QED BY <1>3, <1>6, <1>8, <2>1
<1>9. CASE l = "MAYTX"
  <2>1. PICK h : Finishes(d, h, {"RX_EOF"}, {"TX_EOF"}) /\ Schedules(h, e, {})
    BY <1>9 DEF Acts
  <2> QED BY <1>6, <1>9, <2>1
<1>10. CASE l = "TXPENDING" /\ Injects(d, e)
  <2>1. Only(d, e, {"tx", "irq", "key", "sm", "inte"}) /\ e.inte = {"MAYTX", "ACKDONE"}
    BY <1>10 DEF Injects
  <2>2. e.report = d.report /\ e.queue = d.queue /\ e.heard = d.heard
    BY <2>1 DEF Only, Fields
  <2> QED BY <1>5, <1>10, <2>1, <2>2
<1>11. CASE l = "TXPENDING" /\ Schedules(d, e, d.inte \ {"TXPENDING"})
  <2>1. e.report = d.report /\ e.queue = d.queue /\ e.heard = d.heard
        /\ (d.inte \ {"TXPENDING"}) \subseteq e.inte
    BY <1>4, <1>11
  <2>2. d.report # "IDLE" => "MAYTX" \in e.inte
    BY <2>1 DEF Waits
  <2> QED BY <1>5, <1>11, <2>1, <2>2
<1> QED BY <1>7, <1>8, <1>9, <1>10, <1>11 DEF Acts

(* On an idle line no frame that is in order is still to be acknowledged.  *)
LEMMA IdleEnds ==
  ASSUME NEW d, NEW at, NEW p, p = d.isr, IsASequence(p), "MAYTX" \in d.irq, Signals(d),
         d.sync \in Still => at = "free", Follows(d, p, 0, at), Held(d, at), Waits(d),
         NEW f, NEW now, at = "free" => now = {}, Inside(d, f), Intact(p, 0, f, now)
  PROVE  d.report \notin {"TX_ACK", "RX_ACK"}
<1> SUFFICES ASSUME d.report \in {"TX_ACK", "RX_ACK"} PROVE FALSE
  OBVIOUS
<1>1. at = "free" /\ Grammar(d, p, 0, at) /\ now = {}
  BY DEF Signals, Follows, Still
<1>2. d.parse \in {"CRC", "ACK"}
  BY DEF Waits, Inside, InFrame
<1>3. Len(p) \in Nat
  BY DEF IsASequence
<1>4. PICK m \in 0 + 1 .. Len(p) + 1 :
        /\ \A j \in 0 + 1 .. m - 1 : Plain(p[j])
        /\ IF m = Len(p) + 1 THEN f \in now ELSE Ending(p[m], f.own)
  BY DEF Intact
<1>5. m # Len(p) + 1 /\ 0 < Len(p) /\ 1 \in 1 .. Len(p) /\ 0 + 1 = 1
      /\ (m = 1 \/ 1 \in 0 + 1 .. m - 1)
  BY <1>1, <1>3, <1>4
<1>6. Awaits(d.parse, p[1])
  BY <1>1, <1>5 DEF Grammar
<1>7. p[1].is \in {"crc", "ack", "flag"} \/ (p[1].is = "part" /\ p[1].bits = 9)
  <2>1. PICK x : Fits(d.parse, x) /\ Comes(x, p[1])
    BY <1>6 DEF Awaits
  <2>2. x \in {"check", "crc", "ack"}
    BY <1>2, <2>1 DEF Fits
  <2> QED BY <2>1, <2>2 DEF Comes
<1>8. CASE m = 1
  BY <1>4, <1>5, <1>7, <1>8 DEF Ending
<1>9. CASE 1 \in 0 + 1 .. m - 1 /\ p[1].is # "part"
  <2>1. p[1].is \in {"crc", "ack"}
    BY <1>4, <1>7, <1>9 DEF Plain
  <2> QED BY <1>1, <1>5, <2>1 DEF Held
<1>10. CASE 1 \in 0 + 1 .. m - 1 /\ p[1].is = "part"
  <2>1. Leads(p[1]) = "crc"
    BY <1>7, <1>10 DEF Leads
  <2>2. Len(p) # 1
    BY <1>1, <1>5, <2>1 DEF Grammar
  <2>3. /\ 2 \in 1 .. Len(p) /\ 1 \in 0 + 1 .. Len(p) - 1 /\ 1 + 1 = 2
        /\ m # 1 /\ (m = 2 \/ 2 \in 0 + 1 .. m - 1)
    BY <1>3, <1>4, <1>5, <1>10, <2>2
  <2>4. Comes("crc", p[2])
    BY <1>1, <2>1, <2>3 DEF Grammar
  <2>5. p[2].is \in {"crc", "flag"}
    BY <2>4 DEF Comes
  <2>6. p[2].is = "crc"
    BY <1>4, <1>5, <2>3, <2>5 DEF Plain, Ending
  <2> QED BY <1>1, <2>3, <2>6 DEF Held
<1> QED BY <1>5, <1>8, <1>9, <1>10

LEMMA LinePursues ==
  ASSUME NEW l, NEW d, NEW e, Acts(l, d, e), Line1(d, e), NEW n, NEW W, DriverInv(d, n, W),
         l \in d.irq, l \in d.inte, d.rx = <<>>, NEW p, p = d.isr, IsASequence(p), ~d.stall,
         NEW at, HeldBack(d, at), Cleared(d, at), Signals(d), d.sync \in Still => at = "free",
         Follows(d, p, 0, at), Held(d, at), Recognised(d, p, 0), Waits(d), IsASequence(d.heard),
         NEW O, NEW now, at = "free" => now = {}, Pursues(d, p, 0, O, now),
         NEW begun, Seen(d, p, 0, begun)
  PROVE  /\ Waits(e) /\ Pursues(e, p, 0, O, now) /\ Seen(e, p, 0, begun)
         /\ \A f \in O : f.own => Over(e, f)
<1>1. e.parse = d.parse
  BY DEF Line1
<1>2. /\ Proceeds(d, e) /\ Waits(e)
      /\ \/ l \in {"MATCHED", "MAYTX"} /\ e.report = "IDLE"
         \/ d.report \notin {"TX_ACK", "TX_EOF"} /\ e.report = d.report
  BY ActsTell
<1>3. \A i : Due(d, 0, i) <=> Due(e, 0, i)
  BY <1>1 DEF Due
<1>4. Seen(e, p, 0, begun)
  BY <1>3 DEF Seen
<1>5. ASSUME NEW f, f.own, NEW i \in 0 + 1 .. Len(p), Meets(d, p, 0, i, f) PROVE FALSE
  <2>1. /\ i \in 1 .. Len(d.isr) /\ d.isr[i].is = "header" /\ Own(p, i)
    BY <1>5 DEF Meets, Own
  <2>2. i = 1 /\ d.parse = "HEADER"
    BY <1>5, <2>1 DEF HeldBack, Meets, Due
  <2>3. Live(d, p, 0, i)
    BY <2>1, <2>2 DEF Live, Dazed
  <2>4. d.tx = "QUEUED"
    BY <2>3 DEF Recognised
  <2>5. l = "MAYTX"
    BY <2>2, <2>4 DEF DriverInv, Duties
  <2> QED BY <2>2, <2>5, NoHeader
<1>6. ASSUME NEW f \in O PROVE (Pursued(e, p, 0, f, now) \/ Over(e, f)) /\ (f.own => Over(e, f))
  <2>1. CASE Over(d, f)
    BY <1>2, <2>1, OverStays
  <2>2. CASE Inside(d, f) /\ Intact(p, 0, f, now)
    <3>1. l = "MAYTX" => d.report \notin {"TX_ACK", "RX_ACK"}
      BY <2>2, IdleEnds
    <3>2. Over(e, f) \/ Inside(e, f)
      BY <2>2, <3>1, ActsTell
    <3>3. f.own => ~Inside(e, f)
      BY <1>2 DEF Inside
    <3> QED BY <2>2, <3>2, <3>3 DEF Pursued
  <2>3. ASSUME NEW i \in 0 + 1 .. Len(p), Meets(d, p, 0, i, f), Intact(p, i, f, now)
        PROVE  Pursued(e, p, 0, f, now) /\ ~f.own
    <3>1. ~f.own
      BY <1>5, <2>3
    <3>2. Meets(e, p, 0, i, f)
      BY <1>3, <2>3 DEF Meets
    <3> QED BY <2>3, <3>1, <3>2 DEF Pursued
  <2> QED BY <2>1, <2>2, <2>3 DEF Pursues, Pursued
<1> QED BY <1>2, <1>4, <1>6 DEF Pursues

LEMMA FieldBits ==
  ASSUME NEW f
  PROVE  /\ f.is = "sof" => Bits(f) = 1
         /\ f.is = "crc" => Bits(f) = 7
         /\ f.is \in {"ack", "eof1"} => Bits(f) = 2
         /\ f.is = "eof0" => Bits(f) = 4
         /\ f.is = "flag" => Bits(f) = 6
         /\ f.is \in {"part", "passive"} => Bits(f) = f.bits
BY DEF Bits

LEMMA PutHeldShort ==
  ASSUME NEW d, Driver(d), Machine(d), ~d.stall, Signals(d), NEW at, Held(d, at),
         NEW f, Comes(at, f), f.is = "passive" => f.bits = 10, NEW total,
         IF f.is = "header" THEN total \in 20 .. 29
         ELSE total = d.held + Bits(f) \/ (f.is \in {"passive", "quiet"} /\ at = "free")
  PROVE  Held(Put(d, f, total), Leads(f))
<1> DEFINE e == Put(d, f, total)
           at2 == Leads(f)
           Has(s) == \E i \in 1 .. Len(s) : s[i].is \in {"crc", "ack"}
<1>1. d.held \in Nat /\ IsASequence(d.isr)
  BY DEF Machine
<1>2. \/ /\ d.sync = "lost" \/ (d.stall /\ d.rx # <<>>)
         /\ e = d
      \/ /\ ~(d.sync = "lost" \/ (d.stall /\ d.rx # <<>>))
         /\ \/ total < 10 /\ e.rx = d.rx /\ e.isr = Append(d.isr, f) /\ e.held = total
            \/ /\ ~(total < 10) /\ total % 10 = 0
               /\ e.rx = Append(d.rx \o d.isr, f) /\ e.isr = <<>> /\ e.held = 0
            \/ /\ ~(total < 10) /\ total % 10 # 0
               /\ e.rx = d.rx \o d.isr /\ e.isr = <<f>> /\ e.held = total % 10
  BY PutDoes, Zenon
<1> HIDE DEF e
<1> SUFFICES ASSUME Has(e.isr) PROVE Held(e, at2)
  BY DEF Held, e
<1>3. ~Has(<<>>)
  OBVIOUS
<1>4. /\ at \in At \cup {"free"}
      /\ f.is \in {"sof", "header", "crc", "ack", "eof0", "part", "eof1", "flag", "passive", "quiet"}
      /\ f.is = "part" => \/ f.bits = 2 /\ at = "bit5"
                          \/ f.bits = 1 /\ at = "bit7"
                          \/ at = "check"
      /\ f.is \in {"crc", "ack", "eof0"} => at = f.is
      /\ f.is = "header" => at = "header"
      /\ f.is = "passive" => at \in {"free", "delimiter"}
      /\ f.is \in {"sof", "quiet"} => at = "free"
      /\ f.is = "eof1" => (f.first = "none" /\ at = "pause") \/ (f.first # "none")
  BY LeadsIn DEF Comes
<1>5. CASE e.isr = Append(d.isr, f) /\ total < 10 /\ e.held = total
  <2>1. f.is # "header" /\ (at # "free" => total = d.held + Bits(f))
    <3>1. ~(total \in 20 .. 29)
      BY <1>5
    <3> QED BY <3>1
  <2>2. Has(d.isr) \/ f.is \in {"crc", "ack"}
    <3>1. /\ Len(d.isr) \in Nat /\ Len(e.isr) = Len(d.isr) + 1
          /\ \A i \in 1 .. Len(d.isr) : e.isr[i] = d.isr[i]
          /\ e.isr[Len(d.isr) + 1] = f
      BY <1>1, <1>5, AppendedAt
    <3>2. PICK i \in 1 .. Len(e.isr) : e.isr[i].is \in {"crc", "ack"}
      OBVIOUS
    <3>3. i \in 1 .. Len(d.isr) \/ i = Len(d.isr) + 1
      BY <3>1
    <3> QED BY <3>1, <3>2, <3>3
  <2>3. CASE f.is \in {"crc", "ack"}
    <3>1. at2 \in {"ack", "eof0", "flag"} /\ total >= 1
      BY <1>1, <1>4, <2>1, <2>3, FieldBits DEF Leads
    <3> QED BY <1>5, <3>1 DEF Held
  <2>4. CASE Has(d.isr) /\ f.is \notin {"crc", "ack"}
    <3>1. /\ at \in {"ack", "eof0", "bit5", "bit7", "pause", "flag", "delimiter"}
          /\ at \in {"ack", "eof0"} => d.held >= 1
          /\ at = "bit5" => d.held >= 5
          /\ at = "bit7" => d.held >= 7
          /\ at = "pause" => d.held >= 8
      BY <2>4 DEF Held
    <3>2. CASE f.is = "eof0"
      <4>1. at2 = "bit5" /\ total >= 5
        BY <1>1, <1>4, <2>1, <3>1, <3>2, FieldBits DEF Leads
      <4> QED BY <1>5, <4>1 DEF Held
    <3>3. CASE f.is = "part"
      <4>1. (at2 = "bit7" /\ total >= 7) \/ (at2 = "pause" /\ total >= 8)
        BY <1>1, <1>4, <2>1, <3>1, <3>3, FieldBits DEF Leads
      <4> QED BY <1>5, <4>1 DEF Held
    <3>4. CASE f.is = "eof1"
      <4>1. f.first # "none"
        BY <1>1, <1>4, <1>5, <2>1, <3>1, <3>4, FieldBits
      <4>2. at2 = "flag"
        BY <3>4, <4>1 DEF Leads
      <4> QED BY <1>5, <4>2 DEF Held
    <3>5. CASE f.is = "flag"
      <4>1. at2 = "delimiter"
        BY <3>5 DEF Leads
      <4> QED BY <1>5, <4>1 DEF Held
    <3>6. f.is \notin {"header", "sof", "quiet"}
      BY <1>4, <3>1
    <3>7. f.is # "passive"
      BY <1>1, <1>4, <1>5, <2>1, <3>1, FieldBits
    <3> QED BY <1>4, <2>4, <3>2, <3>3, <3>4, <3>5, <3>6, <3>7
  <2> QED BY <2>2, <2>3, <2>4
<1>6. CASE e.isr = <<f>> /\ total % 10 # 0 /\ ~(total < 10) /\ e.held = total % 10
  <2>1. f.is \in {"crc", "ack"}
    BY <1>6
  <2>2. total \in Nat /\ e.held >= 1
    BY <1>1, <1>6, <2>1, FieldBits
  <2>3. at2 \in {"ack", "eof0", "flag"}
    BY <2>1 DEF Leads
  <2> QED BY <2>2, <2>3 DEF Held
<1> QED BY <1>2, <1>3, <1>5, <1>6 DEF Signals

-----------------------------------------------------------------------------
(***************************************************************************)
(* No frame is missed, and none is sent again: while no bits have been     *)
(* lost, every frame that has to be reported is pursued, or is reported.   *)
(***************************************************************************)
(* The frame on the bus, undisturbed, its header sent.                     *)
OnItsWay == {"check", "crc", "ack", "eof0", "bit5", "bit7", "pause"}
Now == IF bus.at \in OnItsWay /\ bus.clean THEN {Name(bus)} ELSE {}

(* The frames that have to be reported.  After a restart that is only      *)
(* known of this board's: they are in its queue no more.                   *)
Owed ==
  { f \in Frame : /\ ~f.same /\ (f.own \/ restarts = 0)
                  /\ f \in complete \/ (f.own /\ f.n \in delivered) \/ f \in Now }

Numbers ==
  /\ delivered \subseteq 1 .. sent
  /\ \A f \in complete : f \in Foreign /\ f.n \in 1 .. foreign
  /\ bus # Free => IF bus.own THEN ~bus.same /\ bus.n \in 1 .. sent ELSE bus.n \in 1 .. foreign

(* The frame on the bus is a new one.                                      *)
Fresh ==
  /\ bus.at \in {"header", "check", "crc", "ack", "eof0", "bit5", "bit7"} /\ bus.own => bus.n \notin delivered
  /\ bus.at \in {"header", "check", "crc", "ack", "eof0", "bit5"} /\ ~bus.own => Name(bus) \notin complete

(* What the transmitter is about to send has not been delivered, nor is it *)
(* in a frame that will be.                                                *)
Closing == {"ack", "eof0", "bit5", "bit7", "pause"}
Reload ==
  cd.sm = "send" => /\ cd.load \notin delivered
                    /\ ~(bus.at \in Closing /\ bus.own /\ bus.clean /\ bus.n = cd.load)

Alive == restarts = 0 => cd.on /\ (cd.sync = "lost" => bus = Free)

HeaderSeen == bus.at = "header" /\ bus.clean /\ cd.sync # "lost"

Followed == /\ Waits(cd) /\ Pursues(cd, Pipe(cd), 0, Owed, Now)
            /\ Seen(cd, Pipe(cd), 0, HeaderSeen)

TrackOK ==
  ~overrun => /\ Numbers /\ Fresh /\ Reload /\ Held(cd, bus.at) /\ Alive
              /\ cd.on => Followed

(* The parser and the queue are as they were.                              *)
Alike(d, e) ==
  /\ e.parse = d.parse /\ e.msg = d.msg /\ e.report = d.report /\ e.inte = d.inte
  /\ e.queue = d.queue /\ e.heard = d.heard

(* A field more: what it has to be in the frame that is on the bus.        *)
Fitting(f, x, now, now2) == x \in now => (Plain(f) /\ x \in now2) \/ Ending(f, x.own)

LEMMA IntactLonger ==
  ASSUME NEW p, IsASequence(p), NEW f, NEW x, NEW now, NEW now2, Fitting(f, x, now, now2),
         NEW i \in Nat, Intact(p, i, x, now)
  PROVE  Intact(Append(p, f), i, x, now2)
<1> DEFINE q == Append(p, f)
           n == Len(p)
<1>1. /\ n \in Nat /\ Len(q) = n + 1 /\ q[n + 1] = f
      /\ \A j \in 1 .. n : q[j] = p[j]
  BY AppendedAt
<1>2. PICK m \in i + 1 .. n + 1 : /\ \A j \in i + 1 .. m - 1 : Plain(p[j])
                                  /\ IF m = n + 1 THEN x \in now ELSE Ending(p[m], x.own)
  BY DEF Intact
<1> HIDE DEF q, n
<1>3. \A j \in i + 1 .. m - 1 : j \in 1 .. n /\ Plain(q[j])
  BY <1>1, <1>2
<1>4. CASE m # n + 1
  <2>1. m \in 1 .. n /\ m \in i + 1 .. (n + 1) + 1 /\ m # (n + 1) + 1
    BY <1>1, <1>2, <1>4
  <2>2. Ending(q[m], x.own)
    BY <1>1, <1>2, <1>4, <2>1
  <2> QED BY <1>1, <1>3, <2>1, <2>2 DEF Intact, q
<1>5. CASE m = n + 1 /\ Ending(f, x.own)
  <2>1. m \in i + 1 .. (n + 1) + 1 /\ m # (n + 1) + 1
    BY <1>1, <1>2, <1>5
  <2>2. Ending(q[m], x.own)
    BY <1>1, <1>5
  <2> QED BY <1>1, <1>3, <2>1, <2>2 DEF Intact, q
<1>6. CASE m = n + 1 /\ ~Ending(f, x.own)
  <2>1. Plain(f) /\ x \in now2
    BY <1>2, <1>6 DEF Fitting
  <2>2. m + 1 = (n + 1) + 1 /\ m + 1 \in i + 1 .. (n + 1) + 1
        /\ \A j \in i + 1 .. (m + 1) - 1 : j = n + 1 \/ j \in i + 1 .. m - 1
    BY <1>1, <1>2, <1>6
  <2>3. \A j \in i + 1 .. (m + 1) - 1 : Plain(q[j])
    BY <1>1, <1>3, <2>1, <2>2
  <2> QED BY <1>1, <2>1, <2>2, <2>3 DEF Intact, q
<1> QED BY <1>4, <1>5, <1>6

LEMMA PursuedLonger ==
  ASSUME NEW d, NEW e, Alike(d, e), NEW p, IsASequence(p), NEW f, NEW x, NEW now, NEW now2,
         Fitting(f, x, now, now2), Pursued(d, p, 0, x, now) \/ Over(d, x)
  PROVE  Pursued(e, Append(p, f), 0, x, now2) \/ Over(e, x)
<1> DEFINE q == Append(p, f)
           n == Len(p)
<1>1. /\ n \in Nat /\ Len(q) = n + 1 /\ \A j \in 1 .. n : q[j] = p[j]
  BY AppendedAt
<1>2. \A i : i \in Nat /\ Intact(p, i, x, now) => Intact(q, i, x, now2)
  BY IntactLonger
<1> HIDE DEF q, n
<1>3. CASE Over(d, x)
  BY <1>3 DEF Over, Alike
<1>4. CASE Inside(d, x) /\ Intact(p, 0, x, now)
  <2>1. Inside(e, x)
    BY <1>4 DEF Inside, Receiving, Alike
  <2>2. Intact(q, 0, x, now2)
    BY <1>2, <1>4
  <2> QED BY <2>1, <2>2 DEF Pursued, q
<1>5. ASSUME NEW i \in 0 + 1 .. n, Meets(d, p, 0, i, x), Intact(p, i, x, now)
      PROVE  Pursued(e, q, 0, x, now2)
  <2>1. i \in 1 .. n /\ i \in 0 + 1 .. n + 1 /\ i \in Nat
    BY <1>1, <1>5
  <2>2. Meets(e, q, 0, i, x)
    BY <1>1, <1>5, <2>1 DEF Meets, Due, Alike
  <2>3. Intact(q, i, x, now2)
    BY <1>2, <1>5, <2>1
  <2> QED BY <1>1, <2>1, <2>2, <2>3 DEF Pursued
<1> QED BY <1>3, <1>4, <1>5 DEF Pursued, q, n

(* The same where no field comes.                                          *)
LEMMA PursuedAlike ==
  ASSUME NEW d, NEW e, Alike(d, e), NEW p, NEW x, NEW now, Pursued(d, p, 0, x, now) \/ Over(d, x)
  PROVE  Pursued(e, p, 0, x, now) \/ Over(e, x)
<1>1. Over(d, x) => Over(e, x)
  BY DEF Over, Alike
<1>2. Inside(d, x) => Inside(e, x)
  BY DEF Inside, Receiving, Alike
<1>3. \A i : Meets(d, p, 0, i, x) => Meets(e, p, 0, i, x)
  BY DEF Meets, Due, Alike
<1> QED BY <1>1, <1>2, <1>3 DEF Pursued

(* A driver that has just been started pursues nothing, nor one that is    *)
(* out of step with the bus.                                               *)
LEMMA NothingPursued ==
  ASSUME NEW d, d.parse \notin InFrame, NEW x, NEW now
  PROVE  ~Pursued(d, <<>>, 0, x, now)
<1>1. \A i \in 0 + 1 .. Len(<<>>) : FALSE
  OBVIOUS
<1> QED BY <1>1 DEF Pursued, Inside

LEMMA WaitsAlike ==
  ASSUME NEW d, NEW e, Alike(d, e), Waits(d) PROVE Waits(e)
BY DEF Alike, Waits

(* On a free bus nothing is on its way.                                    *)
LEMMA NoneNow ==
  bus.at \in {"free", "header", "flag", "delimiter"} => Now = {}
BY DEF Now, OnItsWay

(* Steps: the interrupt.                                                   *)
LEMMA LoopHeld ==
  ASSUME IrqRxData, Base, FlowOK, ~cd.stall, QuietLast(cd)
  PROVE  cd'.held = cd.held
<1>1. PICK u, n : Loop(u, n)
  BY LoopReads
<1> DEFINE p == Pipe(cd)
           T == { i \in 0 .. n : u[i].held = cd.held }
<1>2. n \in Nat /\ (cd' = u[n] \/ cd' = LineQuiet(u[n])) /\ u[0] = Flushed(cd)
  BY <1>1 DEF Loop
<1>3. \A i \in 0 .. n : Driver(u[i])
  BY <1>1 DEF Loop, DriverInv, QueueInv
<1>4. \A i \in 1 .. n : Reads(u[i - 1], p[i], u[i])
  BY <1>1 DEF Loop
<1>5. Flushed(cd).held = cd.held
  <2> DEFINE e == Flushed(cd)
  <2>1. Only(cd, e, {"rx"})
    BY FlushedDoes DEF Base, DriverInv, QueueInv
  <2> HIDE DEF e
  <2>2. e.held = cd.held
    BY <2>1 DEF Only, Fields
  <2> QED BY <2>2 DEF e
<1> HIDE DEF p
<1>6. 0 \in T
  BY <1>2, <1>5
<1>7. \A i \in 1 .. n : i - 1 \in T => i \in T
  <2> SUFFICES ASSUME NEW i \in 1 .. n, i - 1 \in T PROVE i \in T
    OBVIOUS
  <2>1. i - 1 \in 0 .. n /\ i \in 0 .. n /\ u[i - 1].held = cd.held
    BY <1>2
  <2>2. u[i].held = u[i - 1].held
    BY <1>3, <1>4, <2>1, ReadsKeeps
  <2> QED BY <2>1, <2>2
<1> HIDE DEF T
<1>8. \A i \in 0 .. n : i \in T
  BY <1>2, <1>6, <1>7, CountUp
<1>9. n \in T
  BY <1>2, <1>8
<1>10. n \in 0 .. n /\ u[n].held = cd.held
  BY <1>9 DEF T
<1>11. LineQuiet(u[n]).held = u[n].held
  BY <1>3, <1>10, ResetIs
<1> QED BY <1>2, <1>10, <1>11

(* Where the loop ends in the reset of a quiet line.                       *)
LEMMA ResetIsQuiet ==
  ASSUME IrqRxData, Base, FlowOK, ~cd.stall, QuietLast(cd), ~Steady(cd, cd')
  PROVE  bus = Free /\ cd'.on = cd.on
<1>1. PICK u, n : Loop(u, n)
  BY LoopReads
<1>2. n \in Nat /\ n \in 0 .. n /\ Steady(cd, u[n]) /\ Driver(u[n])
  BY <1>1 DEF Loop, DriverInv, QueueInv
<1>3. cd' = LineQuiet(u[n]) /\ n + 1 \in 1 .. Len(Pipe(cd)) /\ Pipe(cd)[n + 1].is = "quiet"
  BY <1>1, <1>2 DEF Loop
<1>4. cd'.on = cd.on
  BY <1>2, <1>3, ResetIs DEF Steady
<1>5. bus = Free
  BY <1>3 DEF QuietLast, FlowOK, Still
<1> QED BY <1>4, <1>5

(* The transmitter is loaded with what is first in the queue then.         *)
LEMMA ActsLoad ==
  ASSUME NEW l, NEW d, NEW e, Acts(l, d, e), e.sm = "send"
  PROVE  (d.sm = "send" /\ e.load = d.load) \/ (e.queue # <<>> /\ e.load = Head(e.queue))
<1>1. ASSUME NEW h, NEW lines, Schedules(h, e, lines), h.sm = d.sm, h.load = d.load
      PROVE  (d.sm = "send" /\ e.load = d.load) \/ (e.queue # <<>> /\ e.load = Head(e.queue))
  <2>1. e.queue = h.queue
    BY <1>1 DEF Schedules, Only, Fields
  <2> QED BY <1>1, <2>1 DEF Schedules
<1>2. ASSUME NEW h, NEW S, Only(d, h, S), "sm" \notin S, "load" \notin S
      PROVE  h.sm = d.sm /\ h.load = d.load
  BY <1>2 DEF Only, Fields
<1>3. ASSUME NEW h, NEW received, NEW transmitted, Finishes(d, h, received, transmitted)
      PROVE  h.sm = d.sm /\ h.load = d.load
  BY <1>2, <1>3 DEF Finishes, Reporting
<1>4. CASE l = "ACKDONE"
  <2>1. PICK h : Only(d, h, {"key"}) /\ Schedules(h, e, {"MAYTX", "MATCHED"})
    BY <1>4 DEF Acts
  <2> QED BY <1>1, <1>2, <2>1
<1>5. CASE l = "MATCHED"
  <2>1. PICK h : Finishes(d, h, {"RX_ACK", "RX_EOF"}, {"TX_ACK", "TX_EOF"}) /\ Schedules(h, e, {})
    BY <1>5 DEF Acts
  <2> QED BY <1>1, <1>3, <2>1
<1>6. CASE l = "MAYTX"
  <2>1. PICK h : Finishes(d, h, {"RX_EOF"}, {"TX_EOF"}) /\ Schedules(h, e, {})
    BY <1>6 DEF Acts
  <2> QED BY <1>1, <1>3, <2>1
<1>7. CASE l = "TXPENDING" /\ Injects(d, e)
  BY <1>7 DEF Injects
<1>8. CASE l = "TXPENDING" /\ Schedules(d, e, d.inte \ {"TXPENDING"})
  BY <1>1, <1>8
<1> QED BY <1>4, <1>5, <1>6, <1>7, <1>8 DEF Acts

(* What has been delivered, or will be, is owed as an own frame.           *)
LEMMA DeliveredOwed ==
  ASSUME Base, Numbers, NEW m,
         m \in delivered \/ (bus.at \in Closing /\ bus.own /\ bus.clean /\ bus.n = m)
  PROVE  \E f \in Owed : f.own /\ f.n = m
<1> DEFINE f == [own |-> TRUE, n |-> m, same |-> FALSE]
<1>1. sent \in Nat
  BY DEF Base, Counted
<1>2. CASE m \in delivered
  <2>1. m \in Nat
    BY <1>1, <1>2 DEF Numbers
  <2>2. f \in Owed
    BY <1>2, <2>1 DEF Owed, Frame
  <2> QED BY <2>2
<1>3. CASE bus.at \in Closing /\ bus.own /\ bus.clean /\ bus.n = m
  <2>1. bus # Free
    BY <1>3, FreeAt DEF Closing
  <2>2. m \in Nat /\ bus.own = TRUE /\ bus.same = FALSE
    BY <1>1, <1>3, <2>1 DEF Numbers, Base, BusOK
  <2>3. Name(bus) = f /\ Name(bus) \in Now
    BY <1>3, <2>2 DEF Name, Now, OnItsWay, Closing
  <2>4. f \in Owed
    BY <2>2, <2>3 DEF Owed, Frame
  <2> QED BY <2>4
<1> QED BY <1>2, <1>3

LEMMA HeardSequence ==
  ASSUME FlowOK PROVE IsASequence(cd.heard)
BY DEF FlowOK, FlowInv, HeardInOrder, IsASequence

LEMMA IrqKeepsTrack ==
  ASSUME Base, FlowOK, WakeOK, TrackOK, Irq PROVE TrackOK'
<1>1. /\ bus' = bus /\ overrun' = overrun /\ complete' = complete /\ delivered' = delivered
      /\ sent' = sent /\ foreign' = foreign /\ restarts' = restarts /\ cd.on
  BY IrqIs DEF Irq, IrqRxData, IrqLine, Untouched, counters, history
<1> SUFFICES ASSUME ~overrun
             PROVE  Numbers' /\ Fresh' /\ Reload' /\ Held(cd', bus'.at) /\ Alive' /\ Followed'
  BY <1>1 DEF TrackOK
<1>2. Numbers /\ Fresh /\ Reload /\ Held(cd, bus.at) /\ Alive /\ Followed
  BY <1>1 DEF TrackOK
<1>3. Numbers' /\ Fresh' /\ Owed' = Owed /\ Now' = Now
  BY <1>1, <1>2 DEF Numbers, Fresh, Owed, Now
<1>4. Attended(cd, bus.at, bus.own, HeaderOut, main = "wake")
  BY DEF WakeOK
<1>5. ~cd.stall /\ QuietLast(cd) /\ Cleared(cd, bus.at) /\ Follows(cd, Pipe(cd), 0, bus.at)
      /\ WakeInv(cd, Pipe(cd), 0, HeaderOut)
  BY <1>1, <1>4 DEF Attended, Tracked
<1>6. PICK O, now, begun, at : O = Owed /\ now = Now /\ begun = HeaderSeen /\ at = bus.at
  OBVIOUS
<1>7. /\ \A f \in O : ~f.same
      /\ (at = "free" => now = {}) /\ (begun => at = "header")
  BY <1>6, NoneNow DEF Owed, HeaderSeen
<1>8. Waits(cd) /\ Pursues(cd, Pipe(cd), 0, O, now) /\ Seen(cd, Pipe(cd), 0, begun)
  BY <1>2, <1>6 DEF Followed
<1>9. ASSUME cd'.sync = cd.sync, cd'.on = cd.on, Waits(cd'), Pursues(cd', Pipe(cd'), 0, O, now),
             Seen(cd', Pipe(cd'), 0, begun)
      PROVE  Alive' /\ Followed'
  <2>1. HeaderSeen' = begun
    BY <1>1, <1>6, <1>9 DEF HeaderSeen
  <2>2. Followed'
    BY <1>3, <1>6, <1>9, <2>1 DEF Followed
  <2>3. Alive'
    BY <1>1, <1>2, <1>9 DEF Alive
  <2> QED BY <2>2, <2>3
<1>10. CASE IrqRxData
  <2>1. /\ Waits(cd') /\ Pursues(cd', Pipe(cd'), 0, O, now) /\ Seen(cd', Pipe(cd'), 0, begun)
        /\ Steady(cd, cd') \/ Reset(cd')
    BY <1>5, <1>6, <1>7, <1>8, <1>10, LoopPursues
  <2>2. cd'.held = cd.held
    BY <1>5, <1>10, LoopHeld
  <2>3. CASE Steady(cd, cd')
    <3>1. Reload' /\ Held(cd', bus'.at)
      BY <1>1, <1>2, <2>2, <2>3 DEF Reload, Held, Steady
    <3>2. Alive' /\ Followed'
      BY <1>9, <2>1, <2>3 DEF Steady
    <3> QED BY <1>3, <3>1, <3>2
  <2>4. CASE Reset(cd') /\ ~Steady(cd, cd')
    <3>1. bus = Free /\ cd'.on = cd.on
      BY <1>5, <1>10, <2>4, ResetIsQuiet
    <3>2. Reload' /\ Held(cd', bus'.at)
      <4>1. \A i \in 1 .. Len(<<>>) : FALSE
        OBVIOUS
      <4> QED BY <2>4, <4>1 DEF Reload, Held, Reset
    <3>3. ~HeaderSeen' /\ Alive'
      BY <1>1, <1>2, <3>1, FreeAt DEF HeaderSeen, Alive
    <3>4. Followed'
      BY <1>3, <1>6, <2>1, <3>3 DEF Followed, Seen
    <3> QED BY <1>3, <3>2, <3>3, <3>4
  <2> QED BY <2>1, <2>3, <2>4
<1>11. ASSUME NEW l \in Lines, IrqLine(l)
       PROVE  Reload' /\ Held(cd', bus'.at) /\ Alive' /\ Followed'
  <2>1. /\ cd.rx = <<>> /\ l \in cd.irq /\ l \in cd.inte /\ Handled(l, cd, cd')
        /\ DriverInv(cd, sent, withdrawn) /\ Driver(cd) /\ IsASequence(cd.isr) /\ IsASequence(cd.rx)
    BY <1>11 DEF IrqLine, Base, Machine, DriverInv, QueueInv
  <2>2. Line1(cd, cd') /\ Acts(l, cd, cd')
    BY <2>1, HandledTells, HandledActs
  <2>3. /\ cd'.rx = cd.rx /\ cd'.isr = cd.isr /\ cd'.held = cd.held /\ cd'.sync = cd.sync
        /\ cd'.on = cd.on
    BY <2>2 DEF Line1, Streams, Rings
  <2>4. Pipe(cd) = cd.isr
    <3> DEFINE b == cd.isr
    <3>1. IsASequence(b) /\ IsASequence(<<>>)
      BY <2>1
    <3> HIDE DEF b
    <3>2. <<>> \o b = b
      BY <3>1, PipeOf
    <3> QED BY <2>1, <3>2 DEF Pipe, b
  <2>5. Pipe(cd') = cd.isr
    BY <2>3, <2>4 DEF Pipe
  <2>6. /\ HeldBack(cd, at) /\ Signals(cd) /\ (cd.sync \in Still => at = "free") /\ Held(cd, at)
        /\ Cleared(cd, at) /\ Recognised(cd, cd.isr, 0) /\ Follows(cd, cd.isr, 0, at)
        /\ IsASequence(cd.heard)
    BY <1>2, <1>5, <1>6, <2>4, FreeAt, HeardSequence DEF FlowOK, FlowInv
  <2>7. Waits(cd) /\ Pursues(cd, cd.isr, 0, O, now) /\ Seen(cd, cd.isr, 0, begun)
    BY <1>8, <2>4
  <2>8. /\ Waits(cd') /\ Pursues(cd', cd.isr, 0, O, now) /\ Seen(cd', cd.isr, 0, begun)
        /\ \A f \in O : f.own => Over(cd', f)
    BY <1>5, <1>7, <2>1, <2>2, <2>6, <2>7, LinePursues
  <2>9. Alive' /\ Followed'
    BY <1>9, <2>3, <2>5, <2>8
  <2>10. Held(cd', bus'.at)
    BY <1>1, <1>2, <2>3 DEF Held
  <2>11. Reload'
    <3> SUFFICES ASSUME cd'.sm = "send",
                        \/ cd'.load \in delivered
                        \/ bus.at \in Closing /\ bus.own /\ bus.clean /\ bus.n = cd'.load
                 PROVE  FALSE
      BY <1>1 DEF Reload
    <3>1. cd'.queue # <<>> /\ cd'.load = Head(cd'.queue)
      BY <1>2, <2>2, ActsLoad DEF Reload
    <3>2. PICK f \in O : f.own /\ f.n = cd'.load
      BY <1>2, <1>6, DeliveredOwed
    <3>3. \A j \in 1 .. Len(cd'.queue) : cd'.queue[j] # cd'.load
      BY <2>8, <3>2 DEF Over
    <3>4. Head(cd'.queue) = cd'.queue[1] /\ 1 \in 1 .. Len(cd'.queue)
      <4>1. DriverInv(cd', sent, withdrawn)
        BY <1>1, <2>1, HandledKeeps DEF Base, Counted
      <4>2. cd'.queue \in Seq(1 .. sent)
        BY <4>1 DEF DriverInv, QueueInv, Ordered
      <4> QED BY <3>1, <4>2, Emptied
    <3> QED BY <3>1, <3>3, <3>4
  <2> QED BY <2>9, <2>10, <2>11
<1> QED BY <1>3, <1>10, <1>11, IrqIs

(* Steps: the bus.                                                         *)
LEMMA PipeSequence ==
  ASSUME NEW d, Machine(d) PROVE IsASequence(Pipe(d))
<1> DEFINE a == d.rx
           b == d.isr
<1>1. IsASequence(a) /\ IsASequence(b)
  BY DEF Machine
<1> HIDE DEF a, b
<1>2. IsASequence(a \o b)
  BY <1>1, Joined
<1> QED BY <1>2 DEF Pipe, a, b

LEMMA EmptyPipe ==
  ASSUME NEW d, Signals(d), d.sync = "lost" PROVE Pipe(d) = <<>>
<1>1. <<>> \o <<>> = <<>>
  OBVIOUS
<1> QED BY <1>1 DEF Pipe, Signals

(* A frame begins.                                                         *)
LEMMA BegunTracks ==
  ASSUME Base, FlowOK, NEW c, Only(cd, c, {"sm"}), ~cd.stall, bus = Free, Held(cd, "free"),
         cd.on => Follows(cd, Pipe(cd), 0, "free") /\ Waits(cd),
         NEW O, cd.on => Pursues(cd, Pipe(cd), 0, O, {}), NEW begun, begun => cd.sync # "lost"
  PROVE  LET e == Begun(c)
         IN /\ e.sm = c.sm /\ e.load = cd.load /\ e.on = cd.on /\ e.sync = "frame"
            /\ Held(e, "header")
            /\ e.on => /\ Waits(e) /\ Pursues(e, Pipe(e), 0, O, {})
                       /\ Seen(e, Pipe(e), 0, begun)
<1> DEFINE e == Begun(c)
           p == Pipe(cd)
           f == Sof
           q == Append(p, f)
<1>1. Driver(cd) /\ Machine(cd) /\ Driver(c) /\ IsASequence(p) /\ cd.held \in Nat /\ Signals(cd)
  BY PipeSequence DEF Base, DriverInv, QueueInv, Machine, Only, FlowOK
<1>2. PICK b : /\ Only(c, b, {"sync", "irq"}) /\ b.sync = "frame" /\ b.irq = c.irq \ {"MAYTX"}
               /\ e = Put(b, f, b.held + 1)
  BY <1>1, BegunDoes
<1> HIDE DEF e
<1>3. /\ Only(cd, b, {"sm", "sync", "irq"}) /\ b.sm = c.sm /\ b.held = cd.held /\ b.rx = cd.rx
      /\ b.isr = cd.isr /\ b.stall = cd.stall /\ Driver(b) /\ b.head = cd.head /\ b.tail = cd.tail
      /\ b.irq = cd.irq \ {"MAYTX"}
  BY <1>2 DEF Only, Fields
<1>4. Machine(b) /\ Pipe(b) = p /\ Signals(b) /\ Held(b, "free")
  BY <1>1, <1>2, <1>3 DEF Machine, Pipe, Signals, Held
<1>5. Only(b, e, {"isr", "held", "rx"}) /\ Pipe(e) = q
  <2>1. Only(b, e, {"isr", "held", "rx"})
    BY <1>2, <1>3, PutDoes
  <2>2. Pipe(e) = Append(Pipe(b), f)
    BY <1>2, <1>3, <1>4, PutExact
  <2> QED BY <1>4, <2>1, <2>2
<1>6. f.is = "sof" /\ Leads(f) = "header" /\ Comes("free", f)
  BY FieldKinds DEF Leads, Comes
<1> HIDE DEF f, p, q
<1>7. Held(e, "header")
  <2>1. Bits(f) = 1
    BY <1>6, FieldBits
  <2>2. IF f.is = "header" THEN b.held + 1 \in 20 .. 29 ELSE b.held + 1 = b.held + Bits(f)
    BY <1>6, <2>1
  <2> QED BY <1>2, <1>3, <1>4, <1>6, <2>2, PutHeldShort
<1>8. /\ e.sm = c.sm /\ e.load = cd.load /\ e.on = cd.on /\ e.sync = "frame" /\ Alike(cd, e)
  BY <1>2, <1>3, <1>5 DEF Only, Fields, Alike
<1>9. ASSUME cd.on PROVE Waits(e) /\ Pursues(e, q, 0, O, {}) /\ Seen(e, q, 0, begun)
  <2>1. Waits(e)
    BY <1>8, <1>9, WaitsAlike
  <2>2. Pursues(e, q, 0, O, {})
    <3> SUFFICES ASSUME NEW x \in O PROVE Pursued(e, q, 0, x, {}) \/ Over(e, x)
      BY DEF Pursues
    <3>1. Pursued(cd, p, 0, x, {}) \/ Over(cd, x)
      BY <1>9 DEF Pursues, p
    <3>2. Fitting(f, x, {}, {})
      BY DEF Fitting
    <3> QED BY <1>1, <1>8, <3>1, <3>2, PursuedLonger DEF q
  <2>3. Seen(e, q, 0, begun)
    <3> SUFFICES ASSUME begun PROVE Due(e, 0, Len(q) + 1)
      BY DEF Seen
    <3>1. Rests(cd, p, 0, "free")
      BY <1>9 DEF Follows, p
    <3>2. Len(p) \in Nat /\ Len(q) = Len(p) + 1
      BY <1>1, AppendedAt DEF q
    <3> QED BY <1>8, <3>1, <3>2 DEF Due, Rests, Alike
  <2> QED BY <2>1, <2>2, <2>3
<1> QED BY <1>5, <1>7, <1>8, <1>9 DEF e

LEMMA FramesKeepTrack ==
  ASSUME Base, FlowOK, WakeOK, TrackOK, OwnFrame \/ \E same \in BOOLEAN : OtherFrame(same)
  PROVE  TrackOK'
<1>1. /\ bus = Free /\ bus.at = "free" /\ (overrun => overrun') /\ complete' = complete
      /\ delivered' = delivered /\ sent' = sent /\ restarts' = restarts
      /\ bus'.at = "header" /\ bus' # Free
  BY FreeAt, BeginOK DEF OwnFrame, OtherFrame, counters, history
<1> SUFFICES ASSUME ~overrun, ~overrun'
             PROVE  /\ Numbers' /\ Fresh' /\ Reload' /\ Held(cd', bus'.at) /\ Alive'
                    /\ cd'.on => Followed'
  BY <1>1 DEF TrackOK
<1>2. /\ Numbers /\ Fresh /\ Reload /\ Held(cd, bus.at) /\ Alive
      /\ cd.on => Followed
  BY DEF TrackOK
<1>3. Now = {} /\ Now' = {} /\ Owed' = Owed
  BY <1>1, NoneNow DEF Now, Owed, OnItsWay
<1>4. Attended(cd, bus.at, bus.own, HeaderOut, main = "wake")
  BY DEF WakeOK
<1>5. ~cd.stall /\ (cd.on => Follows(cd, Pipe(cd), 0, "free"))
  BY <1>1, <1>4 DEF Attended, Tracked
<1>6. PICK O, begun : O = Owed /\ begun = HeaderSeen'
  OBVIOUS
<1>7. bus'.clean = (cd.sync # "lost")
  BY DEF OwnFrame, OtherFrame, Begin
<1>8. ASSUME NEW c, Only(cd, c, {"sm"}), cd' = Begun(c)
      PROVE  /\ Held(cd', bus'.at) /\ Alive' /\ (cd'.on => Followed')
             /\ cd'.sm = c.sm /\ cd'.load = cd.load
  <2>1. begun => cd.sync # "lost"
    BY <1>6, <1>7 DEF HeaderSeen
  <2>2. /\ Held(cd, "free")
        /\ cd.on => Waits(cd) /\ Pursues(cd, Pipe(cd), 0, O, {})
    BY <1>1, <1>2, <1>3, <1>6 DEF Followed
  <2>3. /\ cd'.sm = c.sm /\ cd'.load = cd.load /\ cd'.on = cd.on /\ cd'.sync = "frame"
        /\ Held(cd', "header")
        /\ cd'.on => /\ Waits(cd') /\ Pursues(cd', Pipe(cd'), 0, O, {})
                     /\ Seen(cd', Pipe(cd'), 0, begun)
    BY <1>1, <1>5, <1>8, <2>1, <2>2, BegunTracks
  <2>4. cd'.on => Followed'
    BY <1>3, <1>6, <2>3 DEF Followed
  <2>5. Alive'
    BY <1>1, <1>2, <2>3 DEF Alive
  <2> QED BY <1>1, <2>3, <2>4, <2>5
<1>9. Driver(cd) /\ DriverInv(cd, sent, withdrawn) /\ sent \in Nat /\ foreign \in Nat
  BY DEF Base, Counted, DriverInv, QueueInv
<1>10. CASE OwnFrame
  <2>1. PICK c : Only(cd, c, {"sm"}) /\ c.sm = "sending" /\ cd' = Begun(c)
    BY <1>9, <1>10, OwnFrameDoes
  <2>2. bus'.own = TRUE /\ bus'.n = cd.load /\ bus'.same = FALSE /\ cd.sm = "send" /\ foreign' = foreign
    BY <1>10, BeginOK DEF OwnFrame, counters
  <2>3. cd.load \notin delivered
    BY <1>2, <2>2 DEF Reload
  <2>4. cd.load \in 1 .. sent
    <3>1. cd.queue # <<>> /\ cd.load = Head(cd.queue)
      BY <1>5, <2>2 DEF FlowOK, FlowInv, Loaded, Dazed
    <3>2. cd.queue \in Seq(1 .. sent)
      BY <1>9 DEF DriverInv, QueueInv, Ordered
    <3> DEFINE S == 1 .. sent
    <3>3. cd.queue \in Seq(S)
      BY <3>2
    <3> HIDE DEF S
    <3>4. Head(cd.queue) \in S
      BY <3>1, <3>3, Emptied
    <3> QED BY <3>1, <3>4 DEF S
  <2>5. Numbers'
    BY <1>1, <1>2, <2>2, <2>4 DEF Numbers
  <2>6. Fresh'
    BY <1>1, <2>2, <2>3 DEF Fresh
  <2>7. /\ Held(cd', bus'.at) /\ Alive' /\ (cd'.on => Followed')
        /\ cd'.sm = "sending"
    BY <1>8, <2>1
  <2>8. Reload'
    BY <2>7 DEF Reload
  <2> QED BY <2>5, <2>6, <2>7, <2>8
<1>11. ASSUME NEW same \in BOOLEAN, OtherFrame(same)
       PROVE  /\ Numbers' /\ Fresh' /\ Reload' /\ Held(cd', bus'.at) /\ Alive'
              /\ cd'.on => Followed'
  <2>1. PICK c : /\ Only(cd, c, {"sm"}) /\ cd' = Begun(c)
                 /\ c.sm = cd.sm \/ c.sm = "conflict"
    BY <1>9, <1>11, OtherFrameDoes
  <2>2. bus'.own = FALSE /\ bus'.n = foreign + 1 /\ foreign' = foreign + 1
    BY <1>11, BeginOK DEF OtherFrame
  <2>3. \A f \in complete : f.n \in 1 .. foreign /\ f.n \in 1 .. foreign + 1 /\ f.n # foreign + 1
    BY <1>2, <1>9 DEF Numbers
  <2>4. Numbers'
    <3>1. foreign + 1 \in 1 .. foreign + 1
      BY <1>9
    <3> QED BY <1>1, <1>2, <2>2, <2>3, <3>1 DEF Numbers
  <2>5. Fresh'
    <3>1. (Name(bus)').n = foreign + 1
      BY <2>2 DEF Name
    <3>2. Name(bus)' \notin complete
      BY <2>3, <3>1
    <3> QED BY <1>1, <2>2, <3>2 DEF Fresh
  <2>6. /\ Held(cd', bus'.at) /\ Alive' /\ (cd'.on => Followed')
        /\ cd'.sm = c.sm /\ cd'.load = cd.load
    BY <1>8, <2>1
  <2>7. Reload'
    BY <1>1, <1>2, <2>1, <2>6 DEF Reload, Closing
  <2> QED BY <2>4, <2>5, <2>6, <2>7
<1> QED BY <1>10, <1>11

(* A field passes.                                                         *)
LEMMA HeaderDriven ==
  ASSUME Field, BusOK, bus.at = "header", bus'.at = "check"
  PROVE  bus.own => cd.sm = "sending"
<1>1. SendHeader \/ Disturb
  BY DEF Field, SendHeader, SendCheck, SendCrc, SendAck, SendEof0, SendBit5, SendBit7, SendPause, Disturb,
         SendFlag, SendDelimiter
<1>2. bus # Free
  BY FreeAt
<1>3. ASSUME Disturb PROVE FALSE
  <2>1. Advance("flag") \/ Advance("delimiter")
    BY <1>3 DEF Disturb
  <2> QED BY <1>2, <2>1, Advanced DEF At
<1> QED BY <1>1, <1>3 DEF SendHeader, Driven

(* What is owed then, was before, and the field belongs to a frame in      *)
(* order, or is the header of a frame that is owed from now on.            *)
LEMMA OwedBefore ==
  ASSUME Base, Numbers, Fresh, NEW c, NEW f, NEW total, Carries(c, f, total), NEW x, x \in Owed'
  PROVE  \/ x \in Owed /\ Fitting(f, x, Now, Now')
         \/ /\ bus.at = "header" /\ bus.clean /\ f.is = "header" /\ f.frame = x
            /\ x = Name(bus) /\ x \in Now'
<1> DEFINE at == bus.at
           N == Name(bus)
<1>1. /\ bus # Free /\ Comes(at, f) /\ bus'.at = Leads(f) /\ at \in At
      /\ restarts' = restarts
      /\ f.is = "header" => f.frame = N
  BY FreeAt DEF Carries, Base, BusOK
<1>2. bus'.at # "free" => /\ Name(bus') = N
                          /\ bus'.clean = IF BadCrc(f) THEN FALSE ELSE bus.clean
  BY DEF Carries
<1>3. /\ x \in Now => x = N /\ at \in OnItsWay /\ bus.clean
      /\ x \in Now' => x = N /\ bus'.at \in OnItsWay /\ bus'.clean
      /\ at \in OnItsWay /\ bus.clean => N \in Now
      /\ bus'.at \in OnItsWay /\ bus'.clean => N \in Now'
  <2>1. x \in Now' => bus'.at \in OnItsWay /\ bus'.clean /\ x = Name(bus')
    BY DEF Now
  <2>2. bus'.at \in OnItsWay /\ bus'.clean => Name(bus') \in Now'
    BY DEF Now
  <2>3. "free" \notin OnItsWay
    BY DEF OnItsWay
  <2> QED BY <1>2, <2>1, <2>2, <2>3 DEF Now
<1>4. /\ x \in Frame /\ ~x.same /\ (x.own \/ restarts = 0)
      /\ x \in complete' \/ (x.own /\ x.n \in delivered') \/ x \in Now'
  BY <1>1 DEF Owed
<1>5. N.own = bus.own /\ N.n = bus.n /\ N.same = bus.same
  BY DEF Name
<1> HIDE DEF N
<1>6. CASE x \in Now'
  <2>1. x = N /\ Leads(f) \in OnItsWay /\ bus.clean /\ ~BadCrc(f)
    BY <1>1, <1>2, <1>3, <1>6 DEF OnItsWay
  <2>2. CASE at = "header"
    <3>1. f.is = "header"
      BY <1>1, <2>1, <2>2 DEF Comes, Leads, OnItsWay
    <3> QED BY <1>1, <1>6, <2>1, <2>2, <3>1 DEF N
  <2>3. CASE at # "header"
    <3>1. f.is \in {"crc", "ack", "eof0", "part"} /\ (f.is \in {"crc", "ack"} => f.good)
          /\ at \in OnItsWay
      BY <1>1, <2>1, <2>3 DEF Comes, Leads, OnItsWay, BadCrc, At
    <3>2. Plain(f)
      BY <3>1 DEF Plain
    <3>3. x \in Owed
      BY <1>3, <1>4, <2>1, <3>1 DEF Owed
    <3> QED BY <1>6, <3>2, <3>3 DEF Fitting
  <2> QED BY <2>2, <2>3
<1>7. CASE x \notin Now'
  <2>1. ~(Leads(f) \in OnItsWay /\ bus.clean /\ f.is # "crc" /\ x = N)
    <3> SUFFICES ASSUME Leads(f) \in OnItsWay, bus.clean, f.is # "crc", x = N PROVE FALSE
      OBVIOUS
    <3>1. bus'.clean /\ bus'.at \in OnItsWay
      BY <1>1, <1>2 DEF BadCrc, OnItsWay
    <3> QED BY <1>3, <1>7, <3>1
  <2>2. x \in complete
        \/ (x.own /\ x.n \in delivered)
    <3>1. CASE x \in complete' /\ x \notin complete
      <4>1. f.is = "part" /\ f.bits = 2 /\ bus.clean /\ x = N
        BY <3>1 DEF Carries, N
      <4>2. Leads(f) \in OnItsWay
        BY <4>1 DEF Leads, OnItsWay
      <4> QED BY <2>1, <4>1, <4>2
    <3>2. CASE x.own /\ x.n \in delivered' /\ x.n \notin delivered
      <4>1. f.is = "part" /\ f.bits = 1 /\ bus.clean /\ bus.own /\ x.n = bus.n
        BY <3>2 DEF Carries
      <4>2. Leads(f) \in OnItsWay
        BY <4>1 DEF Leads, OnItsWay
      <4>3. x = N
        <5>1. x.own = TRUE /\ x.same = FALSE /\ bus.own = TRUE /\ bus.same = FALSE
          BY <1>1, <1>4, <3>2, <4>1 DEF Frame, Numbers, Base, BusOK
        <5>2. x = [own |-> TRUE, n |-> bus.n, same |-> FALSE]
          BY <1>4, <4>1, <5>1 DEF Frame
        <5> QED BY <5>1, <5>2 DEF N, Name
      <4> QED BY <2>1, <4>1, <4>2, <4>3
    <3> QED BY <1>4, <1>7, <3>1, <3>2
  <2>3. x \in Owed
    BY <1>4, <2>2 DEF Owed
  <2>4. ASSUME x \in Now PROVE Ending(f, x.own)
    <3>1. x = N /\ at \in OnItsWay /\ bus.clean
      BY <1>3, <2>4
    <3>2. x \in complete => ~x.own
      BY DEF Numbers, Foreign
    <3>3. at = "pause" \/ (at = "bit7" /\ ~x.own)
      BY <1>5, <2>2, <3>1, <3>2 DEF Fresh, OnItsWay, N
    <3>4. CASE f.is = "eof1"
      BY <1>1, <3>3, <3>4 DEF Comes, Ending
    <3>5. CASE f.is # "eof1"
      <4>1. f.is = "part" /\ f.bits = 1
        BY <1>1, <3>3, <3>5 DEF Comes
      <4>2. Leads(f) \in OnItsWay
        BY <4>1 DEF Leads, OnItsWay
      <4> QED BY <2>1, <3>1, <4>1, <4>2
    <3> QED BY <3>4, <3>5
  <2> QED BY <2>3, <2>4 DEF Fitting
<1> QED BY <1>6, <1>7

LEMMA FieldLosesNothing ==
  ASSUME Field PROVE overrun' = overrun
<1>1. SendHeader \/ SendCheck \/ SendEof0 \/ SendBit5 \/ SendBit7 \/ SendPause => OnBus
  BY DEF SendHeader, SendCheck, SendEof0, SendBit5, SendBit7, SendPause
<1>2. SendFlag \/ SendDelimiter \/ Disturb => OnBus
  BY DEF SendFlag, SendDelimiter, Disturb
<1>3. \A b \in BOOLEAN : SendCrc(b) \/ SendAck(b) => OnBus
  BY DEF SendCrc, SendAck
<1>4. OnBus
  BY <1>1, <1>2, <1>3 DEF Field
<1> QED BY <1>4 DEF OnBus

LEMMA FieldKeepsTrack ==
  ASSUME Base, FlowOK, WakeOK, TrackOK, Field PROVE TrackOK'
<1>1. Driver(cd) /\ Machine(cd) /\ BusOK /\ cd.held \in Nat /\ Signals(cd) /\ sent \in Nat
  BY DEF Base, DriverInv, QueueInv, Machine, FlowOK, Counted
<1>2. overrun' = overrun
  BY FieldLosesNothing
<1> SUFFICES ASSUME ~overrun
             PROVE  /\ Numbers' /\ Fresh' /\ Reload' /\ Held(cd', bus'.at) /\ Alive'
                    /\ cd'.on => Followed'
  BY <1>2 DEF TrackOK
<1>3. /\ Numbers /\ Fresh /\ Reload /\ Held(cd, bus.at) /\ Alive
      /\ cd.on => Followed
  BY DEF TrackOK
<1>4. /\ ~cd.stall /\ Drives(cd, bus.at, bus.own)
      /\ cd.on => Follows(cd, Pipe(cd), 0, bus.at) /\ WakeInv(cd, Pipe(cd), 0, HeaderOut)
  BY DEF WakeOK, Attended, Tracked
<1>5. PICK c, f, total : Carries(c, f, total)
  BY <1>1, <1>4, FieldCarries DEF Drives
<1>6. PICK at, at2 : at = bus.at /\ at2 = bus'.at
  OBVIOUS
<1>7. /\ Only(cd, c, {"sm", "irq"}) /\ cd' = Put(c, f, total) /\ Comes(at, f) /\ at2 = Leads(f)
      /\ IF f.is = "header" THEN total \in 20 .. 29 /\ f.frame = Name(bus)
                            ELSE total = cd.held + Bits(f)
      /\ (f.is = "passive" => f.bits = 10) /\ bus # Free
      /\ restarts' = restarts /\ sent' = sent /\ foreign' = foreign
  BY <1>5, <1>6 DEF Carries
<1>8. at # "free" /\ f.is # "sof" /\ at2 # "header" /\ at \in At
  <2>1. at # "free" /\ at \in At
    BY <1>1, <1>6, <1>7 DEF BusOK, At
  <2>2. f.is # "sof"
    BY <1>7, <2>1, LeadsIn
  <2> QED BY <1>7, <2>1, <2>2, LeadsIn
<1>9. IF at2 = "free" THEN bus' = Free
      ELSE /\ Name(bus') = Name(bus) /\ bus'.own = bus.own /\ bus'.n = bus.n /\ bus'.same = bus.same
           /\ bus'.clean => bus.clean
  <2>1. Name(bus') = Name(bus) => bus'.n = bus.n /\ bus'.same = bus.same
    BY DEF Name
  <2> QED BY <1>5, <1>6, <2>1 DEF Carries
<1>10. /\ complete' = complete \/ (f.is = "part" /\ f.bits = 2 /\ ~bus.own
                                   /\ complete' = complete \cup {Name(bus)})
       /\ delivered' = delivered \/ (f.is = "part" /\ f.bits = 1 /\ bus.own /\ bus.clean
                                     /\ delivered' = delivered \cup {bus.n})
  BY <1>5 DEF Carries
<1> DEFINE e == Put(c, f, total)
           p == Pipe(cd)
           q == Append(p, f)
<1>11. /\ c.rx = cd.rx /\ c.isr = cd.isr /\ c.stall = cd.stall /\ c.held = cd.held /\ c.sync = cd.sync
       /\ c.head = cd.head /\ c.tail = cd.tail /\ c.on = cd.on /\ c.load = cd.load /\ Driver(c)
       /\ Alike(cd, c)
  BY <1>7 DEF Only, Fields, Alike
<1>12. Machine(c) /\ Pipe(c) = p /\ Held(c, at) /\ IsASequence(p)
  BY <1>1, <1>3, <1>6, <1>11, PipeSequence DEF Machine, Pipe, Held
<1>13. Signals(c)
  <2>1. "MAYTX" \in c.irq => "MAYTX" \in cd.irq
    BY <1>5 DEF Carries, Raises
  <2> QED BY <1>1, <1>11, <2>1 DEF Signals
<1>14. /\ Only(c, e, {"isr", "held", "rx"}) /\ Held(e, at2)
       /\ IF cd.sync = "lost" THEN e = c ELSE Pipe(e) = q
  <2>1. Only(c, e, {"isr", "held", "rx"})
    BY <1>11, PutDoes
  <2>2. IF f.is = "header" THEN total \in 20 .. 29
        ELSE total = c.held + Bits(f) \/ (f.is \in {"passive", "quiet"} /\ at = "free")
    BY <1>7, <1>11
  <2>3. Held(e, Leads(f))
    BY <1>4, <1>7, <1>11, <1>12, <1>13, <2>2, PutHeldShort
  <2>4. IF c.sync = "lost" THEN Put(c, f, total) = c ELSE Pipe(Put(c, f, total)) = Append(Pipe(c), f)
    BY <1>4, <1>11, <1>12, PutExact
  <2> QED BY <1>7, <1>11, <1>12, <2>1, <2>3, <2>4
<1>15. cd' = e
  BY <1>7
<1> HIDE DEF e, p, q
<1>16. e.sm = c.sm /\ e.load = cd.load /\ e.on = cd.on /\ e.sync = cd.sync /\ Alike(cd, e)
  BY <1>11, <1>14 DEF Only, Fields, Alike
<1>17. Numbers'
  <2>1. complete' = complete \/ (complete' = complete \cup {Name(bus)} /\ ~bus.own)
    BY <1>10
  <2>2. ~bus.own => Name(bus) \in Foreign /\ Name(bus).n \in 1 .. foreign
    BY <1>1, <1>3, <1>7 DEF Numbers, Foreign, Frame, Name, BusOK, Base, Counted
  <2>3. \A x \in complete' : x \in Foreign /\ x.n \in 1 .. foreign
    BY <1>3, <2>1, <2>2 DEF Numbers
  <2>4. delivered' \subseteq 1 .. sent
    BY <1>3, <1>7, <1>10 DEF Numbers
  <2>5. bus' # Free => bus'.own = bus.own /\ bus'.n = bus.n /\ bus'.same = bus.same
    BY <1>9
  <2> QED BY <1>3, <1>7, <2>3, <2>4, <2>5 DEF Numbers
<1>18. Fresh'
  <2>1. ASSUME at2 \in {"check", "crc", "ack", "eof0", "bit5", "bit7"}, bus'.own PROVE bus'.n \notin delivered'
    <3>1. at \in {"header", "check", "crc", "ack", "eof0", "bit5"} /\ ~(f.is = "part" /\ f.bits = 1)
      BY <1>7, <1>8, <2>1 DEF Comes, Leads
    <3>2. bus'.n = bus.n /\ bus.own
      BY <1>9, <2>1
    <3> QED BY <1>3, <1>6, <1>10, <3>1, <3>2 DEF Fresh
  <2>2. ASSUME at2 \in {"check", "crc", "ack", "eof0", "bit5"}, ~bus'.own PROVE Name(bus') \notin complete'
    <3>1. at \in {"header", "check", "crc", "ack", "eof0"} /\ ~(f.is = "part" /\ f.bits = 2)
      BY <1>7, <1>8, <2>2 DEF Comes, Leads
    <3>2. Name(bus') = Name(bus) /\ ~bus.own
      BY <1>9, <2>2
    <3> QED BY <1>3, <1>6, <1>10, <3>1, <3>2 DEF Fresh
  <2> QED BY <1>6, <1>8, <2>1, <2>2 DEF Fresh
<1>19. Reload'
  <2> SUFFICES ASSUME c.sm = "send"
               PROVE  /\ cd.load \notin delivered'
                      /\ ~(at2 \in Closing /\ bus'.own /\ bus'.clean /\ bus'.n = cd.load)
    BY <1>6, <1>15, <1>16 DEF Reload
  <2>1. cd.sm = "send" /\ ~(f.is = "crc" /\ bus.own)
    BY <1>5 DEF Carries, Turns
  <2>2. cd.load \notin delivered /\ ~(at \in Closing /\ bus.own /\ bus.clean /\ bus.n = cd.load)
    BY <1>3, <1>6, <2>1 DEF Reload
  <2>3. f.is = "part" /\ f.bits = 1 => at \in Closing
    BY <1>7 DEF Comes, Closing
  <2>4. cd.load \notin delivered'
    BY <1>10, <2>2, <2>3
  <2>5. ASSUME at2 \in Closing, bus'.own, bus'.clean, bus'.n = cd.load PROVE FALSE
    <3>1. bus.own /\ bus.clean /\ bus.n = cd.load
      BY <1>9, <2>5 DEF Closing
    <3>2. at \in Closing
      BY <1>7, <1>8, <2>1, <2>5, <3>1 DEF Comes, Leads, Closing, At
    <3> QED BY <2>2, <3>1, <3>2
  <2> QED BY <2>4, <2>5
<1>20. Alive'
  BY <1>3, <1>7, <1>15, <1>16 DEF Alive
<1>21. ASSUME cd.on PROVE Followed'
  <2>1. Waits(cd) /\ Pursues(cd, p, 0, Owed, Now)
        /\ Seen(cd, p, 0, HeaderSeen) /\ Follows(cd, p, 0, at) /\ WakeInv(cd, p, 0, HeaderOut)
    BY <1>3, <1>4, <1>6, <1>21 DEF Followed, p
  <2>2. Waits(e)
    BY <1>16, <2>1, WaitsAlike
  <2>3. \A P : Seen(e, P, 0, HeaderSeen')
    BY <1>6, <1>8 DEF Seen, HeaderSeen
  <2>4. PICK O, now, O2, now2 : O = Owed /\ now = Now /\ O2 = Owed' /\ now2 = Now'
    OBVIOUS
  <2>5. ASSUME NEW x \in O2
        PROVE  \/ x \in O /\ Fitting(f, x, now, now2)
               \/ /\ at = "header" /\ bus.clean /\ f.is = "header" /\ f.frame = x
                  /\ x = Name(bus) /\ x \in now2
    BY <1>3, <1>5, <1>6, <2>4, <2>5, OwedBefore
  <2>6. ASSUME NEW x \in O PROVE Pursued(cd, p, 0, x, now) \/ Over(cd, x)
    BY <2>1, <2>4, <2>6 DEF Pursues
  <2>7. CASE cd.sync = "lost"
    <3>1. p = <<>> /\ e = c /\ Pipe(e) = p
      BY <1>1, <1>12, <1>14, <2>7, EmptyPipe DEF p
    <3>2. cd.parse \notin InFrame
      BY <2>1, <2>7 DEF Follows, InFrame
    <3>3. ASSUME NEW x \in O2 PROVE Over(e, x)
      <4>1. x \in O
        <5> SUFFICES ASSUME at = "header", f.is = "header", f.frame = x, x = Name(bus) PROVE FALSE
          BY <2>5, <3>3
        <5>1. x.own \/ restarts = 0
          BY <1>7, <2>4, <3>3 DEF Owed
        <5>2. x.own = bus.own
          BY DEF Name
        <5>3. bus.own
          BY <1>3, <1>7, <2>7, <5>1, <5>2 DEF Alive
        <5>4. at2 = "check"
          BY <1>7 DEF Leads
        <5>5. cd.sm = "sending"
          BY <1>1, <1>6, <5>3, <5>4, HeaderDriven
        <5>6. cd.tx = "QUEUED"
          BY <1>4, <1>6, <5>3, <5>5 DEF FlowOK, FlowInv, Loaded, Dazed, HeaderOut
        <5> QED BY <2>1, <2>7, <5>5, <5>6 DEF WakeInv, Busy
      <4>2. Over(cd, x)
        BY <2>6, <3>1, <3>2, <4>1, NothingPursued
      <4> QED BY <1>16, <4>2 DEF Over, Alike
    <3>4. Pursues(e, Pipe(e), 0, O2, now2)
      BY <3>3 DEF Pursues
    <3> QED BY <1>15, <2>2, <2>3, <2>4, <3>4 DEF Followed
  <2>8. CASE cd.sync # "lost"
    <3>1. Pipe(e) = q
      BY <1>14, <2>8
    <3>2. ASSUME NEW x \in O2 PROVE Pursued(e, q, 0, x, now2) \/ Over(e, x)
      <4>1. CASE x \in O /\ Fitting(f, x, now, now2)
        <5>1. Pursued(cd, p, 0, x, now) \/ Over(cd, x)
          BY <2>6, <4>1
        <5> QED BY <1>12, <1>16, <4>1, <5>1, PursuedLonger DEF q
      <4>2. CASE at = "header" /\ bus.clean /\ f.is = "header" /\ f.frame = x /\ x \in now2
        <5> DEFINE n == Len(p)
        <5>1. n \in Nat /\ Len(q) = n + 1 /\ q[n + 1] = f
          BY <1>12, AppendedAt DEF q
        <5>2. Due(cd, 0, n + 1)
          BY <1>6, <2>1, <2>8, <4>2 DEF Seen, HeaderSeen
        <5> HIDE DEF n
        <5>3. Meets(e, q, 0, n + 1, x)
          BY <1>16, <4>2, <5>1, <5>2 DEF Meets, Due, Alike
        <5>4. n + 1 \in 0 + 1 .. n + 1 /\ (n + 1) + 1 \in (n + 1) + 1 .. (n + 1) + 1
              /\ \A j \in (n + 1) + 1 .. ((n + 1) + 1) - 1 : FALSE
          BY <5>1
        <5>5. Intact(q, n + 1, x, now2)
          BY <4>2, <5>1, <5>4 DEF Intact
        <5> QED BY <5>1, <5>3, <5>4, <5>5 DEF Pursued
      <4> QED BY <2>5, <3>2, <4>1, <4>2
    <3>3. Pursues(e, Pipe(e), 0, O2, now2)
      BY <3>1, <3>2 DEF Pursues
    <3> QED BY <1>15, <2>2, <2>3, <2>4, <3>3 DEF Followed
  <2> QED BY <2>7, <2>8
<1> QED BY <1>6, <1>14, <1>15, <1>16, <1>17, <1>18, <1>19, <1>20, <1>21

(* A line on which no frame is.                                            *)
LEMMA LineCarries ==
  ASSUME Driver(cd), Idle \/ CounterOverflow \/ QuietBits
  PROVE  \E i, f, total :
           /\ Only(cd, i, {"sync", "irq"}) /\ i.sync \in Still
           /\ i.irq \in {cd.irq, cd.irq \cup {"MAYTX"}}
           /\ f.is \in {"passive", "quiet"} /\ (f.is = "passive" => f.bits = 10)
           /\ (cd.sync # "lost" /\ cd' = i) \/ cd' = Put(i, f, total)
<1> DEFINE x0 == Passive(10)
<1>1. x0.is = "passive" /\ x0.bits = 10 /\ "idle" \in Still /\ "quiet" \in Still
  BY DEF Passive, Still
<1>2. CASE Idle
  <2>1. PICK i : /\ Only(cd, i, {"sync", "irq"}) /\ i.sync = "idle"
                 /\ i.irq = cd.irq \cup {"MAYTX"}
                 /\ \/ cd.sync # "lost" /\ cd' = i
                    \/ cd' = Put(i, x0, i.held + 10)
    BY <1>2, IdleDoes
  <2> HIDE DEF x0
  <2> QED BY <1>1, <2>1
<1>3. CASE CounterOverflow
  <2>1. PICK i : Only(cd, i, {"sync"}) /\ i.sync = "quiet" /\ cd' = Put(i, x0, 10)
    BY <1>3, CounterOverflowDoes
  <2>2. Only(cd, i, {"sync", "irq"}) /\ i.irq = cd.irq
    BY <2>1 DEF Only, Fields
  <2> HIDE DEF x0
  <2> QED BY <1>1, <2>1, <2>2
<1>4. CASE QuietBits
  <2>1. PICK r \in 1 .. 10 : cd' = Put(cd, Quiet, r)
    BY <1>4, QuietBitsDoes
  <2>2. cd.sync = "quiet" /\ Only(cd, cd, {"sync", "irq"}) /\ Quiet.is = "quiet"
    BY <1>4, QuietBitsDoes DEF Only, Quiet
  <2> QED BY <1>1, <2>1, <2>2
<1> QED BY <1>2, <1>3, <1>4

LEMMA LineKeepsTrack ==
  ASSUME Base, FlowOK, WakeOK, TrackOK, LineStep PROVE TrackOK'
<1>1. CASE Overrun
  BY <1>1 DEF Overrun, TrackOK
<1>2. CASE Idle \/ CounterOverflow \/ QuietBits
  <2>1. Driver(cd) /\ Machine(cd) /\ cd.held \in Nat /\ Signals(cd)
    BY DEF Base, DriverInv, QueueInv, Machine, FlowOK
  <2>2. /\ bus = Free /\ bus.at = "free" /\ bus' = bus /\ overrun' = overrun
        /\ complete' = complete /\ delivered' = delivered
        /\ sent' = sent /\ foreign' = foreign /\ restarts' = restarts
    BY <1>2, FreeAt DEF Idle, CounterOverflow, QuietBits, Untouched, counters, history
  <2> SUFFICES ASSUME ~overrun
               PROVE  /\ Numbers' /\ Fresh' /\ Reload' /\ Held(cd', "free") /\ Alive'
                      /\ cd'.on => Followed'
    BY <2>2 DEF TrackOK
  <2>3. /\ Numbers /\ Fresh /\ Reload /\ Held(cd, "free") /\ Alive
        /\ cd.on => Followed
    BY <2>2 DEF TrackOK
  <2>4. Numbers' /\ Fresh' /\ Owed' = Owed /\ Now' = Now /\ Now = {} /\ ~HeaderSeen'
    BY <2>2, <2>3, NoneNow DEF Numbers, Fresh, Owed, Now, HeaderSeen
  <2>5. ~cd.stall
    BY DEF WakeOK, Attended
  <2> DEFINE p == Pipe(cd)
  <2>6. PICK i, f, total :
          /\ Only(cd, i, {"sync", "irq"}) /\ i.sync \in Still
          /\ f.is \in {"passive", "quiet"} /\ (f.is = "passive" => f.bits = 10)
          /\ (cd.sync # "lost" /\ cd' = i) \/ cd' = Put(i, f, total)
    BY <1>2, <2>1, LineCarries
  <2>7. Leads(f) = "free" /\ Comes("free", f)
    BY <2>6 DEF Leads, Comes
  <2>8. /\ i.sm = cd.sm /\ i.held = cd.held /\ i.rx = cd.rx /\ i.isr = cd.isr /\ i.stall = cd.stall
        /\ i.head = cd.head /\ i.tail = cd.tail /\ i.on = cd.on /\ i.load = cd.load
        /\ Driver(i) /\ Alike(cd, i)
    BY <2>6 DEF Only, Fields, Alike
  <2>9. Machine(i) /\ Pipe(i) = p /\ Held(i, "free") /\ Signals(i) /\ IsASequence(p)
    BY <2>1, <2>3, <2>6, <2>8, PipeSequence DEF Machine, Pipe, Held, Signals, Still
  <2> HIDE DEF p
  <2>10. ASSUME NEW e, cd' = e, e.sm = cd.sm, e.load = cd.load, e.on = cd.on, e.sync \in Still,
                Alike(cd, e), Held(e, "free"),
                ASSUME NEW x, Pursued(cd, p, 0, x, {}) \/ Over(cd, x)
                PROVE  Pursued(e, Pipe(e), 0, x, {}) \/ Over(e, x)
         PROVE  /\ Numbers' /\ Fresh' /\ Reload' /\ Held(cd', "free") /\ Alive'
                /\ cd'.on => Followed'
    <3>1. Reload' /\ Alive'
      BY <2>2, <2>3, <2>10 DEF Reload, Alive, Still
    <3>2. ASSUME cd.on PROVE Followed'
      <4>1. Waits(cd) /\ Pursues(cd, p, 0, Owed, {})
        BY <2>3, <2>4, <3>2 DEF Followed, p
      <4>2. Waits(e)
        BY <2>10, <4>1, WaitsAlike
      <4>3. PICK O : O = Owed
        OBVIOUS
      <4>4. Pursues(e, Pipe(e), 0, O, {})
        BY <2>10, <4>1, <4>3 DEF Pursues
      <4>5. Seen(e, Pipe(e), 0, HeaderSeen')
        BY <2>4 DEF Seen
      <4> QED BY <2>4, <2>10, <4>2, <4>3, <4>4, <4>5 DEF Followed
    <3> QED BY <2>4, <2>10, <3>1, <3>2
  <2>11. CASE cd.sync # "lost" /\ cd' = i
    <3>1. ASSUME NEW x, Pursued(cd, p, 0, x, {}) \/ Over(cd, x)
          PROVE  Pursued(i, Pipe(i), 0, x, {}) \/ Over(i, x)
      BY <2>8, <2>9, <3>1, PursuedAlike
    <3>2. i.sync \in Still
      BY <2>6
    <3> QED BY <2>8, <2>9, <2>10, <2>11, <3>1, <3>2, Zenon
  <2>12. CASE cd' = Put(i, f, total)
    <3> DEFINE e == Put(i, f, total)
    <3>1. Only(i, e, {"isr", "held", "rx"})
      BY <2>8, PutDoes
    <3>2. Pipe(e) = Append(p, f)
      BY <2>5, <2>6, <2>8, <2>9, PutExact DEF Still
    <3>3. Held(e, "free")
      <4>1. IF f.is = "header" THEN total \in 20 .. 29
            ELSE total = i.held + Bits(f) \/ f.is \in {"passive", "quiet"}
        BY <2>6
      <4> QED BY <2>5, <2>6, <2>7, <2>8, <2>9, <4>1, PutHeldShort
    <3> HIDE DEF e
    <3>4. e.sm = cd.sm /\ e.load = cd.load /\ e.on = cd.on /\ e.sync \in Still /\ Alike(cd, e)
      BY <2>6, <2>8, <3>1 DEF Only, Fields, Alike
    <3>5. ASSUME NEW x, Pursued(cd, p, 0, x, {}) \/ Over(cd, x)
          PROVE  Pursued(e, Pipe(e), 0, x, {}) \/ Over(e, x)
      <4>1. Fitting(f, x, {}, {})
        BY DEF Fitting
      <4> QED BY <2>9, <3>2, <3>4, <3>5, <4>1, PursuedLonger
    <3>6. cd' = e
      BY <2>12 DEF e
    <3> QED BY <2>10, <3>3, <3>4, <3>5, <3>6, Zenon
  <2> QED BY <2>6, <2>11, <2>12
<1> QED BY <1>1, <1>2 DEF LineStep

(* Steps: LibPQP's calls.                                                  *)
LEMMA CallsKeepTrack ==
  ASSUME Base, FlowOK, TrackOK, Enqueue \/ WakeUp \/ Fetch \/ Release PROVE TrackOK'
<1>1. /\ Driver(cd) /\ DriverInv(cd, sent, withdrawn) /\ sent \in Nat
      /\ cd.queue \in Seq(1 .. sent) /\ IsASequence(cd.queue)
      /\ cd.report \in {"TX_ACK", "TX_EOF"} => cd.queue # <<>>
  BY DEF Base, DriverInv, QueueInv, Ordered, Duties, IsASequence, Counted
<1>2. /\ bus' = bus /\ overrun' = overrun /\ complete' = complete /\ delivered' = delivered
      /\ foreign' = foreign /\ restarts' = restarts
  BY DEF Enqueue, WakeUp, Fetch, Release, counters, history
<1>3. /\ Only(cd, cd', {"queue", "irq", "tail"})
      /\ \/ cd'.queue = cd.queue /\ sent' = sent
         \/ cd'.queue = Append(cd.queue, sent + 1) /\ sent' = sent + 1
  <2>1. CASE Enqueue
    <3>1. Only(cd, cd', {"queue"}) /\ cd'.queue = Append(cd.queue, sent + 1) /\ sent' = sent + 1
      BY <1>1, <2>1, EnqueueDoes DEF Enqueue
    <3> QED BY <3>1 DEF Only
  <2>2. CASE WakeUp
    <3>1. Only(cd, cd', {"irq"}) /\ sent' = sent
      BY <1>1, <2>2, WakeUpDoes DEF WakeUp, counters
    <3> QED BY <3>1 DEF Only, Fields
  <2>3. CASE Fetch
    BY <1>1, <2>3 DEF Fetch, Only, counters
  <2>4. CASE Release
    <3>1. Only(cd, cd', {"tail"}) /\ sent' = sent
      BY <1>1, <2>4, ReleaseDoes DEF Release, counters
    <3> QED BY <3>1 DEF Only, Fields
  <2> QED BY <2>1, <2>2, <2>3, <2>4
<1> SUFFICES ASSUME ~overrun
             PROVE  /\ Numbers' /\ Fresh' /\ Reload' /\ Held(cd', bus.at) /\ Alive'
                    /\ cd'.on => Followed'
  BY <1>2 DEF TrackOK
<1>4. /\ Numbers /\ Fresh /\ Reload /\ Held(cd, bus.at) /\ Alive
      /\ cd.on => Followed
  BY DEF TrackOK
<1>5. /\ cd'.parse = cd.parse /\ cd'.msg = cd.msg /\ cd'.report = cd.report /\ cd'.inte = cd.inte
      /\ cd'.heard = cd.heard /\ cd'.on = cd.on /\ cd'.sync = cd.sync /\ cd'.sm = cd.sm
      /\ cd'.load = cd.load /\ cd'.isr = cd.isr /\ cd'.held = cd.held /\ Pipe(cd') = Pipe(cd)
  BY <1>3 DEF Only, Fields, Pipe
<1>6. Numbers'
  <2>1. sent' \in Nat /\ sent <= sent'
    BY <1>1, <1>3
  <2>2. \A m \in 1 .. sent : m \in 1 .. sent'
    BY <1>1, <2>1
  <2> QED BY <1>2, <1>4, <2>2 DEF Numbers
<1>7. Fresh' /\ Reload' /\ Held(cd', bus.at) /\ Alive' /\ Owed' = Owed /\ Now' = Now
      /\ HeaderSeen' = HeaderSeen
  BY <1>2, <1>4, <1>5 DEF Fresh, Reload, Held, Alive, Owed, Now, HeaderSeen
<1>8. cd.queue # <<>> => Head(cd'.queue) = Head(cd.queue)
  <2> DEFINE s == cd.queue
  <2>1. ASSUME s # <<>>, cd'.queue = Append(s, sent + 1) PROVE Head(cd'.queue) = Head(s)
    <3>1. PICK S : s \in Seq(S)
      BY <1>1 DEF IsASequence
    <3> HIDE DEF s
    <3>2. Head(Append(s, sent + 1)) = Head(s)
      BY <2>1, <3>1
    <3> QED BY <2>1, <3>2
  <2> QED BY <1>3, <2>1
<1>9. ASSUME NEW x \in Owed PROVE /\ Over(cd, x) => Over(cd', x)
                                  /\ Inside(cd, x) => Inside(cd', x)
  <2>1. x.own => x.n \in 1 .. sent
    <3>1. x \in complete => ~x.own
      BY <1>4 DEF Numbers, Foreign
    <3>2. x \in Now => x = Name(bus) /\ bus # Free
      BY FreeAt DEF Now, OnItsWay
    <3>3. Name(bus).own = bus.own /\ Name(bus).n = bus.n
      BY DEF Name
    <3> QED BY <1>4, <3>1, <3>2, <3>3 DEF Owed, Numbers
  <2>2. ASSUME x.own, Over(cd, x) PROVE Over(cd', x)
    <3> DEFINE s == cd.queue
               t == Append(s, sent + 1)
    <3>1. \A j \in 1 .. Len(s) : s[j] # x.n
      BY <2>2 DEF Over
    <3>2. IsASequence(s) /\ x.n # sent + 1
      BY <1>1, <2>1, <2>2
    <3> HIDE DEF s
    <3>3. /\ Len(s) \in Nat /\ Len(t) = Len(s) + 1 /\ t[Len(s) + 1] = sent + 1
          /\ \A j \in 1 .. Len(s) : t[j] = s[j]
      BY <3>2, AppendedAt
    <3> HIDE DEF t
    <3>4. \A j \in 1 .. Len(t) : j \in 1 .. Len(s) \/ j = Len(s) + 1
      BY <3>3
    <3>5. \A j \in 1 .. Len(t) : t[j] # x.n
      BY <3>1, <3>2, <3>3, <3>4
    <3>6. cd'.queue = s \/ cd'.queue = t
      BY <1>3 DEF s, t
    <3> QED BY <2>2, <3>1, <3>5, <3>6 DEF Over
  <2>3. ~x.own /\ Over(cd, x) => Over(cd', x)
    BY <1>5 DEF Over
  <2>4. Inside(cd, x) => Inside(cd', x)
    BY <1>1, <1>5, <1>8 DEF Inside, Receiving
  <2> QED BY <2>2, <2>3, <2>4
<1>10. ASSUME cd.on PROVE Followed'
  <2>1. Waits(cd) /\ Pursues(cd, Pipe(cd), 0, Owed, Now) /\ Seen(cd, Pipe(cd), 0, HeaderSeen)
    BY <1>4, <1>10 DEF Followed
  <2>2. PICK O, now, begun : O = Owed /\ now = Now /\ begun = HeaderSeen
    OBVIOUS
  <2>3. \A i, x : Meets(cd, Pipe(cd), 0, i, x) => Meets(cd', Pipe(cd), 0, i, x)
    BY <1>5 DEF Meets, Due
  <2>4. Pursues(cd', Pipe(cd), 0, O, now)
    BY <1>9, <2>1, <2>2, <2>3 DEF Pursues, Pursued
  <2>5. Waits(cd') /\ Seen(cd', Pipe(cd), 0, begun)
    BY <1>5, <2>1, <2>2 DEF Waits, Seen, Due
  <2> QED BY <1>5, <1>7, <2>2, <2>4, <2>5 DEF Followed
<1> QED BY <1>5, <1>6, <1>7, <1>10

LEMMA RestartsKeepTrack ==
  ASSUME Base, TrackOK, ClearTx \/ Deinit \/ CanInit PROVE TrackOK'
<1>1. Driver(cd) /\ restarts \in Nat
  BY DEF Base, DriverInv, QueueInv, Counted
<1>2. /\ bus' = bus /\ overrun' = overrun /\ complete' = complete /\ delivered' = delivered
      /\ sent' = sent /\ foreign' = foreign
      /\ restarts' = restarts + 1 \/ (restarts' = restarts /\ ~cd.on)
  BY DEF ClearTx, Deinit, CanInit, Untouched, counters, history
<1> SUFFICES ASSUME ~overrun
             PROVE  /\ Numbers' /\ Fresh' /\ Reload' /\ Held(cd', bus.at) /\ Alive'
                    /\ cd'.on => Followed'
  BY <1>2 DEF TrackOK
<1>3. Numbers /\ Fresh /\ Alive
  BY DEF TrackOK
<1>4. Numbers' /\ Fresh'
  BY <1>2, <1>3 DEF Numbers, Fresh
<1>5. restarts' # 0
  BY <1>1, <1>2, <1>3 DEF Alive
<1>6. Alive' /\ \A x \in Owed' : x.own
  BY <1>5 DEF Alive, Owed
<1>7. \A i \in 1 .. Len(<<>>) : FALSE
  OBVIOUS
<1>8. ASSUME NEW e, cd' = e, e.sm \in {"stuck", "conflict", "off"}, e.isr = <<>>
      PROVE  Reload' /\ Held(cd', bus.at)
  BY <1>7, <1>8 DEF Reload, Held
<1>9. ASSUME NEW e, cd' = e, Started(e)
      PROVE  Reload' /\ Held(cd', bus.at) /\ Followed'
  <2>1. Reload' /\ Held(cd', bus.at)
    BY <1>8, <1>9 DEF Started
  <2>2. Waits(e)
    BY <1>9 DEF Waits, Started
  <2>3. PICK O, now, begun : O = Owed' /\ now = Now' /\ begun = HeaderSeen'
    OBVIOUS
  <2>4. Pursues(e, Pipe(e), 0, O, now)
    BY <1>6, <1>7, <1>9, <2>3 DEF Pursues, Over, Started
  <2>5. ~begun
    BY <1>9, <2>3 DEF HeaderSeen, Started
  <2> QED BY <1>9, <2>1, <2>2, <2>3, <2>4, <2>5 DEF Followed, Seen
<1> DEFINE s == Stop(cd)
<1>10. s.on = FALSE /\ s.isr = <<>> /\ s.sm \in {"stuck", "conflict", "off"} /\ Driver(s)
  BY <1>1, StopDoes DEF Only
<1> HIDE DEF s
<1>11. ASSUME NEW d, Driver(d), cd' = Start(d) PROVE Reload' /\ Held(cd', bus.at) /\ Followed'
  <2> DEFINE e == Start(d)
  <2>1. Started(e)
    BY <1>11, StartDoes
  <2>2. cd' = e
    BY <1>11
  <2> HIDE DEF e
  <2> QED BY <1>9, <2>1, <2>2
<1>12. CASE ClearTx
  <2>1. cd' = Start(s)
    BY <1>12 DEF ClearTx, s
  <2> QED BY <1>4, <1>6, <1>10, <1>11, <2>1
<1>13. CASE Deinit
  <2>1. cd' = s
    BY <1>13 DEF Deinit, s
  <2> QED BY <1>4, <1>6, <1>8, <1>10, <2>1
<1>14. CASE CanInit
  <2> DEFINE z == [cd EXCEPT !.head = 0, !.tail = 0, !.rxLost = FALSE, !.bufferLost = FALSE]
  <2>1. cd' = Start(z)
    BY <1>14 DEF CanInit
  <2>2. Driver(z)
    BY <1>1 DEF Driver, Fields
  <2> HIDE DEF z
  <2> QED BY <1>4, <1>6, <1>11, <2>1, <2>2
<1> QED BY <1>12, <1>13, <1>14

LEMMA InitTrack ==
  ASSUME Init PROVE TrackOK
<1> DEFINE e == Start(Zeroed)
<1>1. Started(e)
  BY ZeroedDoes, StartDoes
<1>2. cd = e
  BY DEF Init
<1> HIDE DEF e
<1>3. /\ bus = Free /\ bus.at = "free" /\ complete = {} /\ delivered = {}
  BY FreeAt DEF Init
<1>4. \A i \in 1 .. Len(<<>>) : FALSE
  OBVIOUS
<1>5. Numbers /\ Fresh
  BY <1>3 DEF Numbers, Fresh
<1>6. Reload /\ Held(cd, bus.at) /\ Alive
  BY <1>1, <1>2, <1>3, <1>4 DEF Reload, Held, Alive, Started
<1>7. Owed = {} /\ ~HeaderSeen
  BY <1>3, NoneNow DEF Owed, HeaderSeen
<1>8. Waits(cd)
  BY <1>1, <1>2 DEF Waits, Started
<1> QED BY <1>5, <1>6, <1>7, <1>8 DEF TrackOK, Followed, Pursues, Seen

LEMMA NextKeepsTrack ==
  ASSUME Base, FlowOK, WakeOK, TrackOK, [Next]_vars PROVE TrackOK'
<1>1. CASE UNCHANGED vars
  BY <1>1 DEF vars, TrackOK, Numbers, Fresh, Reload, Alive, Followed, Owed, Now, HeaderSeen
<1>2. CASE Irq
  BY <1>2, IrqKeepsTrack
<1>3. CASE OwnFrame \/ \E same \in BOOLEAN : OtherFrame(same)
  BY <1>3, FramesKeepTrack
<1>4. CASE LineStep
  BY <1>4, LineKeepsTrack
<1>5. CASE Field
  BY <1>5, FieldKeepsTrack
<1>6. CASE Enqueue \/ WakeUp \/ Fetch \/ Release
  BY <1>6, CallsKeepTrack
<1>7. CASE ClearTx \/ Deinit \/ CanInit
  BY <1>7, RestartsKeepTrack
<1> QED BY <1>1, <1>2, <1>3, <1>4, <1>5, <1>6, <1>7 DEF Next, LineStep

LEMMA AlwaysTrack == Spec => [](Base /\ FlowOK /\ WakeOK /\ TrackOK)
<1>1. Init => Base /\ FlowOK /\ WakeOK /\ TrackOK
  BY InitBase, InitFlow, InitWake, InitTrack
<1>2. Base /\ FlowOK /\ WakeOK /\ TrackOK /\ [Next]_vars => (Base /\ FlowOK /\ WakeOK /\ TrackOK)'
  BY NextKeepsBase, NextKeepsFlow, NextKeepsWake, NextKeepsTrack
<1> QED BY <1>1, <1>2, PTL DEF Spec

(* A board that never restarted nor lost bits has reported every frame of  *)
(* another board that a receiver has to accept, when nothing is            *)
(* outstanding on an idle line.                                            *)
THEOREM EveryFrameHeard == Spec => []NothingMissed
<1>1. Base /\ FlowOK /\ WakeOK /\ TrackOK => NothingMissed
  <2> SUFFICES ASSUME Base, FlowOK, WakeOK, TrackOK, Settled, restarts = 0, ~overrun,
                      NEW f \in complete, ~f.same
               PROVE  f \in ToSet(cd.heard)
    BY DEF NothingMissed
  <2>1. /\ bus = Free /\ bus.at = "free" /\ cd.on /\ cd.sync = "idle" /\ cd.rx = <<>>
        /\ ~\E l \in cd.inte : l \in cd.irq
    BY FreeAt DEF Settled
  <2>2. Numbers /\ Followed
    BY <2>1 DEF TrackOK
  <2>3. f \in Owed /\ ~f.own
    BY <2>2 DEF Numbers, Owed, Foreign
  <2>4. Now = {}
    BY <2>1, NoneNow
  <2>5. ~cd.stall /\ Woken(cd, main = "wake")
    BY <2>1 DEF WakeOK, Attended, Tracked
  <2>6. Pipe(cd) = cd.isr
    <3> DEFINE b == cd.isr
    <3>1. IsASequence(b)
      BY DEF Base, Machine
    <3> HIDE DEF b
    <3>2. <<>> \o b = b
      BY <3>1, PipeOf
    <3> QED BY <2>1, <3>2 DEF Pipe, b
  <2>7. Pursued(cd, cd.isr, 0, f, {}) \/ Over(cd, f)
    BY <2>2, <2>3, <2>4, <2>6 DEF Followed, Pursues
  <2>8. ~Inside(cd, f)
    <3> SUFFICES ASSUME Inside(cd, f) PROVE FALSE
      OBVIOUS
    <3>1. cd.report # "IDLE"
      BY <2>3 DEF Inside, Receiving
    <3>2. "MAYTX" \in cd.inte /\ "MAYTX" \in cd.irq
      BY <2>1, <2>2, <2>5, <3>1 DEF Followed, Waits, Woken
    <3> QED BY <2>1, <3>2
  <2>9. ASSUME NEW i \in 0 + 1 .. Len(cd.isr), cd.isr[i].is = "header" PROVE FALSE
    <3>1. i \in 1 .. Len(cd.isr)
      OBVIOUS
    <3> QED BY <2>1, <2>5, <2>9, <3>1 DEF FlowOK, HeldBack
  <2>10. Over(cd, f)
    BY <2>7, <2>8, <2>9 DEF Pursued, Meets
  <2>11. PICK j \in 1 .. Len(cd.heard) : cd.heard[j] = f
    BY <2>3, <2>10 DEF Over
  <2>12. cd.heard \in Seq(Foreign)
    BY DEF FlowOK, FlowInv, HeardInOrder
  <2> QED BY <2>11, <2>12 DEF ToSet
<1> QED BY <1>1, AlwaysTrack, PTL

(* No fragment is put on the bus again after a restart withdrew it or,     *)
(* while no bits have been lost, after it was acknowledged and its frame   *)
(* ended undisturbed.                                                      *)
THEOREM SentOnce == Spec => NeverSentAgain
<1> DEFINE Again == \A m \in 1 .. MaxEvents :
              bus = Free /\ bus' # Free /\ bus'.own /\ bus'.n = m
                => m \notin withdrawn /\ (m \in delivered => overrun)
<1>1. Base /\ TrackOK /\ [Next]_vars => [Again]_vars
  <2> SUFFICES ASSUME Base, TrackOK, [Next]_vars, bus = Free, bus' # Free, bus'.own
               PROVE  bus'.n \notin withdrawn /\ (bus'.n \in delivered => overrun)
    OBVIOUS
  <2>1. bus' # bus
    OBVIOUS
  <2>2. CASE OwnFrame
    <3>1. cd.sm = "send" /\ bus'.n = cd.load
      BY <2>2 DEF OwnFrame, Begin
    <3>2. cd.load \notin withdrawn
      BY <3>1 DEF Base, DriverInv, QueueInv, Wanted
    <3>3. ~overrun => cd.load \notin delivered
      BY <3>1 DEF TrackOK, Reload
    <3> QED BY <3>1, <3>2, <3>3
  <2>3. CASE \E same \in BOOLEAN : OtherFrame(same)
    BY <2>3 DEF OtherFrame, Begin
  <2>4. CASE Field
    BY <2>4, FreeAt DEF Field, SendHeader, SendCheck, SendCrc, SendAck, SendEof0, SendBit5, SendBit7,
       SendPause, Disturb, SendFlag, SendDelimiter
  <2>5. CASE Irq \/ LineStep \/ Enqueue \/ WakeUp \/ Fetch \/ Release
             \/ ClearTx \/ Deinit \/ CanInit \/ UNCHANGED vars
    BY <2>1, <2>5, IrqIs DEF Irq, IrqRxData, IrqLine, Untouched, LineStep, Overrun, Idle,
       CounterOverflow, QuietBits, Enqueue, WakeUp,
       Fetch, Release, ClearTx, Deinit, CanInit, vars,
       IrqAckDone, IrqMatched, IrqMayTx, IrqTxPending
  <2> QED BY <2>2, <2>3, <2>4, <2>5 DEF Next, LineStep
<1> QED BY <1>1, AlwaysTrack, PTL DEF Spec, NeverSentAgain

-----------------------------------------------------------------------------
(***************************************************************************)
(* What is reported was received: a frame that the parser is in, or is     *)
(* going to take, and that no field will make it discard, is accepted by   *)
(* every receiver (C), or still on the bus undisturbed (now).              *)
(***************************************************************************)
Sound(p, i, x, C, now) ==
  \E m \in i + 1 .. Len(p) + 1 :
    /\ \A j \in i + 1 .. m - 1 : Plain(p[j])
    /\ IF m = Len(p) + 1 THEN x \in now
                         ELSE ~Plain(p[m]) /\ (Ending(p[m], FALSE) => x \in C)

(* torn: the frame on the bus, if its beginning was not received.          *)
Honest(d, p, k, C, now, torn) ==
  /\ Receiving(d) => Sound(p, k, d.msg, C, now) /\ d.msg \notin torn
  /\ \A i \in k + 1 .. Len(p) : Other(p, i) /\ Due(d, k, i) =>
       Sound(p, i, p[i].frame, C, now) /\ p[i].frame \notin torn

(* botched: a header is on the bus whose beginning was not received.       *)
Unseen(d, p, k, botched) == botched => ~Due(d, k, Len(p) + 1)

EofSeen(d) == d.report = "RX_EOF" => d.parse \in {"EOF0", "EOF1"}

HeardIn(d, C) == \A j \in 1 .. Len(d.heard) : d.heard[j] \in C

Truthful(d, p, k, C, now, torn, botched) ==
  Honest(d, p, k, C, now, torn) /\ Unseen(d, p, k, botched) /\ EofSeen(d)

LEMMA SoundStep ==
  ASSUME NEW p, Len(p) \in Nat, NEW k \in Nat, k < Len(p), NEW x, NEW C, NEW now,
         Sound(p, k, x, C, now)
  PROVE  /\ Plain(p[k + 1]) => Sound(p, k + 1, x, C, now)
         /\ Ending(p[k + 1], FALSE) => x \in C
<1> DEFINE l == Len(p)
<1>1. PICK m \in k + 1 .. l + 1 :
        /\ \A j \in k + 1 .. m - 1 : Plain(p[j])
        /\ IF m = l + 1 THEN x \in now ELSE ~Plain(p[m]) /\ (Ending(p[m], FALSE) => x \in C)
  BY DEF Sound
<1>2. CASE m = k + 1
  <2>1. m # l + 1
    BY <1>2
  <2> QED BY <1>1, <1>2, <2>1
<1>3. CASE m # k + 1
  <2>1. k + 1 \in k + 1 .. m - 1 /\ m \in (k + 1) + 1 .. l + 1
        /\ \A j \in (k + 1) + 1 .. m - 1 : j \in k + 1 .. m - 1
    BY <1>3
  <2>2. Plain(p[k + 1]) /\ Sound(p, k + 1, x, C, now)
    BY <1>1, <2>1 DEF Sound
  <2>3. ~Ending(p[k + 1], FALSE)
    BY <2>2 DEF Plain, Ending
  <2> QED BY <2>2, <2>3
<1> QED BY <1>2, <1>3

LEMMA HeardInStays ==
  ASSUME NEW d, NEW e, NEW C, HeardIn(d, C), IsASequence(d.heard),
         e.heard = d.heard \/ (e.heard = Append(d.heard, d.msg) /\ d.msg \in C)
  PROVE  HeardIn(e, C)
<1>1. CASE e.heard = d.heard
  BY <1>1 DEF HeardIn
<1>2. CASE e.heard = Append(d.heard, d.msg) /\ d.msg \in C
  <2> DEFINE s == d.heard
             t == Append(s, d.msg)
  <2>1. /\ Len(s) \in Nat /\ Len(t) = Len(s) + 1 /\ t[Len(s) + 1] = d.msg
        /\ \A j \in 1 .. Len(s) : t[j] = s[j] /\ s[j] \in C
    BY AppendedAt DEF HeardIn
  <2>2. e.heard = t
    BY <1>2
  <2> HIDE DEF s, t
  <2>3. \A j \in 1 .. Len(t) : j \in 1 .. Len(s) \/ j = Len(s) + 1
    BY <2>1
  <2> QED BY <1>2, <2>1, <2>2, <2>3 DEF HeardIn
<1> QED BY <1>1, <1>2

(* A header that is met after a field was, or would have been, before it.  *)
LEMMA DueBefore ==
  ASSUME NEW d, NEW e, NEW p, Len(p) \in Nat, NEW k \in Nat, k < Len(p), NEW at,
         Grammar(d, p, k, at), Reads(d, p[k + 1], e), NEW i \in k + 2 .. Len(p) + 1,
         IF i = Len(p) + 1 THEN at = "header" ELSE p[i].is = "header", Due(e, k + 1, i)
  PROVE  Due(d, k, i)
<1>1. i # k + 1 /\ (k + 1) + 1 = k + 2
  OBVIOUS
<1>2. CASE i = k + 2
  <2>1. e.parse = "HEADER"
    BY <1>1, <1>2 DEF Due
  <2>2. Leads(p[k + 1]) = "header"
    <3>1. CASE i = Len(p) + 1
      <4>1. Len(p) = k + 1
        BY <1>2, <3>1
      <4> QED BY <3>1, <4>1 DEF Grammar
    <3>2. CASE i # Len(p) + 1
      <4>1. k + 1 \in k + 1 .. Len(p) - 1
        BY <1>2, <3>2
      <4>2. Comes(Leads(p[k + 1]), p[k + 2])
        BY <1>1, <4>1 DEF Grammar
      <4> QED BY <1>2, <3>2, <4>2 DEF Comes
    <3> QED BY <3>1, <3>2
  <2>3. p[k + 1].is = "sof"
    BY <2>2 DEF Leads
  <2>4. d.parse = "START"
    BY <2>1, <2>3 DEF Reads, Discards, Settles, Starts, TakesOwn, TakesOther, CrcGood, AckGood,
                      Eof0Good, Ends
  <2> QED BY <1>1, <2>4 DEF Due
<1>3. CASE i # k + 2
  BY <1>1, <1>3 DEF Due
<1> QED BY <1>2, <1>3

(* One field is handled.                                                   *)
LEMMA TruthfulStep ==
  ASSUME NEW d, NEW e, NEW p, Len(p) \in Nat, NEW k \in Nat, k < Len(p), NEW at,
         Grammar(d, p, k, at), Reads(d, p[k + 1], e), NEW n, NEW W, DriverInv(d, n, W),
         NEW m, Arriving(e, p, k + 1, m), IsASequence(d.heard), NEW C, HeardIn(d, C),
         NEW now, NEW torn, NEW botched, botched => at = "header",
         Truthful(d, p, k, C, now, torn, botched)
  PROVE  Truthful(e, p, k + 1, C, now, torn, botched) /\ HeardIn(e, C)
<1> DEFINE g == p[k + 1]
           l == Len(p)
<1>1. \A i \in (k + 1) + 1 .. l : i \in k + 1 .. l /\ i \in k + 2 .. l + 1 /\ i # l + 1
  OBVIOUS
<1>2. ASSUME NEW i \in (k + 1) + 1 .. l, Other(p, i), Due(e, k + 1, i)
      PROVE  Sound(p, i, p[i].frame, C, now) /\ p[i].frame \notin torn
  <2>1. Due(d, k, i)
    BY <1>1, <1>2, DueBefore DEF Other
  <2> QED BY <1>1, <1>2, <2>1 DEF Truthful, Honest
<1>3. Unseen(e, p, k + 1, botched)
  <2> SUFFICES ASSUME botched, Due(e, k + 1, l + 1) PROVE FALSE
    BY DEF Unseen
  <2>1. l + 1 \in k + 2 .. l + 1
    OBVIOUS
  <2>2. Due(d, k, l + 1)
    BY <2>1, DueBefore
  <2> QED BY <2>2 DEF Truthful, Unseen
<1>4. ASSUME e.msg = d.msg, Receiving(e) => Receiving(d) /\ Plain(g)
      PROVE  Honest(e, p, k + 1, C, now, torn)
  <2>1. ASSUME Receiving(e) PROVE Sound(p, k + 1, e.msg, C, now) /\ e.msg \notin torn
    <3>1. Receiving(d) /\ Plain(g)
      BY <1>4, <2>1
    <3> QED BY <1>4, <3>1, SoundStep DEF Truthful, Honest
  <2> QED BY <1>2, <2>1 DEF Honest
<1>5. ASSUME ~Receiving(e) PROVE Honest(e, p, k + 1, C, now, torn) /\ EofSeen(e)
  BY <1>2, <1>5 DEF Honest, EofSeen, Receiving
<1>6. ASSUME e.heard = d.heard PROVE HeardIn(e, C)
  BY <1>6 DEF HeardIn
<1>7. ASSUME NEW S, Only(d, e, S), "heard" \notin S PROVE e.heard = d.heard
  BY <1>7 DEF Only, Fields
<1>8. ASSUME NEW S, Only(d, e, S), "report" \notin S, "msg" \notin S
      PROVE  e.report = d.report /\ e.msg = d.msg
  BY <1>8 DEF Only, Fields
<1>9. CASE g.is = "part" /\ e = d
  <2>1. Plain(g)
    BY <1>9 DEF Plain
  <2> QED BY <1>3, <1>4, <1>6, <1>9, <2>1 DEF Truthful
<1>10. CASE Discards(d, g, e)
  <2>1. ~Receiving(e) /\ e.heard = d.heard
    BY <1>7, <1>10 DEF Discards, Receiving
  <2> QED BY <1>3, <1>5, <1>6, <2>1 DEF Truthful
<1>11. CASE Settles(d, g, e)
  <2>1. e.heard = d.heard
    BY <1>7, <1>11 DEF Settles
  <2>3. ~Receiving(e)
    BY <1>11 DEF Settles, Receiving
  <2> QED BY <1>3, <1>5, <1>6, <2>1, <2>3 DEF Truthful
<1>12. CASE Starts(d, g, e)
  <2>1. e.report = d.report /\ e.heard = d.heard
    BY <1>7, <1>8, <1>12 DEF Starts
  <2>2. d.report = "IDLE"
    BY <1>12 DEF Starts, DriverInv, Duties
  <2>3. ~Receiving(e)
    BY <2>1, <2>2 DEF Receiving
  <2> QED BY <1>3, <1>5, <1>6, <2>1, <2>3 DEF Truthful
<1>13. CASE TakesOwn(d, g, e)
  <2>1. ~Receiving(e) /\ e.heard = d.heard
    BY <1>7, <1>13 DEF TakesOwn, Receiving
  <2> QED BY <1>3, <1>5, <1>6, <2>1 DEF Truthful
<1>14. CASE TakesOther(d, g, e)
  <2>1. /\ g.is = "header" /\ d.parse = "HEADER" /\ e.msg = g.frame /\ e.heard = d.heard
        /\ e.report = "RX_ACK"
    BY <1>7, <1>14 DEF TakesOther
  <2>2. ~g.frame.own
    BY <2>1 DEF Arriving, Receiving, Foreign
  <2>3. k + 1 \in k + 1 .. l /\ k + 1 # k + 2
    OBVIOUS
  <2>4. Other(p, k + 1) /\ Due(d, k, k + 1)
    BY <2>1, <2>2, <2>3 DEF Other, Due
  <2>5. Sound(p, k + 1, e.msg, C, now) /\ e.msg \notin torn
    BY <2>1, <2>3, <2>4 DEF Truthful, Honest
  <2>6. EofSeen(e)
    BY <2>1 DEF EofSeen
  <2> QED BY <1>2, <1>3, <1>6, <2>1, <2>5, <2>6 DEF Truthful, Honest
<1>15. CASE CrcGood(d, g, e)
  <2>1. Plain(g) /\ e.report = d.report /\ e.msg = d.msg /\ e.heard = d.heard /\ d.parse = "CRC"
    BY <1>7, <1>8, <1>15 DEF CrcGood, Plain
  <2>2. EofSeen(e)
    BY <2>1 DEF Truthful, EofSeen
  <2> QED BY <1>3, <1>4, <1>6, <2>1, <2>2 DEF Truthful, Receiving
<1>16. CASE AckGood(d, g, e)
  <2>1. Only(d, e, {"report", "parse"}) /\ Plain(g)
        /\ e.report = CASE d.report = "RX_ACK" -> "RX_EOF" [] d.report = "TX_ACK" -> "TX_EOF"
                        [] OTHER -> d.report
    BY <1>16 DEF AckGood, Plain
  <2>2. e.msg = d.msg /\ e.heard = d.heard /\ e.parse = "EOF0"
    BY <1>16, <2>1 DEF AckGood, Only, Fields
  <2>3. Receiving(e) => Receiving(d)
    BY <2>1 DEF Receiving
  <2>4. EofSeen(e)
    BY <2>2 DEF EofSeen
  <2> QED BY <1>3, <1>4, <1>6, <2>1, <2>2, <2>3, <2>4 DEF Truthful
<1>17. CASE Eof0Good(d, g, e)
  <2>1. Plain(g) /\ e.report = d.report /\ e.msg = d.msg /\ e.heard = d.heard /\ e.parse = "EOF1"
    BY <1>7, <1>8, <1>17 DEF Eof0Good, Plain
  <2>2. EofSeen(e)
    BY <2>1 DEF EofSeen
  <2> QED BY <1>3, <1>4, <1>6, <2>1, <2>2 DEF Truthful, Receiving
<1>18. CASE Ends(d, g, e)
  <2>1. /\ e.report = "IDLE" /\ g.is = "eof1"
        /\ e.heard = IF d.report = "RX_EOF" THEN Append(d.heard, d.msg) ELSE d.heard
        /\ g.first \in {"none", "pause", "bit7"}
    BY <1>18 DEF Ends
  <2>2. ASSUME d.report = "RX_EOF" PROVE d.msg \in C
    <3>1. Receiving(d) /\ Ending(g, FALSE)
      BY <2>1, <2>2 DEF Receiving, Ending
    <3>2. Sound(p, k, d.msg, C, now)
      BY <3>1 DEF Truthful, Honest
    <3> QED BY <3>1, <3>2, SoundStep
  <2>3. e.heard = d.heard \/ (e.heard = Append(d.heard, d.msg) /\ d.msg \in C)
    BY <2>1, <2>2
  <2>4. HeardIn(e, C)
    BY <2>3, HeardInStays
  <2>5. ~Receiving(e)
    BY <2>1 DEF Receiving
  <2> QED BY <1>3, <1>5, <2>4, <2>5 DEF Truthful
<1> QED BY <1>9, <1>10, <1>11, <1>12, <1>13, <1>14, <1>15, <1>16, <1>17, <1>18 DEF Reads

(* The match machine while a frame is received: it is to acknowledge the   *)
(* frame, then to report its end.  B has the frames whose crc is past, or  *)
(* that are not on the bus.                                                *)
Acking(d, B) ==
  "ACKDONE" \in d.inte =>
    /\ d.inte = {"MAYTX", "ACKDONE"} /\ d.key = Key("crc", d.msg) /\ "MATCHED" \notin d.irq
    /\ d.sm \in {"inject", "acking", "acked", "conflict"}
    /\ d.sm # "inject" => d.msg \in B
    /\ "ACKDONE" \in d.irq => d.sm # "inject"

Matching(d, C, B) ==
  "MATCHED" \in d.inte =>
    /\ d.key = Key("rxeof", d.msg) /\ d.msg \in B /\ "ACKDONE" \notin d.inte
    /\ "MATCHED" \in d.irq => d.msg \in C

Reply(d, C, B) == Receiving(d) => Acking(d, B) /\ Matching(d, C, B)

LEMMA ReplySame ==
  ASSUME NEW d, NEW e, NEW C, NEW B, Reply(d, C, B), Receiving(e) => Receiving(d),
         e.inte = d.inte, e.key = d.key, e.msg = d.msg, e.sm = d.sm,
         e.irq \in {d.irq, d.irq \cup {"TXPENDING"}, d.irq \ {"TXPENDING"}}
  PROVE  Reply(e, C, B)
<1>1. \A l \in {"MATCHED", "ACKDONE"} : l \in e.irq <=> l \in d.irq
  OBVIOUS
<1> QED BY <1>1 DEF Reply, Acking, Matching

LEMMA ReplyStep ==
  ASSUME NEW d, Driver(d), NEW f, NEW e, Reads(d, f, e), NEW n, NEW W, DriverInv(d, n, W),
         NEW C, NEW B, Reply(d, C, B)
  PROVE  Reply(e, C, B)
<1>1. ASSUME ~Receiving(e) PROVE Reply(e, C, B)
  BY <1>1 DEF Reply
<1>2. ASSUME NEW S, Only(d, e, S), S \cap {"inte", "key", "msg", "sm", "irq"} = {}
      PROVE  e.inte = d.inte /\ e.key = d.key /\ e.msg = d.msg /\ e.sm = d.sm /\ e.irq = d.irq
  BY <1>2 DEF Only, Fields
<1>3. CASE f.is = "part" /\ e = d
  BY <1>3
<1>4. CASE Discards(d, f, e) \/ Settles(d, f, e) \/ TakesOwn(d, f, e) \/ Ends(d, f, e)
  BY <1>1, <1>4 DEF Discards, Settles, TakesOwn, Ends, Receiving
<1>5. CASE Eof0Good(d, f, e)
  <2>1. Only(d, e, {"parse"})
    BY <1>5 DEF Eof0Good
  <2>2. e.report = d.report
    BY <2>1 DEF Only, Fields
  <2>3. e.inte = d.inte /\ e.key = d.key /\ e.msg = d.msg /\ e.sm = d.sm /\ e.irq = d.irq
    BY <1>2, <2>1
  <2> QED BY <2>2, <2>3, ReplySame DEF Receiving
<1>6. CASE Starts(d, f, e) \/ TakesOther(d, f, e)
  <2>1. "ACKDONE" \notin e.inte /\ "MATCHED" \notin e.inte
    BY <1>6 DEF Starts, TakesOther
  <2> QED BY <2>1 DEF Reply, Acking, Matching
<1>7. CASE CrcGood(d, f, e)
  <2>1. Only(d, e, {"inte", "parse"}) /\ e.inte = IF d.report = "TX_ACK" THEN {"MAYTX", "MATCHED"} ELSE d.inte
    BY <1>7 DEF CrcGood
  <2>2. e.report = d.report /\ e.key = d.key /\ e.msg = d.msg /\ e.sm = d.sm /\ e.irq = d.irq
    BY <2>1 DEF Only, Fields
  <2>3. CASE d.report = "TX_ACK"
    BY <1>1, <2>2, <2>3 DEF Receiving
  <2>4. CASE d.report # "TX_ACK"
    BY <2>1, <2>2, <2>4, ReplySame DEF Receiving
  <2> QED BY <2>3, <2>4
<1>8. CASE AckGood(d, f, e)
  <2>1. Only(d, e, {"report", "parse"})
        /\ e.report = CASE d.report = "RX_ACK" -> "RX_EOF" [] d.report = "TX_ACK" -> "TX_EOF"
                        [] OTHER -> d.report
    BY <1>8 DEF AckGood
  <2>2. Receiving(e) => Receiving(d)
    BY <2>1 DEF Receiving
  <2>3. e.inte = d.inte /\ e.key = d.key /\ e.msg = d.msg /\ e.sm = d.sm /\ e.irq = d.irq
    BY <1>2, <2>1
  <2> QED BY <2>2, <2>3, ReplySame
<1> QED BY <1>3, <1>4, <1>5, <1>6, <1>7, <1>8 DEF Reads

-----------------------------------------------------------------------------
(* Through the loop.                                                       *)
LEMMA SoundRebased ==
  ASSUME NEW a, NEW b, IsASequence(a), IsASequence(b), NEW i \in Nat, NEW x, NEW C, NEW now,
         Sound(a \o b, Len(a) + i, x, C, now)
  PROVE  Sound(b, i, x, C, now)
<1> DEFINE p == a \o b
           l == Len(a)
           n == Len(b)
           End(s, j, last) == IF j = last THEN x \in now
                              ELSE ~Plain(s[j]) /\ (Ending(s[j], FALSE) => x \in C)
<1>1. /\ l \in Nat /\ n \in Nat /\ Len(p) = l + n
      /\ \A j \in 1 .. n : p[l + j] = b[j]
  BY JoinedAt
<1>2. PICK m \in (l + i) + 1 .. Len(p) + 1 :
        /\ \A j \in (l + i) + 1 .. m - 1 : Plain(p[j])
        /\ End(p, m, Len(p) + 1)
  BY DEF Sound
<1> HIDE DEF p, l, n
<1>3. PICK r : r = m - l
  OBVIOUS
<1>4. m \in Int /\ r \in i + 1 .. n + 1 /\ r \in Int /\ l + r = m /\ (m = Len(p) + 1 <=> r = n + 1)
  BY <1>1, <1>2, <1>3
<1>5. ASSUME NEW j \in i + 1 .. r - 1 PROVE Plain(b[j])
  <2>1. l + j \in (l + i) + 1 .. m - 1 /\ j \in 1 .. n
    BY <1>1, <1>4, <1>5
  <2> QED BY <1>1, <1>2, <2>1
<1>6. End(b, r, n + 1)
  <2>1. CASE r = n + 1
    BY <1>2, <1>4, <2>1
  <2>2. CASE r # n + 1
    <3>1. r \in 1 .. n
      BY <1>1, <1>4, <2>2
    <3>2. p[m] = b[r]
      BY <1>1, <1>4, <3>1
    <3> QED BY <1>2, <1>4, <2>2, <3>2
  <2> QED BY <2>1, <2>2
<1> QED BY <1>4, <1>5, <1>6 DEF Sound, n

LEMMA TruthfulRebased ==
  ASSUME NEW d, NEW a, NEW b, IsASequence(a), IsASequence(b), NEW C, NEW now, NEW torn, NEW botched,
         Truthful(d, a \o b, Len(a), C, now, torn, botched)
  PROVE  Truthful(d, b, 0, C, now, torn, botched)
<1> DEFINE p == a \o b
           l == Len(a)
           n == Len(b)
<1>1. /\ l \in Nat /\ n \in Nat /\ Len(p) = l + n
      /\ \A j \in 1 .. n : p[l + j] = b[j]
  BY JoinedAt
<1>2. \A i \in Nat : \A x : Sound(p, l + i, x, C, now) => Sound(b, i, x, C, now)
  BY SoundRebased
<1>3. Truthful(d, p, l, C, now, torn, botched)
  OBVIOUS
<1> HIDE DEF p, l, n
<1>4. \A i : i \in Nat => (Due(d, l, l + i) <=> Due(d, 0, i))
  <2>1. \A i : i \in Nat => (l + i = l + 1 <=> i = 0 + 1) /\ (l + i = l + 2 <=> i = 0 + 2)
    BY <1>1
  <2> QED BY <2>1 DEF Due
<1>5. ASSUME Receiving(d) PROVE Sound(b, 0, d.msg, C, now) /\ d.msg \notin torn
  <2>1. l + 0 = l /\ 0 \in Nat
    BY <1>1
  <2> QED BY <1>2, <1>3, <1>5, <2>1 DEF Truthful, Honest
<1>6. ASSUME NEW i \in 0 + 1 .. n, Other(b, i), Due(d, 0, i)
      PROVE  Sound(b, i, b[i].frame, C, now) /\ b[i].frame \notin torn
  <2>1. i \in 1 .. n /\ i \in Nat /\ l + i \in l + 1 .. Len(p)
    BY <1>1, <1>6
  <2>2. p[l + i] = b[i] /\ Due(d, l, l + i)
    BY <1>1, <1>4, <1>6, <2>1
  <2>3. Sound(p, l + i, b[i].frame, C, now) /\ b[i].frame \notin torn
    BY <1>3, <1>6, <2>1, <2>2 DEF Truthful, Honest, Other
  <2> QED BY <1>2, <2>1, <2>3
<1>7. Unseen(d, b, 0, botched)
  <2>1. Len(p) + 1 = l + (n + 1) /\ n + 1 \in Nat
    BY <1>1
  <2>2. Due(d, l, Len(p) + 1) <=> Due(d, 0, n + 1)
    BY <1>4, <2>1
  <2> QED BY <1>3, <2>2 DEF Truthful, Unseen, n
<1> QED BY <1>3, <1>5, <1>6, <1>7 DEF Truthful, Honest, n

(* A driver that has just been started, or reset, has received nothing.    *)
LEMMA NothingReceived ==
  ASSUME NEW e, e.rx = <<>>, e.isr = <<>>, e.parse = "DISCARD", e.report = "IDLE",
         NEW C, NEW now, NEW torn, NEW botched, NEW B
  PROVE  Truthful(e, Pipe(e), 0, C, now, torn, botched) /\ Reply(e, C, B)
<1>1. <<>> \o <<>> = <<>> /\ Len(<<>>) = 0 /\ \A i \in 0 + 1 .. Len(<<>>) : FALSE
  OBVIOUS
<1>2. Pipe(e) = <<>> /\ ~Receiving(e)
  BY <1>1 DEF Pipe, Receiving
<1>3. ~Due(e, 0, Len(<<>>) + 1)
  BY <1>1, <1>2 DEF Due
<1> QED BY <1>1, <1>2, <1>3 DEF Truthful, Honest, Unseen, EofSeen, Reply

LEMMA LoopTruthful ==
  ASSUME IrqRxData, Base, FlowOK, ~cd.stall, QuietLast(cd), Follows(cd, Pipe(cd), 0, bus.at),
         NEW C, HeardIn(cd, C), NEW now, NEW torn, NEW botched, botched => bus.at = "header",
         Truthful(cd, Pipe(cd), 0, C, now, torn, botched), NEW B, Reply(cd, C, B)
  PROVE  /\ Truthful(cd', Pipe(cd'), 0, C, now, torn, botched)
         /\ HeardIn(cd', C) /\ Reply(cd', C, B) /\ (Steady(cd, cd') \/ Reset(cd'))
<1>1. PICK u, n : Loop(u, n)
  BY LoopReads
<1> DEFINE p == Pipe(cd)
           at == bus.at
           ns == sent
           W == withdrawn
           m == Passed
           At0(e, i) == /\ Grammar(e, p, i, at) /\ HeardIn(e, C) /\ Reply(e, C, B)
                        /\ Truthful(e, p, i, C, now, torn, botched)
           T == { i \in 0 .. n : At0(u[i], i) }
<1>2. /\ n \in Nat /\ Len(p) \in Nat /\ n <= Len(p)
      /\ (cd' = u[n] /\ n = Len(cd.rx)) \/ cd' = LineQuiet(u[n])
  BY <1>1 DEF Loop
<1>3. \A i \in 0 .. n : /\ Driver(u[i]) /\ Steady(cd, u[i]) /\ ~u[i].stall /\ Arriving(u[i], p, i, m)
                        /\ DriverInv(u[i], ns, W) /\ IsASequence(u[i].heard)
  BY <1>1 DEF Loop, DriverInv, QueueInv, Steady, FlowInv, HeardInOrder, IsASequence
<1>4. \A i \in 1 .. n : Reads(u[i - 1], p[i], u[i])
  BY <1>1 DEF Loop
<1>5. u[0] = Flushed(cd)
  BY <1>1 DEF Loop
<1>6. Grammar(cd, p, 0, at) /\ Driver(cd)
  BY DEF Follows, FlowOK, Signals, IrqRxData, Base, DriverInv, QueueInv
<1>7. Truthful(cd, p, 0, C, now, torn, botched) /\ (botched => at = "header")
  OBVIOUS
<1> HIDE DEF p, at, ns, W, m
<1>8. 0 \in T
  <2> DEFINE e == Flushed(cd)
  <2>1. Only(cd, e, {"rx"})
    BY <1>6, FlushedDoes
  <2> HIDE DEF e
  <2>2. /\ e.parse = cd.parse /\ e.report = cd.report /\ e.msg = cd.msg /\ e.heard = cd.heard
        /\ e.inte = cd.inte /\ e.irq = cd.irq /\ e.key = cd.key /\ e.sm = cd.sm
    BY <2>1 DEF Only, Fields
  <2>3. Grammar(e, p, 0, at)
    BY <1>6, <2>2 DEF Grammar
  <2>4. HeardIn(e, C) /\ Reply(e, C, B)
    BY <2>2, ReplySame DEF HeardIn, Receiving
  <2>5. Truthful(e, p, 0, C, now, torn, botched)
    BY <1>7, <2>2 DEF Truthful, Honest, Unseen, EofSeen, Due, Receiving
  <2> QED BY <1>2, <1>5, <2>3, <2>4, <2>5 DEF e
<1>9. ASSUME NEW i \in 1 .. n, i - 1 \in T
      PROVE  At0(u[i], i)
  <2> DEFINE d == u[i - 1]
             e == u[i]
             k == i - 1
  <2>1. At0(d, k) /\ k \in Nat /\ k + 1 = i /\ k < Len(p) /\ k \in 0 .. n /\ i \in 0 .. n
    BY <1>2, <1>9
  <2>2. /\ Driver(d) /\ ~d.stall /\ Reads(d, p[k + 1], e) /\ DriverInv(d, ns, W)
        /\ IsASequence(d.heard) /\ Arriving(e, p, k + 1, m)
    BY <1>3, <1>4, <2>1
  <2> HIDE DEF d, e, k
  <2>3. Grammar(e, p, k + 1, at)
    BY <1>2, <2>1, <2>2, GrammarStep
  <2>4. Truthful(e, p, k + 1, C, now, torn, botched) /\ HeardIn(e, C)
    BY <1>2, <1>7, <2>1, <2>2, TruthfulStep
  <2>5. Reply(e, C, B)
    BY <2>1, <2>2, ReplyStep
  <2> QED BY <2>1, <2>3, <2>4, <2>5 DEF e
<1>10. \A i \in 1 .. n : i - 1 \in T => i \in T
  <2>1. \A i \in 1 .. n : i \in 0 .. n
    BY <1>2
  <2> QED BY <1>9, <2>1
<1>11. n \in T
  <2>1. \A i \in 0 .. n : i \in T
    <3> HIDE DEF T
    <3> QED BY <1>2, <1>8, <1>10, CountUp
  <2>2. n \in 0 .. n
    BY <1>2
  <2> QED BY <2>1, <2>2
<1> DEFINE e == u[n]
<1>12. n \in 0 .. n
  BY <1>2
<1>13. /\ Truthful(e, p, n, C, now, torn, botched) /\ HeardIn(e, C) /\ Reply(e, C, B)
       /\ Steady(cd, e) /\ Driver(e)
  BY <1>3, <1>11, <1>12
<1>14. p = cd.rx \o cd.isr
  BY DEF p, Pipe
<1>15. CASE cd' = e /\ n = Len(cd.rx)
  <2> HIDE DEF e
  <2>1. Pipe(e) = cd.isr /\ IsASequence(cd.rx) /\ IsASequence(cd.isr)
    BY <1>13, LoopLeaves
  <2>2. Truthful(e, Pipe(e), 0, C, now, torn, botched)
    BY <1>13, <1>14, <1>15, <2>1, TruthfulRebased
  <2> QED BY <1>13, <1>15, <2>2
<1>16. CASE cd' = LineQuiet(e)
  <2> DEFINE g == LineQuiet(e)
  <2>1. Reset(g) /\ g.heard = e.heard
    BY <1>13, ResetIs
  <2>2. cd' = g
    BY <1>16
  <2> HIDE DEF g
  <2>3. Truthful(g, Pipe(g), 0, C, now, torn, botched) /\ Reply(g, C, B)
    BY <2>1, NothingReceived DEF Reset
  <2>4. HeardIn(g, C)
    BY <1>13, <2>1 DEF HeardIn
  <2> QED BY <2>1, <2>2, <2>3, <2>4
<1> QED BY <1>2, <1>15, <1>16

-----------------------------------------------------------------------------
(* The lines.  A frame whose acknowledgement has passed when the bus is    *)
(* free, and that the parser has seen it of, is accepted.                  *)
LEMMA EndsFree ==
  ASSUME NEW d, NEW p, p = d.isr, IsASequence(p), ~d.stall, d.parse \in {"EOF0", "EOF1"},
         Grammar(d, p, 0, "free"), HeldBack(d, "free"), Cleared(d, "free"), Held(d, "free"),
         NEW x, NEW C, Sound(p, 0, x, C, {})
  PROVE  x \in C
<1> DEFINE n == Len(p)
           Nearing == {"crc", "ack", "eof0", "bit5", "bit7", "pause"}
<1>1. n \in Nat
  BY DEF IsASequence
<1>2. PICK m \in 0 + 1 .. n + 1 :
        /\ \A j \in 0 + 1 .. m - 1 : Plain(p[j])
        /\ IF m = n + 1 THEN x \in {} ELSE ~Plain(p[m]) /\ (Ending(p[m], FALSE) => x \in C)
  BY DEF Sound
<1> HIDE DEF n
<1>3. m \in 1 .. n /\ m \in Nat /\ m # n + 1 /\ 0 < n /\ 0 + 1 = 1
  <2>1. m \in 0 + 1 .. n + 1
    BY <1>2
  <2>2. m # n + 1
    <3> SUFFICES ASSUME m = n + 1 PROVE FALSE
      OBVIOUS
    <3>1. x \in {}
      BY <1>2, Zenon
    <3> QED BY <3>1
  <2> QED BY <1>1, <2>1, <2>2
<1>4. ~Plain(p[m]) /\ (Ending(p[m], FALSE) => x \in C)
  BY <1>2, <1>3
<1>5. /\ p[m].is \notin {"crc", "ack", "flag", "eof0", "part"}
  <2>1. Len(d.isr) = n /\ d.isr[m] = p[m] /\ m \in 1 .. Len(d.isr)
    BY <1>3 DEF n
  <2>2. p[m].is \notin {"crc", "ack"}
    BY <2>1 DEF Held
  <2>3. p[m].is # "flag"
    BY <2>1 DEF Cleared
  <2> QED BY <1>4, <2>2, <2>3 DEF Plain
<1>6. \E a \in Nearing : Comes(a, p[m])
  <2>1. CASE m = 1
    <3>1. Awaits(d.parse, p[1])
      BY <1>3 DEF Grammar, n
    <3>2. PICK a : Fits(d.parse, a) /\ Comes(a, p[1])
      BY <3>1 DEF Awaits
    <3>3. a \in Nearing
      BY <3>2 DEF Fits
    <3> QED BY <2>1, <3>2, <3>3
  <2>2. CASE m # 1
    <3>1. m - 1 \in 0 + 1 .. m - 1 /\ m - 1 \in 0 + 1 .. n - 1 /\ (m - 1) + 1 = m
      BY <1>1, <1>3, <2>2
    <3>2. Plain(p[m - 1]) /\ Comes(Leads(p[m - 1]), p[m])
      BY <1>2, <3>1 DEF Grammar, n
    <3>3. Leads(p[m - 1]) \in Nearing
      BY <3>2 DEF Plain, Leads
    <3> QED BY <3>2, <3>3
  <2> QED BY <2>1, <2>2
<1>7. p[m].is = "eof1" /\ p[m].first \in {"none", "bit5", "bit7", "pause"}
  BY <1>5, <1>6 DEF Comes
<1>8. CASE p[m].first # "bit5"
  BY <1>4, <1>7, <1>8 DEF Ending
<1>9. CASE p[m].first = "bit5"
  <2>1. Leads(p[m]) = "flag"
    BY <1>7, <1>9 DEF Leads
  <2>2. m # n
    BY <1>3, <2>1 DEF Grammar, n
  <2>3. m \in 0 + 1 .. n - 1 /\ m + 1 \in 1 .. n
    BY <1>1, <1>3, <2>2
  <2>4. Comes("flag", p[m + 1])
    BY <2>1, <2>3 DEF Grammar, n
  <2>5. p[m + 1].is = "flag"
    BY <2>4 DEF Comes
  <2> QED BY <2>3, <2>5 DEF Cleared, n
<1> QED BY <1>8, <1>9

(* What a line leaves of the match machine's task, and what it reports.    *)
LEMMA ActsReply ==
  ASSUME NEW l, NEW d, NEW e, Acts(l, d, e), Line1(d, e), l \in d.irq, l \in d.inte, Driver(d),
         NEW C, NEW B, Reply(d, C, B), d.report \in {"IDLE", "RX_ACK", "TX_ACK", "RX_EOF", "TX_EOF"}
  PROVE  /\ Reply(e, C, B)
         /\ e.report = "IDLE" \/ e.report = d.report
         /\ \/ e.heard = d.heard
            \/ /\ e.heard = Append(d.heard, d.msg) /\ Receiving(d)
               /\ l = "MATCHED" \/ (l = "MAYTX" /\ d.report = "RX_EOF")
<1>1. e.msg = d.msg /\ e.irq \subseteq d.irq
  BY DEF Line1
<1>2. ASSUME NEW h, NEW lines, Schedules(h, e, lines)
      PROVE  /\ e.report = h.report /\ e.heard = h.heard /\ e.key = h.key /\ e.msg = h.msg
             /\ e.inte \in {lines, lines \cup {"TXPENDING"}}
  BY <1>2 DEF Schedules, Only, Fields
<1>3. ASSUME e.report = "IDLE" PROVE Reply(e, C, B)
  BY <1>3 DEF Reply, Receiving
<1>4. ASSUME e.report = d.report, Receiving(e) PROVE Acking(d, B) /\ Matching(d, C, B)
  BY <1>4 DEF Reply, Receiving
<1>5. ASSUME NEW h, NEW received, NEW transmitted, Finishes(d, h, received, transmitted),
             Schedules(h, e, {}), d.report \in received => Receiving(d)
      PROVE  /\ Reply(e, C, B) /\ e.report = "IDLE"
             /\ e.heard = d.heard \/ (e.heard = Append(d.heard, d.msg) /\ d.report \in received)
  <2>1. h.report = "IDLE" /\ h.heard = IF d.report \in received THEN Append(d.heard, d.msg) ELSE d.heard
    BY <1>5 DEF Finishes
  <2> QED BY <1>2, <1>3, <1>5, <2>1
<1>6. CASE l = "ACKDONE"
  <2>1. PICK h : Only(d, h, {"key"}) /\ h.key = Key("rxeof", d.msg) /\ Schedules(h, e, {"MAYTX", "MATCHED"})
    BY <1>6 DEF Acts
  <2>2. h.report = d.report /\ h.heard = d.heard
    BY <2>1 DEF Only, Fields
  <2>3. /\ e.report = d.report /\ e.heard = d.heard /\ e.key = Key("rxeof", d.msg)
        /\ "ACKDONE" \notin e.inte
    BY <1>2, <2>1, <2>2
  <2>4. ASSUME Receiving(e) PROVE Acking(e, B) /\ Matching(e, C, B)
    <3>1. Acking(d, B)
      BY <1>4, <2>3, <2>4
    <3>2. d.msg \in B /\ "MATCHED" \notin d.irq
      BY <1>6, <3>1 DEF Acking
    <3> QED BY <1>1, <2>3, <3>2 DEF Acking, Matching
  <2> QED BY <2>3, <2>4 DEF Reply
<1>7. CASE l = "MATCHED"
  <2>1. PICK h : Finishes(d, h, {"RX_ACK", "RX_EOF"}, {"TX_ACK", "TX_EOF"}) /\ Schedules(h, e, {})
    BY <1>7 DEF Acts
  <2>2. d.report \in {"RX_ACK", "RX_EOF"} <=> Receiving(d)
    BY DEF Receiving
  <2> QED BY <1>5, <1>7, <2>1, <2>2
<1>8. CASE l = "MAYTX"
  <2>1. PICK h : Finishes(d, h, {"RX_EOF"}, {"TX_EOF"}) /\ Schedules(h, e, {})
    BY <1>8 DEF Acts
  <2>2. d.report \in {"RX_EOF"} => Receiving(d)
    BY DEF Receiving
  <2> QED BY <1>5, <1>8, <2>1, <2>2
<1>9. CASE l = "TXPENDING" /\ Injects(d, e)
  <2>1. /\ Only(d, e, {"tx", "irq", "key", "sm", "inte"}) /\ e.inte = {"MAYTX", "ACKDONE"}
        /\ e.irq = d.irq \ {"MATCHED", "ACKDONE"} /\ e.key = Key("crc", d.msg) /\ e.sm = "inject"
    BY <1>9 DEF Injects
  <2>2. e.report = d.report /\ e.heard = d.heard
    BY <2>1 DEF Only, Fields
  <2>3. Acking(e, B) /\ Matching(e, C, B)
    BY <1>1, <2>1 DEF Acking, Matching
  <2> QED BY <2>2, <2>3 DEF Reply
<1>10. CASE l = "TXPENDING" /\ Schedules(d, e, d.inte \ {"TXPENDING"})
  <2>1. /\ e.report = d.report /\ e.heard = d.heard /\ e.key = d.key
        /\ e.inte \in {d.inte \ {"TXPENDING"}, (d.inte \ {"TXPENDING"}) \cup {"TXPENDING"}}
    BY <1>2, <1>10
  <2>2. ASSUME Receiving(e) PROVE Acking(e, B) /\ Matching(e, C, B)
    <3>1. Acking(d, B) /\ Matching(d, C, B)
      BY <1>4, <2>1, <2>2
    <3>2. "ACKDONE" \notin d.inte
      BY <1>10, <3>1 DEF Acking
    <3>3. "ACKDONE" \notin e.inte /\ ("MATCHED" \in e.inte => "MATCHED" \in d.inte)
      BY <2>1, <3>2
    <3>4. "MATCHED" \in e.irq => "MATCHED" \in d.irq
      BY <1>1
    <3> QED BY <1>1, <2>1, <3>1, <3>3, <3>4 DEF Acking, Matching
  <2> QED BY <2>1, <2>2 DEF Reply
<1> QED BY <1>6, <1>7, <1>8, <1>9, <1>10 DEF Acts

LEMMA LineTruthful ==
  ASSUME NEW l, NEW d, NEW e, Acts(l, d, e), Line1(d, e), NEW n, NEW W, DriverInv(d, n, W),
         l \in d.irq, l \in d.inte, NEW p, p = d.isr, IsASequence(p), ~d.stall,
         NEW at, HeldBack(d, at), Cleared(d, at), Signals(d), d.sync \in Still => at = "free",
         Follows(d, p, 0, at), Held(d, at), IsASequence(d.heard),
         NEW C, HeardIn(d, C), NEW now, at = "free" => now = {}, NEW torn, NEW botched,
         Truthful(d, p, 0, C, now, torn, botched), NEW B, Reply(d, C, B)
  PROVE  Truthful(e, p, 0, C, now, torn, botched) /\ HeardIn(e, C) /\ Reply(e, C, B)
<1>1. e.parse = d.parse /\ e.msg = d.msg
  BY DEF Line1
<1>2. Driver(d) /\ d.report \in {"IDLE", "RX_ACK", "TX_ACK", "RX_EOF", "TX_EOF"}
  BY DEF DriverInv, QueueInv, Kinds
<1>3. /\ Reply(e, C, B)
      /\ e.report = "IDLE" \/ e.report = d.report
      /\ \/ e.heard = d.heard
         \/ /\ e.heard = Append(d.heard, d.msg) /\ Receiving(d)
            /\ l = "MATCHED" \/ (l = "MAYTX" /\ d.report = "RX_EOF")
  BY <1>2, ActsReply
<1>4. Truthful(e, p, 0, C, now, torn, botched)
  <2>1. Honest(e, p, 0, C, now, torn)
    BY <1>1, <1>3 DEF Truthful, Honest, Receiving, Due
  <2>2. Unseen(e, p, 0, botched) /\ EofSeen(e)
    BY <1>1, <1>3 DEF Truthful, Unseen, EofSeen, Due
  <2> QED BY <2>1, <2>2 DEF Truthful
<1>5. ASSUME e.heard # d.heard PROVE d.msg \in C
  <2>1. Receiving(d) /\ (l = "MATCHED" \/ (l = "MAYTX" /\ d.report = "RX_EOF"))
    BY <1>3, <1>5
  <2>2. CASE l = "MATCHED"
    BY <2>1, <2>2 DEF Reply, Matching
  <2>3. CASE l = "MAYTX" /\ d.report = "RX_EOF"
    <3>1. at = "free" /\ d.sync # "lost"
      BY <2>3 DEF Signals, Still
    <3>2. Sound(p, 0, d.msg, C, {}) /\ d.parse \in {"EOF0", "EOF1"}
      BY <2>1, <2>3, <3>1 DEF Truthful, Honest, EofSeen
    <3>3. Grammar(d, p, 0, "free")
      BY <3>1 DEF Follows
    <3> QED BY <3>1, <3>2, <3>3, EndsFree
  <2> QED BY <2>1, <2>2, <2>3
<1>6. HeardIn(e, C)
  BY <1>3, <1>5, HeardInStays
<1> QED BY <1>3, <1>4, <1>6

-----------------------------------------------------------------------------
(***************************************************************************)
(* Nothing is reported that a receiver did not have to accept: while no    *)
(* bits have been lost, what the parser holds for received is (Honest),    *)
(* and so is what the match machine watches the end of (Reply).            *)
(***************************************************************************)
Torn == IF bus.at \in {"check", "crc"} /\ ~bus.clean THEN {Name(bus)} ELSE {}
Botched == bus.at = "header" /\ ~bus.clean

(* Frames that are not on the bus, or undisturbed and behind their crc.    *)
Behind ==
  { x \in Foreign : bus # Free /\ Name(bus) = x =>
                      bus.clean /\ bus.at \notin {"header", "check", "crc"} }

Taken ==
  bus.at \in {"bit7", "pause"} /\ bus.clean /\ ~bus.own /\ cd.sync # "lost" => Name(bus) \in complete

TruthOK ==
  ~overrun => /\ HeardIn(cd, complete) /\ Taken
              /\ cd.on => /\ Truthful(cd, Pipe(cd), 0, complete, Now, Torn, Botched)
                          /\ Reply(cd, complete, Behind)

(* A field more: what it is to a frame of X that is received.              *)
Follow(f, x, C2, now, now2) ==
  x \in now => IF Plain(f) THEN x \in now2 ELSE Ending(f, FALSE) => x \in C2

LEMMA SoundLonger ==
  ASSUME NEW p, IsASequence(p), NEW f, NEW x, NEW C, NEW C2, C \subseteq C2, NEW now, NEW now2,
         Follow(f, x, C2, now, now2), NEW i \in Nat, i <= Len(p), Sound(p, i, x, C, now)
  PROVE  Sound(Append(p, f), i, x, C2, now2)
<1> DEFINE q == Append(p, f)
           n == Len(p)
<1>1. /\ n \in Nat /\ Len(q) = n + 1 /\ q[n + 1] = f
      /\ \A j \in 1 .. n : q[j] = p[j]
  BY AppendedAt
<1>2. PICK m \in i + 1 .. n + 1 :
        /\ \A j \in i + 1 .. m - 1 : Plain(p[j])
        /\ IF m = n + 1 THEN x \in now ELSE ~Plain(p[m]) /\ (Ending(p[m], FALSE) => x \in C)
  BY DEF Sound
<1> HIDE DEF q, n
<1>3. \A j \in i + 1 .. m - 1 : j \in 1 .. n /\ Plain(q[j])
  BY <1>1, <1>2
<1>4. CASE m # n + 1
  <2>1. m \in 1 .. n /\ m \in i + 1 .. (n + 1) + 1 /\ m # (n + 1) + 1
    BY <1>1, <1>2, <1>4
  <2>2. ~Plain(q[m]) /\ (Ending(q[m], FALSE) => x \in C2)
    BY <1>1, <1>2, <1>4, <2>1
  <2> QED BY <1>1, <1>3, <2>1, <2>2 DEF Sound, q
<1>5. CASE m = n + 1 /\ ~Plain(f)
  <2>1. m \in i + 1 .. (n + 1) + 1 /\ m # (n + 1) + 1
    BY <1>1, <1>2, <1>5
  <2>2. ~Plain(q[m]) /\ (Ending(q[m], FALSE) => x \in C2)
    BY <1>1, <1>2, <1>5 DEF Follow
  <2> QED BY <1>1, <1>3, <2>1, <2>2 DEF Sound, q
<1>6. CASE m = n + 1 /\ Plain(f)
  <2>1. x \in now2
    BY <1>2, <1>6 DEF Follow
  <2>2. m + 1 = (n + 1) + 1 /\ m + 1 \in i + 1 .. (n + 1) + 1
        /\ \A j \in i + 1 .. (m + 1) - 1 : j = n + 1 \/ j \in i + 1 .. m - 1
    BY <1>1, <1>2, <1>6
  <2>3. \A j \in i + 1 .. (m + 1) - 1 : Plain(q[j])
    BY <1>1, <1>3, <1>6, <2>2
  <2> QED BY <1>1, <2>1, <2>2, <2>3 DEF Sound, q
<1> QED BY <1>4, <1>5, <1>6

(* X: the frames that may be received.                                     *)
LEMMA TruthfulLonger ==
  ASSUME NEW d, NEW e, Alike(d, e), NEW p, IsASequence(p), NEW f,
         NEW X, Receiving(d) => d.msg \in X,
         \A i \in 1 .. Len(p) : Other(p, i) /\ Due(d, 0, i) => p[i].frame \in X,
         NEW C, NEW C2, C \subseteq C2, NEW now, NEW now2, NEW torn, NEW torn2,
         \A x \in X : Follow(f, x, C2, now, now2) /\ x \notin torn2,
         NEW botched, NEW botched2, Truthful(d, p, 0, C, now, torn, botched),
         f.is = "header" /\ ~f.frame.own /\ Due(d, 0, Len(p) + 1)
           => f.frame \in now2 /\ f.frame \notin torn2,
         Unseen(e, Append(p, f), 0, botched2)
  PROVE  Truthful(e, Append(p, f), 0, C2, now2, torn2, botched2)
<1> DEFINE q == Append(p, f)
           n == Len(p)
<1>1. /\ n \in Nat /\ Len(q) = n + 1 /\ q[n + 1] = f
      /\ \A j \in 1 .. n : q[j] = p[j]
  BY AppendedAt
<1>2. ASSUME NEW x \in X, NEW i \in Nat, i <= n, Sound(p, i, x, C, now)
      PROVE  Sound(q, i, x, C2, now2) /\ x \notin torn2
  BY <1>2, SoundLonger
<1>3. Unseen(e, q, 0, botched2)
  OBVIOUS
<1> HIDE DEF q, n
<1>4. ASSUME Receiving(e) PROVE Sound(q, 0, e.msg, C2, now2) /\ e.msg \notin torn2
  <2>1. Receiving(d) /\ e.msg = d.msg
    BY <1>4 DEF Alike, Receiving
  <2>2. d.msg \in X /\ Sound(p, 0, d.msg, C, now) /\ 0 <= n
    BY <1>1, <2>1 DEF Truthful, Honest
  <2> QED BY <1>2, <2>1, <2>2
<1>5. ASSUME NEW i \in 0 + 1 .. n + 1, Other(q, i), Due(e, 0, i)
      PROVE  Sound(q, i, q[i].frame, C2, now2) /\ q[i].frame \notin torn2
  <2>1. Due(d, 0, i)
    BY <1>5 DEF Due, Alike
  <2>2. CASE i # n + 1
    <3>1. i \in 0 + 1 .. n /\ i \in 1 .. n /\ i \in Nat /\ i <= n
      BY <1>1, <2>2
    <3>2. Other(p, i) /\ q[i].frame = p[i].frame
      BY <1>1, <1>5, <3>1 DEF Other
    <3>3. p[i].frame \in X
      BY <2>1, <3>1, <3>2 DEF n
    <3>4. Sound(p, i, p[i].frame, C, now)
      BY <2>1, <3>1, <3>2 DEF Truthful, Honest, n
    <3> QED BY <1>2, <3>1, <3>2, <3>3, <3>4
  <2>3. CASE i = n + 1
    <3>1. f.is = "header" /\ ~f.frame.own /\ q[i].frame = f.frame
      BY <1>1, <1>5, <2>3 DEF Other
    <3>2. f.frame \in now2 /\ f.frame \notin torn2
      BY <2>1, <2>3, <3>1 DEF n
    <3>3. (n + 1) + 1 \in i + 1 .. (n + 1) + 1 /\ \A j \in i + 1 .. ((n + 1) + 1) - 1 : FALSE
      BY <1>1, <2>3
    <3>4. Sound(q, i, f.frame, C2, now2)
      BY <1>1, <3>2, <3>3 DEF Sound
    <3> QED BY <3>1, <3>2, <3>4
  <2> QED BY <2>2, <2>3
<1>6. Honest(e, q, 0, C2, now2, torn2)
  BY <1>1, <1>4, <1>5 DEF Honest
<1>7. EofSeen(e)
  BY DEF Truthful, EofSeen, Alike
<1> QED BY <1>3, <1>6, <1>7 DEF Truthful, q

(* The task of the match machine where nothing is told to it.              *)
LEMMA ReplyAlike ==
  ASSUME NEW d, NEW e, Alike(d, e), e.key = d.key, e.sm = d.sm \/ d.sm = "send",
         \A l \in {"MATCHED", "ACKDONE"} : l \in e.irq => l \in d.irq,
         NEW C, NEW C2, C \subseteq C2, NEW B, NEW B2, Receiving(d) /\ d.msg \in B => d.msg \in B2,
         Reply(d, C, B)
  PROVE  Reply(e, C2, B2)
<1> SUFFICES ASSUME Receiving(e) PROVE Acking(e, B2) /\ Matching(e, C2, B2)
  BY DEF Reply
<1>1. /\ Receiving(d) /\ Acking(d, B) /\ Matching(d, C, B) /\ e.msg = d.msg /\ e.inte = d.inte
      /\ d.msg \in B => d.msg \in B2
  BY DEF Reply, Alike, Receiving
<1>2. Acking(e, B2)
  BY <1>1 DEF Acking
<1>3. Matching(e, C2, B2)
  BY <1>1 DEF Matching
<1> QED BY <1>2, <1>3

(* Steps: the interrupt.                                                   *)
LEMMA IrqKeepsTruth ==
  ASSUME Base, FlowOK, WakeOK, TrackOK, TruthOK, Irq PROVE TruthOK'
<1>1. /\ bus' = bus /\ overrun' = overrun /\ complete' = complete /\ foreign' = foreign /\ cd.on
  BY IrqIs DEF Irq, IrqRxData, IrqLine, Untouched, counters, history
<1> SUFFICES ASSUME ~overrun
             PROVE  /\ HeardIn(cd', complete) /\ Taken'
                    /\ Truthful(cd', Pipe(cd'), 0, complete, Now, Torn, Botched)
                    /\ Reply(cd', complete, Behind)
  <2>1. Now' = Now /\ Torn' = Torn /\ Botched' = Botched /\ Behind' = Behind
    BY <1>1 DEF Now, Torn, Botched, Behind
  <2> QED BY <1>1, <2>1 DEF TruthOK
<1>2. /\ HeardIn(cd, complete) /\ Taken
      /\ Truthful(cd, Pipe(cd), 0, complete, Now, Torn, Botched) /\ Reply(cd, complete, Behind)
  BY <1>1 DEF TruthOK
<1>3. Held(cd, bus.at)
  BY DEF TrackOK
<1>4. ~cd.stall /\ QuietLast(cd) /\ Cleared(cd, bus.at) /\ Follows(cd, Pipe(cd), 0, bus.at)
  BY <1>1 DEF WakeOK, Attended, Tracked
<1>5. PICK C, now, torn, botched, B, at :
        /\ C = complete /\ now = Now /\ torn = Torn /\ botched = Botched /\ B = Behind
        /\ at = bus.at
  OBVIOUS
<1>6. (at = "free" => now = {}) /\ (botched => at = "header")
  BY <1>5, NoneNow DEF Botched
<1>7. HeardIn(cd, C) /\ Truthful(cd, Pipe(cd), 0, C, now, torn, botched) /\ Reply(cd, C, B)
  BY <1>2, <1>5
<1>8. ASSUME cd'.sync = cd.sync PROVE Taken'
  BY <1>1, <1>2, <1>8 DEF Taken
<1>9. CASE IrqRxData
  <2>1. /\ Truthful(cd', Pipe(cd'), 0, C, now, torn, botched) /\ HeardIn(cd', C)
        /\ Reply(cd', C, B) /\ (Steady(cd, cd') \/ Reset(cd'))
    BY <1>4, <1>5, <1>6, <1>7, <1>9, LoopTruthful
  <2>2. Taken'
    BY <1>8, <2>1 DEF Steady, Reset, Taken
  <2> QED BY <1>5, <2>1, <2>2
<1>10. ASSUME NEW l \in Lines, IrqLine(l)
       PROVE  /\ HeardIn(cd', C) /\ Taken'
              /\ Truthful(cd', Pipe(cd'), 0, C, now, torn, botched) /\ Reply(cd', C, B)
  <2>1. /\ cd.rx = <<>> /\ l \in cd.irq /\ l \in cd.inte /\ Handled(l, cd, cd')
        /\ DriverInv(cd, sent, withdrawn) /\ Driver(cd) /\ IsASequence(cd.isr)
    BY <1>10 DEF IrqLine, Base, Machine, DriverInv, QueueInv
  <2>2. Line1(cd, cd') /\ Acts(l, cd, cd')
    BY <2>1, HandledTells, HandledActs
  <2>3. cd'.rx = cd.rx /\ cd'.isr = cd.isr /\ cd'.sync = cd.sync
    BY <2>2 DEF Line1, Streams
  <2>4. Pipe(cd) = cd.isr
    <3> DEFINE b == cd.isr
    <3>1. IsASequence(b)
      BY <2>1
    <3> HIDE DEF b
    <3>2. <<>> \o b = b
      BY <3>1, PipeOf
    <3> QED BY <2>1, <3>2 DEF Pipe, b
  <2>5. Pipe(cd') = cd.isr
    BY <2>3, <2>4 DEF Pipe
  <2>6. /\ HeldBack(cd, at) /\ Signals(cd) /\ (cd.sync \in Still => at = "free") /\ Held(cd, at)
        /\ Cleared(cd, at) /\ Follows(cd, cd.isr, 0, at) /\ IsASequence(cd.heard)
    BY <1>3, <1>4, <1>5, <2>4, FreeAt, HeardSequence DEF FlowOK
  <2>7. Truthful(cd, cd.isr, 0, C, now, torn, botched)
    BY <1>7, <2>4
  <2>8. Truthful(cd', cd.isr, 0, C, now, torn, botched) /\ HeardIn(cd', C) /\ Reply(cd', C, B)
    BY <1>4, <1>6, <1>7, <2>1, <2>2, <2>6, <2>7, LineTruthful
  <2> QED BY <1>8, <2>3, <2>5, <2>8
<1> QED BY <1>5, <1>9, <1>10, IrqIs

(* A field passes.                                                         *)
LEMMA FieldReply ==
  ASSUME NEW c, NEW f, NEW total, Carries(c, f, total), Driver(cd), cd.sync # "lost",
         Receiving(cd) => cd.msg \in Foreign /\ cd.msg \notin Torn,
         Reply(cd, complete, Behind), BusOK
  PROVE  Reply(c, complete', Behind')
<1>1. /\ Only(cd, c, {"sm", "irq"}) /\ bus # Free /\ Comes(bus.at, f) /\ bus'.at = Leads(f)
      /\ Raises(c, f) /\ Turns(c, f)
      /\ IF bus'.at = "free" THEN bus' = Free
         ELSE /\ Name(bus') = Name(bus) /\ bus'.own = bus.own
              /\ bus'.clean = IF BadCrc(f) THEN FALSE ELSE bus.clean
      /\ complete' = IF f.is = "part" /\ f.bits = 2 /\ bus.clean /\ cd.sync # "lost" /\ ~bus.own
                     THEN complete \cup {Name(bus)} ELSE complete
  BY DEF Carries
<1>2. c.report = cd.report /\ c.msg = cd.msg /\ c.inte = cd.inte /\ c.key = cd.key
  BY <1>1 DEF Only, Fields
<1> SUFFICES ASSUME Receiving(c) PROVE Acking(c, Behind') /\ Matching(c, complete', Behind')
  BY DEF Reply
<1> DEFINE x == cd.msg
<1>3. /\ x \in Foreign /\ x \notin Torn /\ Acking(cd, Behind) /\ Matching(cd, complete, Behind)
  BY <1>2 DEF Reply, Receiving
<1>4. Name(bus) = x => ~bus.own
  BY <1>3 DEF Foreign, Name
<1>5. \A end : cd.key = Key(end, x) /\ cd.key = Key(EndIn(f), Name(bus)) => end = EndIn(f) /\ Name(bus) = x
  BY DEF Key
<1>6. /\ EndIn(f) = "crc" => f.is = "crc" /\ f.good
      /\ EndIn(f) = "rxeof" => f.is = "part" /\ f.bits = 2
  BY DEF EndIn
<1>7. ASSUME x \in Behind PROVE x \in Behind'
  <2> SUFFICES ASSUME bus' # Free, Name(bus') = x PROVE bus'.clean /\ bus'.at \notin {"header", "check", "crc"}
    BY <1>3 DEF Behind
  <2>1. bus'.at # "free" /\ Name(bus) = x
    BY <1>1
  <2>2. bus.clean /\ bus.at \notin {"header", "check", "crc"}
    BY <1>1, <1>7, <2>1 DEF Behind
  <2>3. f.is \notin {"header", "crc"} /\ ~(f.is = "part" /\ f.bits = 9)
    <3>1. f.is = "part" /\ bus.at \notin {"check"} => f.bits \in {1, 2}
      BY <1>1 DEF Comes
    <3>2. f.bits \in {1, 2} => f.bits # 9
      OBVIOUS
    <3> QED BY <1>1, <2>2, <3>1, <3>2 DEF Comes
  <2>4. bus'.clean
    BY <1>1, <2>1, <2>2, <2>3 DEF BadCrc
  <2>5. Leads(f) = "header" => f.is = "sof"
    BY LeadsIn
  <2>6. /\ Leads(f) = "check" => f.is = "header"
        /\ Leads(f) = "crc" => f.is = "part" /\ f.bits = 9
    BY DEF Leads
  <2>7. bus'.at # "header"
    <3> SUFFICES ASSUME f.is = "sof" PROVE FALSE
      BY <1>1, <2>5
    <3>1. bus.at = "free"
      BY <1>1 DEF Comes
    <3>2. bus.at \in At
      BY <1>1 DEF BusOK
    <3> QED BY <3>1, <3>2 DEF At
  <2> QED BY <1>1, <2>3, <2>4, <2>6, <2>7
<1>8. CASE "ACKDONE" \in cd.inte
  <2>1. /\ cd.inte = {"MAYTX", "ACKDONE"} /\ cd.key = Key("crc", x) /\ "MATCHED" \notin cd.irq
        /\ cd.sm \in {"inject", "acking", "acked", "conflict"}
        /\ cd.sm # "inject" => x \in Behind
        /\ "ACKDONE" \in cd.irq => cd.sm # "inject"
    BY <1>3, <1>8 DEF Acking
  <2>2. "MATCHED" \notin c.irq
    <3> SUFFICES ASSUME "MATCHED" \in c.irq PROVE FALSE
      OBVIOUS
    <3>1. cd.key = Key(EndIn(f), Name(bus)) /\ cd.sm # "inject"
      BY <1>1, <2>1 DEF Raises
    <3>2. f.is = "crc" /\ Name(bus) = x
      BY <1>5, <1>6, <2>1, <3>1
    <3>3. bus.at = "crc"
      BY <1>1, <3>2 DEF Comes
    <3> QED BY <1>1, <2>1, <3>1, <3>2, <3>3 DEF Behind
  <2>3. /\ c.sm \in {"inject", "acking", "acked", "conflict"}
        /\ c.sm # "inject" => x \in Behind'
        /\ cd.sm # "inject" => c.sm # "inject"
    <3>1. CASE c.sm = cd.sm
      BY <1>7, <2>1, <3>1
    <3>2. CASE c.sm = "sent" /\ cd.sm = "sending"
      BY <2>1, <3>2
    <3>3. CASE c.sm = "acking" /\ cd.sm = "inject" /\ cd.key = Key(EndIn(f), Name(bus))
      <4>1. f.is = "crc" /\ f.good /\ Name(bus) = x
        BY <1>5, <1>6, <2>1, <3>3
      <4>2. bus.at = "crc" /\ Leads(f) = "ack"
        BY <1>1, <4>1 DEF Comes, Leads
      <4>3. bus.clean
        BY <1>3, <4>1, <4>2 DEF Torn
      <4>4. bus'.clean /\ bus'.at = "ack"
        BY <1>1, <4>1, <4>2, <4>3 DEF BadCrc
      <4>5. x \in Behind'
        BY <1>3, <4>4 DEF Behind
      <4> QED BY <3>3, <4>5
    <3>4. CASE c.sm \in {"acked", "conflict"} /\ cd.sm \in {"sending", "acking"}
      BY <1>7, <2>1, <3>4
    <3> QED BY <1>1, <3>1, <3>2, <3>3, <3>4 DEF Turns
  <2>4. "ACKDONE" \in c.irq => c.sm # "inject"
    <3>1. "ACKDONE" \in c.irq => "ACKDONE" \in cd.irq \/ cd.sm = "acking"
      BY <1>1 DEF Raises
    <3> QED BY <2>1, <2>3, <3>1
  <2>5. Acking(c, Behind')
    BY <1>2, <2>1, <2>2, <2>3, <2>4 DEF Acking
  <2>6. Matching(c, complete', Behind')
    BY <1>2, <2>1 DEF Matching
  <2> QED BY <2>5, <2>6
<1>9. CASE "ACKDONE" \notin cd.inte /\ "MATCHED" \in cd.inte
  <2>1. /\ cd.key = Key("rxeof", x) /\ x \in Behind
        /\ "MATCHED" \in cd.irq => x \in complete
    BY <1>3, <1>9 DEF Matching
  <2>2. complete \subseteq complete'
    BY <1>1
  <2>3. "MATCHED" \in c.irq => x \in complete'
    <3> SUFFICES ASSUME "MATCHED" \in c.irq, "MATCHED" \notin cd.irq PROVE x \in complete'
      BY <2>1, <2>2
    <3>1. cd.key = Key(EndIn(f), Name(bus))
      BY <1>1 DEF Raises
    <3>2. f.is = "part" /\ f.bits = 2 /\ Name(bus) = x
      BY <1>5, <1>6, <2>1, <3>1
    <3>3. bus.clean /\ ~bus.own
      BY <1>1, <1>4, <2>1, <3>2 DEF Behind
    <3> QED BY <1>1, <3>2, <3>3
  <2>4. Matching(c, complete', Behind')
    BY <1>2, <1>7, <1>9, <2>1, <2>3 DEF Matching
  <2>5. Acking(c, Behind')
    BY <1>2, <1>9 DEF Acking
  <2> QED BY <2>4, <2>5
<1>10. CASE "ACKDONE" \notin cd.inte /\ "MATCHED" \notin cd.inte
  BY <1>2, <1>10 DEF Acking, Matching
<1> QED BY <1>8, <1>9, <1>10

(* The frames of other boards that may be received.                        *)
Heardable == { x \in Foreign : x.n <= Passed }

LEMMA InHeardable ==
  ASSUME FlowOK
  PROVE  /\ Receiving(cd) => cd.msg \in Heardable
         /\ \A i \in 1 .. Len(Pipe(cd)) : Other(Pipe(cd), i) => Pipe(cd)[i].frame \in Heardable
<1> DEFINE p == Pipe(cd)
<1>1. Coming(cd, p, 0, Passed) /\ Arriving(cd, p, 0, Passed)
  BY DEF FlowOK, FlowInv
<1> HIDE DEF p
<1>2. \A i : i \in 1 .. Len(p) => i \in 0 + 1 .. Len(p)
  OBVIOUS
<1> QED BY <1>1, <1>2 DEF Coming, Arriving, Heardable, p

(* What a field is to them.                                                *)
LEMMA FieldFollows ==
  ASSUME NEW c, NEW f, NEW total, Carries(c, f, total), BusOK, foreign \in Nat, OnTheBus, Taken,
         cd.sync # "lost", NEW x \in Heardable, x \notin Torn
  PROVE  Follow(f, x, complete', Now, Now') /\ x \notin Torn'
<1> DEFINE at == bus.at
           N == Name(bus)
<1>1. /\ bus # Free /\ Comes(at, f) /\ bus'.at = Leads(f)
      /\ IF bus'.at = "free" THEN bus' = Free
         ELSE /\ Name(bus') = N /\ bus'.own = bus.own
              /\ bus'.clean = IF BadCrc(f) THEN FALSE ELSE bus.clean
      /\ complete \subseteq complete'
  BY DEF Carries
<1>2. x \in Foreign /\ ~x.own /\ x.n <= Passed
  BY DEF Heardable, Foreign
<1>3. N.own = bus.own /\ N.n = bus.n
  BY DEF Name
<1> HIDE DEF N
<1>4. ASSUME x \in Now PROVE IF Plain(f) THEN x \in Now' ELSE Ending(f, FALSE) => x \in complete'
  <2>1. x = N /\ at \in OnItsWay /\ bus.clean /\ ~bus.own
    BY <1>2, <1>3, <1>4 DEF Now, N
  <2>2. CASE Plain(f)
    <3>1. ~BadCrc(f) /\ Leads(f) \in OnItsWay /\ Leads(f) # "free"
      BY <2>2 DEF Plain, BadCrc, Leads, OnItsWay
    <3>2. bus'.at \in OnItsWay /\ bus'.clean /\ Name(bus') = x
      BY <1>1, <2>1, <3>1
    <3>3. x \in Now'
      BY <3>2 DEF Now
    <3> QED BY <2>2, <3>3
  <2>3. ASSUME Ending(f, FALSE) PROVE x \in complete'
    <3>1. at \in {"bit7", "pause"}
      BY <1>1, <2>3 DEF Ending, Comes
    <3>2. x \in complete
      BY <2>1, <3>1 DEF Taken, N
    <3> QED BY <1>1, <3>2
  <2> QED BY <2>2, <2>3
<1>5. ASSUME x \in Torn' PROVE FALSE
  <2>1. bus'.at \in {"check", "crc"} /\ x = Name(bus') /\ ~bus'.clean
    BY <1>5 DEF Torn
  <2>2. x = N /\ f.is \in {"header", "part"} /\ (f.is = "part" => f.bits = 9)
    BY <1>1, <2>1 DEF Leads
  <2>3. CASE f.is = "header"
    <3>1. at = "header" /\ ~bus.own
      BY <1>1, <1>2, <1>3, <2>2, <2>3 DEF Comes
    <3>2. bus.n = foreign /\ Passed = foreign - 1
      BY <3>1 DEF OnTheBus, Passed
    <3> QED BY <1>2, <1>3, <2>2, <3>2
  <2>4. CASE f.is = "part"
    <3>1. at = "check"
      <4>1. f.bits # 2 /\ f.bits # 1
        BY <2>2, <2>4
      <4> QED BY <1>1, <2>4, <4>1 DEF Comes
    <3>2. ~bus.clean
      BY <1>1, <2>1, <2>4 DEF BadCrc
    <3> QED BY <2>2, <3>1, <3>2 DEF Torn, N
  <2> QED BY <2>2, <2>3, <2>4
<1> QED BY <1>4, <1>5 DEF Follow

LEMMA FieldKeepsTruth ==
  ASSUME Base, FlowOK, WakeOK, TruthOK, Field PROVE TruthOK'
<1>1. Driver(cd) /\ Machine(cd) /\ BusOK /\ foreign \in Nat /\ Signals(cd) /\ OnTheBus
      /\ DriverInv(cd, sent, withdrawn)
  BY DEF Base, DriverInv, QueueInv, FlowOK, Counted
<1>2. overrun' = overrun
  BY FieldLosesNothing
<1> SUFFICES ASSUME ~overrun
             PROVE  /\ HeardIn(cd', complete') /\ Taken'
                    /\ cd'.on => /\ Truthful(cd', Pipe(cd'), 0, complete', Now', Torn', Botched')
                                 /\ Reply(cd', complete', Behind')
  BY <1>2 DEF TruthOK
<1>3. /\ HeardIn(cd, complete) /\ Taken
      /\ cd.on => /\ Truthful(cd, Pipe(cd), 0, complete, Now, Torn, Botched)
                  /\ Reply(cd, complete, Behind)
  BY DEF TruthOK
<1>4. /\ ~cd.stall /\ Drives(cd, bus.at, bus.own)
      /\ cd.on => Follows(cd, Pipe(cd), 0, bus.at)
  BY DEF WakeOK, Attended, Tracked
<1>5. PICK c, f, total : Carries(c, f, total)
  BY <1>1, <1>4, FieldCarries DEF Drives
<1>6. /\ Only(cd, c, {"sm", "irq"}) /\ cd' = Put(c, f, total) /\ Comes(bus.at, f)
      /\ bus'.at = Leads(f) /\ bus # Free
      /\ IF f.is = "header" THEN f.frame = Name(bus) ELSE TRUE
      /\ IF bus'.at = "free" THEN bus' = Free
         ELSE /\ Name(bus') = Name(bus) /\ bus'.own = bus.own
              /\ bus'.clean = IF BadCrc(f) THEN FALSE ELSE bus.clean
      /\ complete' = IF f.is = "part" /\ f.bits = 2 /\ bus.clean /\ cd.sync # "lost" /\ ~bus.own
                     THEN complete \cup {Name(bus)} ELSE complete
  BY <1>5 DEF Carries
<1>7. bus.at # "free" /\ f.is # "sof" /\ bus'.at # "header"
  <2>1. bus.at # "free"
    BY <1>1, <1>6 DEF BusOK, At
  <2>2. f.is # "sof"
    BY <1>6, <2>1, LeadsIn
  <2> QED BY <1>6, <2>1, <2>2, LeadsIn
<1> DEFINE e == Put(c, f, total)
           p == Pipe(cd)
           q == Append(p, f)
<1>8. /\ c.rx = cd.rx /\ c.isr = cd.isr /\ c.stall = cd.stall /\ c.held = cd.held /\ c.sync = cd.sync
      /\ c.head = cd.head /\ c.tail = cd.tail /\ c.on = cd.on /\ Driver(c) /\ Alike(cd, c)
  BY <1>6 DEF Only, Fields, Alike
<1>9. Machine(c) /\ Pipe(c) = p /\ IsASequence(p)
  BY <1>1, <1>8, PipeSequence DEF Machine, Pipe
<1>10. /\ Only(c, e, {"isr", "held", "rx"})
       /\ IF cd.sync = "lost" THEN e = c ELSE Pipe(e) = q
  <2>1. Only(c, e, {"isr", "held", "rx"})
    BY <1>8, PutDoes
  <2>2. IF c.sync = "lost" THEN Put(c, f, total) = c ELSE Pipe(Put(c, f, total)) = Append(Pipe(c), f)
    BY <1>4, <1>8, <1>9, PutExact
  <2> QED BY <1>8, <1>9, <2>1, <2>2
<1>11. cd' = e
  BY <1>6
<1> HIDE DEF e, p, q
<1>12. e.on = cd.on /\ e.sync = cd.sync /\ Alike(cd, e)
       /\ Alike(c, e) /\ e.key = c.key /\ e.sm = c.sm /\ e.irq = c.irq
  BY <1>8, <1>10 DEF Only, Fields, Alike
<1>13. HeardIn(e, complete')
  BY <1>3, <1>6, <1>12 DEF HeardIn, Alike
<1>14. Taken'
  <2> SUFFICES ASSUME bus'.at \in {"bit7", "pause"}, bus'.clean, ~bus'.own, cd.sync # "lost"
               PROVE  Name(bus') \in complete'
    BY <1>11, <1>12 DEF Taken
  <2>1. /\ Name(bus') = Name(bus) /\ ~bus.own /\ bus.clean
    BY <1>6
  <2>2. f.is = "part" /\ (bus'.at = "bit7" => f.bits = 2) /\ (bus'.at = "pause" => bus.at = "bit7")
    BY <1>6, <1>7 DEF Comes, Leads
  <2> QED BY <1>3, <1>6, <2>1, <2>2 DEF Taken
<1>15. ASSUME cd.on
       PROVE  Truthful(e, Pipe(e), 0, complete', Now', Torn', Botched') /\ Reply(e, complete', Behind')
  <2>1. /\ Truthful(cd, p, 0, complete, Now, Torn, Botched) /\ Reply(cd, complete, Behind)
        /\ Follows(cd, p, 0, bus.at)
    BY <1>3, <1>4, <1>15 DEF p
  <2>2. ~Botched'
    BY <1>7 DEF Botched
  <2>3. PICK C, C2, now, now2, torn, torn2, botched, botched2, X, B2 :
          /\ C = complete /\ C2 = complete' /\ now = Now /\ now2 = Now' /\ torn = Torn
          /\ torn2 = Torn' /\ botched = Botched /\ botched2 = Botched'
          /\ X = Heardable \ Torn /\ B2 = Behind'
    OBVIOUS
  <2>4. CASE cd.sync = "lost"
    <3>1. p = <<>> /\ e = c /\ Pipe(e) = p
      BY <1>1, <1>9, <1>10, <2>4, EmptyPipe DEF p
    <3>2. cd.parse = "DISCARD" /\ cd.report = "IDLE"
      BY <1>1, <2>1, <2>4 DEF Follows, DriverInv, Duties
    <3>3. ~Receiving(e) /\ e.report = "IDLE"
      BY <1>12, <3>2 DEF Alike, Receiving
    <3>4. \A i \in 0 + 1 .. Len(<<>>) : FALSE
      OBVIOUS
    <3>5. Honest(e, Pipe(e), 0, C2, now2, torn2)
      BY <3>1, <3>3, <3>4 DEF Honest
    <3>6. Unseen(e, Pipe(e), 0, botched2) /\ EofSeen(e)
      BY <2>2, <2>3, <3>3 DEF Unseen, EofSeen
    <3>7. Reply(e, C2, B2)
      BY <3>3 DEF Reply
    <3> QED BY <2>3, <3>5, <3>6, <3>7 DEF Truthful
  <2>5. CASE cd.sync # "lost"
    <3>1. Pipe(e) = q
      BY <1>10, <2>5
    <3>2. Receiving(cd) => cd.msg \in X /\ cd.msg \in Foreign
      BY <2>1, <2>3, InHeardable DEF Heardable, Truthful, Honest
    <3>3. \A i \in 1 .. Len(p) : Other(p, i) /\ Due(cd, 0, i) => p[i].frame \in X
      <4>1. \A i \in 1 .. Len(p) : Other(p, i) => p[i].frame \in Heardable
        BY InHeardable DEF p
      <4>2. \A i \in 0 + 1 .. Len(p) : Other(p, i) /\ Due(cd, 0, i) => p[i].frame \notin Torn
        BY <2>1 DEF Truthful, Honest
      <4>3. \A i \in 1 .. Len(p) : i \in 0 + 1 .. Len(p)
        OBVIOUS
      <4> QED BY <2>3, <4>1, <4>2, <4>3
    <3>4. ASSUME NEW x \in X PROVE Follow(f, x, C2, now, now2) /\ x \notin torn2
      BY <1>1, <1>3, <1>5, <2>3, <2>5, <3>4, FieldFollows
    <3>5. ASSUME f.is = "header", Due(cd, 0, Len(p) + 1)
          PROVE  f.frame \in now2 /\ f.frame \notin torn2
      <4>1. bus.at = "header" /\ Leads(f) = "check" /\ ~BadCrc(f)
        BY <1>6, <3>5 DEF Comes, Leads, BadCrc
      <4>2. bus.clean
        BY <2>1, <3>5, <4>1 DEF Truthful, Unseen, Botched
      <4>3. bus'.at = "check" /\ bus'.clean /\ Name(bus') = f.frame
        BY <1>6, <3>5, <4>1, <4>2
      <4> QED BY <2>3, <4>3 DEF Now, Torn, OnItsWay
    <3>6. Unseen(e, q, 0, botched2)
      BY <2>2, <2>3 DEF Unseen
    <3>7. C \subseteq C2
      BY <1>6, <2>3
    <3>8. Truthful(cd, p, 0, C, now, torn, botched)
      BY <2>1, <2>3
    <3>9. Truthful(e, q, 0, C2, now2, torn2, botched2)
      BY <1>9, <1>12, <3>2, <3>3, <3>4, <3>5, <3>6, <3>7, <3>8, TruthfulLonger DEF q
    <3>10. Receiving(cd) => cd.msg \in Foreign /\ cd.msg \notin Torn
      BY <2>1, <3>2 DEF Truthful, Honest
    <3>11. Reply(c, C2, B2)
      BY <1>1, <1>5, <2>1, <2>3, <2>5, <3>10, FieldReply
    <3>12. Reply(e, C2, B2)
      <4>1. \A l \in {"MATCHED", "ACKDONE"} : l \in e.irq => l \in c.irq
        BY <1>12
      <4> QED BY <1>12, <3>11, <4>1, ReplyAlike
    <3> QED BY <2>3, <3>1, <3>9, <3>12
  <2> QED BY <2>4, <2>5
<1> QED BY <1>11, <1>12, <1>13, <1>14, <1>15

(* A frame begins.                                                         *)
LEMMA BeginsWith ==
  ASSUME Driver(cd), OwnFrame \/ \E same \in BOOLEAN : OtherFrame(same)
  PROVE  \E c : /\ Only(cd, c, {"sm"}) /\ cd' = Begun(c)
                /\ c.sm = cd.sm \/ cd.sm = "send"
<1>1. CASE OwnFrame
  <2>1. cd.sm = "send"
    BY <1>1 DEF OwnFrame
  <2> QED BY <1>1, <2>1, OwnFrameDoes
<1>2. ASSUME NEW same \in BOOLEAN, OtherFrame(same)
      PROVE  \E c : /\ Only(cd, c, {"sm"}) /\ cd' = Begun(c)
                    /\ c.sm = cd.sm \/ cd.sm = "send"
  <2> DEFINE k == [cd EXCEPT !.sm = "conflict"]
  <2>1. Only(cd, k, {"sm"}) /\ Only(cd, cd, {"sm"})
    BY DEF Only, Driver, Fields
  <2>2. cd' = Begun(IF cd.sm = "send" /\ "MAYTX" \in cd.irq THEN k ELSE cd)
    BY <1>2 DEF OtherFrame
  <2> HIDE DEF k
  <2>3. CASE cd.sm = "send" /\ "MAYTX" \in cd.irq
    BY <2>1, <2>2, <2>3
  <2>4. CASE ~(cd.sm = "send" /\ "MAYTX" \in cd.irq)
    BY <2>1, <2>2, <2>4
  <2> QED BY <2>3, <2>4
<1> QED BY <1>1, <1>2

LEMMA FreeTruth ==
  ASSUME bus.at \in {"free", "header"} PROVE Now = {} /\ Torn = {}
BY NoneNow DEF Torn

LEMMA FramesKeepTruth ==
  ASSUME Base, FlowOK, WakeOK, TruthOK, OwnFrame \/ \E same \in BOOLEAN : OtherFrame(same)
  PROVE  TruthOK'
<1>1. /\ bus = Free /\ bus.at = "free" /\ (overrun => overrun') /\ complete' = complete
      /\ bus'.at = "header" /\ bus' # Free
  BY FreeAt, BeginOK DEF OwnFrame, OtherFrame, counters, history
<1>2. bus'.own \/ bus'.n = foreign + 1
  BY BeginOK DEF OwnFrame, OtherFrame
<1>3. bus'.clean = (cd.sync # "lost")
  BY DEF OwnFrame, OtherFrame, Begin
<1>4. Driver(cd) /\ Machine(cd) /\ foreign \in Nat /\ Signals(cd) /\ Passed = foreign
  BY <1>1 DEF Base, DriverInv, QueueInv, FlowOK, Counted, Passed
<1> SUFFICES ASSUME ~overrun
             PROVE  /\ HeardIn(cd', complete) /\ Taken'
                    /\ cd'.on => /\ Truthful(cd', Pipe(cd'), 0, complete, Now', Torn', Botched')
                                 /\ Reply(cd', complete, Behind')
  BY <1>1 DEF TruthOK
<1>5. /\ HeardIn(cd, complete)
      /\ cd.on => /\ Truthful(cd, Pipe(cd), 0, complete, Now, Torn, Botched)
                  /\ Reply(cd, complete, Behind)
  BY DEF TruthOK
<1>6. ~cd.stall /\ (cd.on => Follows(cd, Pipe(cd), 0, "free"))
  BY <1>1 DEF WakeOK, Attended, Tracked
<1>7. Now = {} /\ Now' = {} /\ Torn = {} /\ Torn' = {}
  BY <1>1, FreeTruth DEF Now, Torn, OnItsWay
<1>8. Taken'
  BY <1>1 DEF Taken
<1>9. PICK c : Only(cd, c, {"sm"}) /\ cd' = Begun(c) /\ (c.sm = cd.sm \/ cd.sm = "send")
  BY <1>4, BeginsWith
<1> DEFINE f == Sof
<1>10. Driver(c)
  BY <1>9 DEF Only
<1>11. PICK b : /\ Only(c, b, {"sync", "irq"}) /\ b.sync = "frame" /\ b.irq = c.irq \ {"MAYTX"}
                /\ cd' = Put(b, f, b.held + 1)
  BY <1>9, <1>10, BegunDoes
<1> DEFINE e == Put(b, f, b.held + 1)
           p == Pipe(cd)
           q == Append(p, f)
<1>12. /\ Only(cd, b, {"sm", "sync", "irq"}) /\ b.sm = c.sm /\ b.held = cd.held /\ b.rx = cd.rx
       /\ b.isr = cd.isr /\ b.stall = cd.stall /\ Driver(b) /\ b.head = cd.head /\ b.tail = cd.tail
       /\ b.irq = cd.irq \ {"MAYTX"}
  BY <1>9, <1>11 DEF Only, Fields
<1>13. Machine(b) /\ Pipe(b) = p /\ IsASequence(p)
  BY <1>4, <1>12, PipeSequence DEF Machine, Pipe
<1>14. Only(b, e, {"isr", "held", "rx"}) /\ Pipe(e) = q
  <2>1. Only(b, e, {"isr", "held", "rx"})
    BY <1>12, PutDoes
  <2>2. Pipe(e) = Append(Pipe(b), f)
    BY <1>6, <1>11, <1>12, <1>13, PutExact
  <2> QED BY <1>13, <2>1, <2>2
<1>15. cd' = e
  BY <1>11
<1>16. f.is = "sof"
  BY FieldKinds
<1> HIDE DEF e, f, p, q
<1>17. /\ e.on = cd.on /\ Alike(cd, e) /\ e.key = cd.key /\ (e.sm = cd.sm \/ cd.sm = "send")
       /\ \A l \in {"MATCHED", "ACKDONE"} : l \in e.irq => l \in cd.irq
  BY <1>9, <1>12, <1>14 DEF Only, Fields, Alike
<1>18. HeardIn(e, complete)
  BY <1>5, <1>17 DEF HeardIn, Alike
<1>19. ASSUME cd.on
       PROVE  Truthful(e, q, 0, complete, Now', Torn', Botched') /\ Reply(e, complete, Behind')
  <2>1. /\ Truthful(cd, p, 0, complete, {}, {}, Botched) /\ Reply(cd, complete, Behind)
        /\ Follows(cd, p, 0, "free")
    BY <1>5, <1>6, <1>7, <1>19 DEF p
  <2>2. PICK C, botched, botched2, X, B, B2 :
          /\ C = complete /\ botched = Botched /\ botched2 = Botched' /\ X = Heardable
          /\ B = Behind /\ B2 = Behind'
    OBVIOUS
  <2>3. /\ Receiving(cd) => cd.msg \in X
        /\ \A i \in 1 .. Len(p) : Other(p, i) /\ Due(cd, 0, i) => p[i].frame \in X
    BY <2>2, InHeardable DEF p
  <2>4. \A x \in X : Follow(f, x, C, {}, {}) /\ x \notin {}
    BY DEF Follow
  <2>5. Unseen(e, q, 0, botched2)
    <3> SUFFICES ASSUME botched2, Due(e, 0, Len(q) + 1) PROVE FALSE
      BY DEF Unseen
    <3>1. cd.sync = "lost"
      BY <1>3, <2>2 DEF Botched
    <3>2. p = <<>> /\ cd.parse = "DISCARD"
      BY <1>4, <2>1, <3>1, EmptyPipe DEF Follows, p
    <3>3. Len(q) + 1 = 0 + 2
      <4>1. Len(Append(<<>>, f)) = 1
        OBVIOUS
      <4> QED BY <3>2, <4>1 DEF q
    <3> QED BY <1>17, <3>2, <3>3 DEF Due, Alike
  <2>6. Truthful(cd, p, 0, C, {}, {}, botched) /\ C \subseteq C
    BY <2>1, <2>2
  <2>7. f.is # "header"
    BY <1>16
  <2>8. Truthful(e, q, 0, C, {}, {}, botched2)
    BY <1>13, <1>17, <2>3, <2>4, <2>5, <2>6, <2>7, TruthfulLonger DEF q
  <2>9. ASSUME Receiving(cd) PROVE cd.msg \in B2
    <3>1. cd.msg \in Foreign /\ ~cd.msg.own /\ cd.msg.n <= foreign
      BY <1>4, <2>2, <2>3, <2>9 DEF Heardable, Foreign
    <3>2. Name(bus)'.own = bus'.own /\ Name(bus)'.n = bus'.n
      BY DEF Name
    <3>3. cd.msg.n # foreign + 1
      <4> DEFINE y == cd.msg.n
      <4>1. y \in Nat
        BY <3>1 DEF Foreign, Frame
      <4>2. y <= foreign
        BY <3>1
      <4> HIDE DEF y
      <4>3. y # foreign + 1
        BY <1>4, <4>1, <4>2
      <4> QED BY <4>3 DEF y
    <3>4. Name(bus)' # cd.msg
      BY <1>2, <3>1, <3>2, <3>3
    <3> QED BY <2>2, <3>1, <3>4 DEF Behind
  <2>10. Reply(e, C, B2)
    BY <1>17, <2>1, <2>2, <2>9, ReplyAlike
  <2> QED BY <1>7, <2>2, <2>8, <2>10
<1> QED BY <1>8, <1>14, <1>15, <1>17, <1>18, <1>19

LEMMA LineKeepsTruth ==
  ASSUME Base, FlowOK, WakeOK, TruthOK, LineStep PROVE TruthOK'
<1>1. CASE Overrun
  BY <1>1 DEF Overrun, TruthOK
<1>2. CASE Idle \/ CounterOverflow \/ QuietBits
  <2>1. Driver(cd) /\ Machine(cd) /\ Signals(cd)
    BY DEF Base, DriverInv, QueueInv, FlowOK
  <2>2. /\ bus = Free /\ bus.at = "free" /\ bus' = bus /\ overrun' = overrun
        /\ complete' = complete /\ foreign' = foreign
    BY <1>2, FreeAt DEF Idle, CounterOverflow, QuietBits, Untouched, counters, history
  <2>3. /\ Now = {} /\ Torn = {} /\ ~Botched /\ Now' = {} /\ Torn' = {} /\ ~Botched'
        /\ Behind' = Behind
    BY <2>2, FreeTruth DEF Now, Torn, Botched, Behind, OnItsWay
  <2> SUFFICES ASSUME ~overrun
               PROVE  /\ HeardIn(cd', complete) /\ Taken'
                      /\ cd'.on => /\ Truthful(cd', Pipe(cd'), 0, complete, {}, {}, FALSE)
                                   /\ Reply(cd', complete, Behind)
    <3>1. Unseen(cd', Pipe(cd'), 0, FALSE) /\ Unseen(cd', Pipe(cd'), 0, Botched')
      BY <2>3 DEF Unseen
    <3> QED BY <2>2, <2>3, <3>1 DEF TruthOK, Truthful
  <2>4. /\ HeardIn(cd, complete)
        /\ cd.on => /\ Truthful(cd, Pipe(cd), 0, complete, {}, {}, Botched)
                    /\ Reply(cd, complete, Behind)
    BY <2>3 DEF TruthOK
  <2>5. ~cd.stall /\ (cd.on => Follows(cd, Pipe(cd), 0, "free"))
    BY <2>2 DEF WakeOK, Attended, Tracked
  <2>6. Taken'
    BY <2>2 DEF Taken
  <2> DEFINE p == Pipe(cd)
  <2>7. PICK i, f, total :
          /\ Only(cd, i, {"sync", "irq"}) /\ i.sync \in Still
          /\ i.irq \in {cd.irq, cd.irq \cup {"MAYTX"}} /\ f.is \in {"passive", "quiet"}
          /\ (cd.sync # "lost" /\ cd' = i) \/ cd' = Put(i, f, total)
    BY <1>2, <2>1, LineCarries
  <2>9. /\ i.sm = cd.sm /\ i.held = cd.held /\ i.rx = cd.rx /\ i.isr = cd.isr /\ i.stall = cd.stall
        /\ i.head = cd.head /\ i.tail = cd.tail /\ i.on = cd.on /\ i.key = cd.key
        /\ Driver(i) /\ Alike(cd, i)
    BY <2>7 DEF Only, Fields, Alike
  <2>10. Machine(i) /\ Pipe(i) = p /\ IsASequence(p)
    BY <2>1, <2>9, PipeSequence DEF Machine, Pipe
  <2> HIDE DEF p
  <2>11. PICK C, botched, B : C = complete /\ botched = Botched /\ B = Behind
    OBVIOUS
  <2>12. ASSUME NEW e, cd' = e, Alike(cd, e), e.on = cd.on, e.key = cd.key, e.sm = cd.sm,
                e.irq \in {cd.irq, cd.irq \cup {"MAYTX"}},
                cd.on => Truthful(e, Pipe(e), 0, C, {}, {}, FALSE)
         PROVE  /\ HeardIn(cd', complete)
                /\ cd'.on => /\ Truthful(cd', Pipe(cd'), 0, complete, {}, {}, FALSE)
                             /\ Reply(cd', complete, Behind)
    <3>1. HeardIn(e, C)
      BY <2>4, <2>11, <2>12 DEF HeardIn, Alike
    <3>2. \A l \in {"MATCHED", "ACKDONE"} : l \in e.irq => l \in cd.irq
      BY <2>12
    <3>3. cd.on => Reply(cd, C, B)
      BY <2>4, <2>11
    <3>4. cd.on => Reply(e, C, B)
      BY <2>12, <3>2, <3>3, ReplyAlike
    <3> QED BY <2>11, <2>12, <3>1, <3>4
  <2>13. CASE cd.sync # "lost" /\ cd' = i
    <3>1. ASSUME cd.on PROVE Truthful(i, Pipe(i), 0, C, {}, {}, FALSE)
      <4>1. Truthful(cd, p, 0, C, {}, {}, botched)
        BY <2>4, <2>11, <3>1 DEF p
      <4> QED BY <2>9, <2>10, <4>1 DEF Truthful, Honest, Unseen, EofSeen, Due, Receiving, Alike
    <3> QED BY <2>6, <2>7, <2>9, <2>12, <2>13, <3>1
  <2>14. CASE cd' = Put(i, f, total)
    <3> DEFINE e == Put(i, f, total)
               q == Append(p, f)
    <3>1. Only(i, e, {"isr", "held", "rx"})
      BY <2>9, PutDoes
    <3>2. Pipe(e) = q
      BY <2>5, <2>7, <2>9, <2>10, PutExact DEF Still
    <3> HIDE DEF e, q
    <3>3. /\ Alike(cd, e) /\ e.on = cd.on /\ e.key = cd.key /\ e.sm = cd.sm
          /\ e.irq \in {cd.irq, cd.irq \cup {"MAYTX"}}
      BY <2>7, <2>9, <3>1 DEF Only, Fields, Alike
    <3>4. ASSUME cd.on PROVE Truthful(e, q, 0, C, {}, {}, FALSE)
      <4>1. Truthful(cd, p, 0, C, {}, {}, botched)
        BY <2>4, <2>11, <3>4 DEF p
      <4>2. PICK X : X = Heardable
        OBVIOUS
      <4>3. /\ Receiving(cd) => cd.msg \in X
            /\ \A j \in 1 .. Len(p) : Other(p, j) /\ Due(cd, 0, j) => p[j].frame \in X
        BY <4>2, InHeardable DEF p
      <4>4. \A x \in X : Follow(f, x, C, {}, {}) /\ x \notin {}
        BY DEF Follow
      <4>5. Unseen(e, q, 0, FALSE)
        BY DEF Unseen
      <4> QED BY <2>7, <2>10, <3>3, <4>1, <4>3, <4>4, <4>5, TruthfulLonger DEF q
    <3>5. cd' = e
      BY <2>14 DEF e
    <3> QED BY <2>6, <2>12, <3>2, <3>3, <3>4, <3>5
  <2> QED BY <2>7, <2>13, <2>14
<1> QED BY <1>1, <1>2 DEF LineStep

(* Steps: LibPQP's calls.                                                  *)
LEMMA CallsKeepTruth ==
  ASSUME Base, TruthOK, Enqueue \/ WakeUp \/ Fetch \/ Release PROVE TruthOK'
<1>1. Driver(cd)
  BY DEF Base, DriverInv, QueueInv
<1>2. bus' = bus /\ overrun' = overrun /\ complete' = complete /\ foreign' = foreign
  BY DEF Enqueue, WakeUp, Fetch, Release, counters, history
<1>3. /\ Only(cd, cd', {"queue", "irq", "tail"})
      /\ cd'.irq \in {cd.irq, cd.irq \cup {"TXPENDING"}}
  <2>1. CASE Enqueue
    <3>1. Only(cd, cd', {"queue"})
      BY <1>1, <2>1, EnqueueDoes
    <3> QED BY <3>1 DEF Only, Fields
  <2>2. CASE WakeUp
    <3>1. Only(cd, cd', {"irq"}) /\ cd'.irq = cd.irq \cup {"TXPENDING"}
      BY <1>1, <2>2, WakeUpDoes
    <3> QED BY <3>1 DEF Only, Fields
  <2>3. CASE Fetch
    BY <1>1, <2>3 DEF Fetch, Only
  <2>4. CASE Release
    <3>1. Only(cd, cd', {"tail"})
      BY <1>1, <2>4, ReleaseDoes
    <3> QED BY <3>1 DEF Only, Fields
  <2> QED BY <2>1, <2>2, <2>3, <2>4
<1>4. /\ Driver(cd)
      /\ cd'.parse = cd.parse /\ cd'.msg = cd.msg /\ cd'.report = cd.report /\ cd'.inte = cd.inte
      /\ cd'.heard = cd.heard /\ cd'.on = cd.on /\ cd'.sync = cd.sync /\ cd'.sm = cd.sm
      /\ cd'.key = cd.key /\ Pipe(cd') = Pipe(cd)
  BY <1>3 DEF Only, Fields, Pipe
<1> SUFFICES ASSUME ~overrun
             PROVE  /\ HeardIn(cd', complete) /\ Taken'
                    /\ cd'.on => /\ Truthful(cd', Pipe(cd), 0, complete, Now, Torn, Botched)
                                 /\ Reply(cd', complete, Behind)
  <2>1. Now' = Now /\ Torn' = Torn /\ Botched' = Botched /\ Behind' = Behind
    BY <1>2 DEF Now, Torn, Botched, Behind
  <2> QED BY <1>2, <1>4, <2>1 DEF TruthOK
<1>5. /\ HeardIn(cd, complete) /\ Taken
      /\ cd.on => /\ Truthful(cd, Pipe(cd), 0, complete, Now, Torn, Botched)
                  /\ Reply(cd, complete, Behind)
  BY DEF TruthOK
<1>6. HeardIn(cd', complete) /\ Taken'
  BY <1>2, <1>4, <1>5 DEF HeardIn, Taken
<1>7. ASSUME cd.on
      PROVE  /\ Truthful(cd', Pipe(cd), 0, complete, Now, Torn, Botched)
             /\ Reply(cd', complete, Behind)
  <2>1. PICK p, C, now, torn, botched, B :
          /\ p = Pipe(cd) /\ C = complete /\ now = Now /\ torn = Torn /\ botched = Botched
          /\ B = Behind
    OBVIOUS
  <2>2. Truthful(cd, p, 0, C, now, torn, botched) /\ Reply(cd, C, B)
    BY <1>5, <1>7, <2>1
  <2>3. Truthful(cd', p, 0, C, now, torn, botched)
    BY <1>4, <2>2 DEF Truthful, Honest, Unseen, EofSeen, Due, Receiving
  <2>4. Reply(cd', C, B)
    BY <1>3, <1>4, <2>2, ReplySame DEF Receiving
  <2> QED BY <2>1, <2>3, <2>4
<1> QED BY <1>4, <1>6, <1>7

LEMMA StartedTruth ==
  ASSUME NEW e, Started(e), NEW C, NEW now, NEW torn, NEW botched, NEW B
  PROVE  Truthful(e, Pipe(e), 0, C, now, torn, botched) /\ Reply(e, C, B)
BY NothingReceived DEF Started

LEMMA RestartsKeepTruth ==
  ASSUME Base, TruthOK, ClearTx \/ Deinit \/ CanInit PROVE TruthOK'
<1>1. Driver(cd)
  BY DEF Base, DriverInv, QueueInv
<1>2. bus' = bus /\ overrun' = overrun /\ complete' = complete
  BY DEF ClearTx, Deinit, CanInit, Untouched, history
<1> SUFFICES ASSUME ~overrun
             PROVE  /\ HeardIn(cd', complete) /\ Taken'
                    /\ cd'.on => /\ Truthful(cd', Pipe(cd'), 0, complete, Now', Torn', Botched')
                                 /\ Reply(cd', complete, Behind')
  BY <1>2 DEF TruthOK
<1>3. HeardIn(cd, complete)
  BY DEF TruthOK
<1>4. ASSUME NEW e, cd' = e, e.heard = cd.heard, e.sync = "lost"
      PROVE  HeardIn(cd', complete) /\ Taken'
  BY <1>3, <1>4 DEF HeardIn, Taken
<1>5. ASSUME NEW d, Driver(d), d.heard = cd.heard, cd' = Start(d)
      PROVE  /\ HeardIn(cd', complete) /\ Taken'
             /\ Truthful(cd', Pipe(cd'), 0, complete, Now', Torn', Botched')
             /\ Reply(cd', complete, Behind')
  <2> DEFINE e == Start(d)
  <2>1. Only(d, e, Begun0) /\ Started(e)
    BY <1>5, StartDoes
  <2>2. cd' = e
    BY <1>5
  <2> HIDE DEF e
  <2>3. e.heard = cd.heard /\ e.sync = "lost"
    BY <1>5, <2>1 DEF Only, Fields, Begun0, Started
  <2>4. PICK C, now, torn, botched, B :
          /\ C = complete /\ now = Now' /\ torn = Torn' /\ botched = Botched' /\ B = Behind'
    OBVIOUS
  <2>5. Truthful(e, Pipe(e), 0, C, now, torn, botched) /\ Reply(e, C, B)
    BY <2>1, StartedTruth
  <2> QED BY <1>4, <2>2, <2>3, <2>4, <2>5
<1> DEFINE s == Stop(cd)
<1>6. s.on = FALSE /\ s.sync = "lost" /\ s.heard = cd.heard /\ Driver(s)
  <2>1. /\ Only(cd, s, {"irq", "stall", "key", "sync", "isr", "rx", "sm", "on", "inte"})
        /\ s.on = FALSE /\ s.sync = "lost"
    BY <1>1, StopDoes
  <2> HIDE DEF s
  <2> QED BY <2>1 DEF Only, Fields
<1> HIDE DEF s
<1>7. CASE ClearTx
  <2>1. cd' = Start(s)
    BY <1>7 DEF ClearTx, s
  <2> QED BY <1>5, <1>6, <2>1
<1>8. CASE Deinit
  <2>1. cd' = s
    BY <1>8 DEF Deinit, s
  <2> QED BY <1>4, <1>6, <2>1
<1>9. CASE CanInit
  <2> DEFINE z == [cd EXCEPT !.head = 0, !.tail = 0, !.rxLost = FALSE, !.bufferLost = FALSE]
  <2>1. cd' = Start(z)
    BY <1>9 DEF CanInit
  <2>2. Driver(z) /\ z.heard = cd.heard
    BY <1>1 DEF Driver, Fields
  <2> HIDE DEF z
  <2> QED BY <1>5, <2>1, <2>2
<1> QED BY <1>7, <1>8, <1>9

LEMMA InitTruth ==
  ASSUME Init PROVE TruthOK
<1> DEFINE e == Start(Zeroed)
<1>1. Only(Zeroed, e, Begun0) /\ Started(e)
  BY ZeroedDoes, StartDoes
<1>2. cd = e
  BY DEF Init
<1> HIDE DEF e
<1>3. e.heard = <<>>
  <2>1. e.heard = Zeroed.heard
    BY <1>1 DEF Only, Fields, Begun0
  <2> QED BY <2>1, ZeroedDoes
<1>4. \A j \in 1 .. Len(<<>>) : FALSE
  OBVIOUS
<1>5. HeardIn(e, complete)
  BY <1>3, <1>4 DEF HeardIn
<1>6. Taken
  BY FreeAt DEF Init, Taken
<1>7. Truthful(e, Pipe(e), 0, complete, Now, Torn, Botched) /\ Reply(e, complete, Behind)
  BY <1>1, StartedTruth
<1> QED BY <1>2, <1>5, <1>6, <1>7 DEF TruthOK

LEMMA NextKeepsTruth ==
  ASSUME Base, FlowOK, WakeOK, TrackOK, TruthOK, [Next]_vars PROVE TruthOK'
<1>1. CASE UNCHANGED vars
  BY <1>1 DEF vars, TruthOK, Taken, Now, Torn, Botched, Behind
<1>2. CASE Irq
  BY <1>2, IrqKeepsTruth
<1>3. CASE OwnFrame \/ \E same \in BOOLEAN : OtherFrame(same)
  BY <1>3, FramesKeepTruth
<1>4. CASE LineStep
  BY <1>4, LineKeepsTruth
<1>5. CASE Field
  BY <1>5, FieldKeepsTruth
<1>6. CASE Enqueue \/ WakeUp \/ Fetch \/ Release
  BY <1>6, CallsKeepTruth
<1>7. CASE ClearTx \/ Deinit \/ CanInit
  BY <1>7, RestartsKeepTruth
<1> QED BY <1>1, <1>2, <1>3, <1>4, <1>5, <1>6, <1>7 DEF Next, LineStep

LEMMA AlwaysTruth == Spec => [](Base /\ FlowOK /\ WakeOK /\ TrackOK /\ TruthOK)
<1>1. Init => Base /\ FlowOK /\ WakeOK /\ TrackOK /\ TruthOK
  BY InitBase, InitFlow, InitWake, InitTrack, InitTruth
<1>2. Base /\ FlowOK /\ WakeOK /\ TrackOK /\ TruthOK /\ [Next]_vars
        => (Base /\ FlowOK /\ WakeOK /\ TrackOK /\ TruthOK)'
  BY NextKeepsBase, NextKeepsFlow, NextKeepsWake, NextKeepsTrack, NextKeepsTruth
<1> QED BY <1>1, <1>2, PTL DEF Spec

(* The handler reports as received only frames of other boards that were   *)
(* acknowledged and ended as a receiver has to accept them, unless bits    *)
(* were lost, each once and in the order of the bus.                       *)
THEOREM NothingInvented == Spec => []ReceivedOnce
<1>1. TruthOK /\ ~overrun => ToSet(cd.heard) \subseteq complete
  <2> SUFFICES ASSUME TruthOK, ~overrun PROVE ToSet(cd.heard) \subseteq complete
    OBVIOUS
  <2>1. HeardIn(cd, complete)
    BY DEF TruthOK
  <2> QED BY <2>1 DEF HeardIn, ToSet
<1>2. TruthOK
      /\ (/\ ToSet(cd.heard) \subseteq { f \in Frame : ~f.own }
          /\ Increasing([i \in 1 .. Len(cd.heard) |-> cd.heard[i].n]))
      => ReceivedOnce
  BY <1>1 DEF ReceivedOnce
<1> QED BY <1>2, HeardInSequence, AlwaysTruth, PTL

=============================================================================
