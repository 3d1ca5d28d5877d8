------------------------------ MODULE UsbBridge ------------------------------
(***************************************************************************)
(* Packets over the USB serial line between the hub and a bridge board:    *)
(* pqp_usb_bridge.c.  Each end frames what it sends and reads the frames   *)
(* of the other; the ends of the board are in LibPQP, so the sender of the *)
(* hub is connected with its own receiver here.  A frame is the packet     *)
(* with its CRC moved to the end, escaped so that a newline is only found  *)
(* behind it.  Bytes are lost when the board is reset, when the hub starts *)
(* in the middle of a frame, or when the buffers of the board are full.    *)
(*                                                                         *)
(* The receiver is a thread; it hands packets over to the main loop of the *)
(* hub through a ring without a lock.                                      *)
(***************************************************************************)
EXTENDS Integers, Sequences, SequencesExt

CONSTANTS
  Byte,
  Newline, Escape,                \* '\n' and 0xFE
  EscapedNewline, EscapedEscape,  \* 0xFD and 0xFC, behind an escape
  Preamble, HeaderLength,  \* values of the first two bytes of a packet
  FrontSize,      \* bytes of the header in front of the CRC
  HeaderSize,     \* RAW_PACKET_HEADER_SIZE
  MaxSize,        \* RAW_PACKET_MAX_SIZE
  RxbufSize,      \* bytes of rxbuf
  RingSize,       \* RX_BUFFER_SIZE; one place of it stays empty
  Packet,         \* the packets there are to send
  LineSize,       \* bound: bytes on the line
  MaxPackets,     \* bound: packets sent
  MaxLosses       \* bound: bytes lost

Slot == 0 .. RingSize - 1

ASSUME UsbBridgeAssumption ==
  /\ {Newline, Escape, EscapedNewline, EscapedEscape} \subseteq Byte
  /\ Newline # Escape
  /\ {Newline, Escape} \cap {EscapedNewline, EscapedEscape} = {}
  /\ EscapedNewline # EscapedEscape
  /\ FrontSize \in 2 .. HeaderSize - 1
  /\ {HeaderSize, MaxSize, RxbufSize, RingSize} \subseteq Nat \ {0}
  /\ HeaderSize <= MaxSize /\ MaxSize < RxbufSize
  /\ RingSize > 1
  /\ \A p \in Packet : /\ p \in Seq(Byte) /\ Len(p) \in HeaderSize .. MaxSize
                       /\ p[1] \in Preamble /\ p[2] \in HeaderLength
  /\ {LineSize, MaxPackets, MaxLosses} \subseteq Nat

VARIABLES
  line,       \* the bytes under way, each with the number of its packet
  rxbuf,      \* the frame being read
  escape,     \* rxbuf_escape
  receiver,   \* "reading", or "storing" before rx_buffer_head is moved
  slots,      \* rx_buffer and rx_buffer_lengths
  head, tail, \* rx_buffer_head, rx_buffer_tail
  adding,     \* the main loop is in pqp_usb_bridge_raw_add_packet
  sent,       \* history: the packets sent
  harmed,     \* history: the packets of which a byte was lost
  ended,      \* history: the packets whose newline has been read
  refused,    \* history: those of them that found the ring full
  accepted,   \* history: the packets put in the ring
  arrived,    \* history: the same as a set, each with its number
  delivered,  \* history: the packets handed over to the hub
  losses

ring == <<slots, head, tail>>
history == <<sent, harmed, ended, refused, accepted, arrived, delivered>>
vars == <<line, rxbuf, escape, receiver, ring, adding, history, losses>>

-----------------------------------------------------------------------------
(* encode_tx_byte                                                          *)
Encoded(b) ==
  CASE b = Newline -> <<Escape, EscapedNewline>>
    [] b = Escape -> <<Escape, EscapedEscape>>
    [] OTHER -> <<b>>

(* The CRC moves to the end of the packet, and back.                       *)
CrcLast(p) ==
  SubSeq(p, 1, FrontSize) \o SubSeq(p, HeaderSize + 1, Len(p))
    \o SubSeq(p, FrontSize + 1, HeaderSize)

CrcBack(u) ==
  LET payload == Len(u) - HeaderSize
  IN SubSeq(u, 1, FrontSize) \o SubSeq(u, FrontSize + payload + 1, Len(u))
       \o SubSeq(u, FrontSize + 1, FrontSize + payload)

Frame(p) ==
  FlattenSeq([i \in 1 .. Len(p) |-> Encoded(CrcLast(p)[i])]) \o <<Newline>>

(* The second half of pqp_usb_bridge_process: a packet of the hub.         *)
Send ==
  /\ Len(sent) < MaxPackets
  /\ \E p \in Packet :
       /\ Len(line) + Len(Frame(p)) <= LineSize
       /\ line' = line \o [i \in 1 .. Len(Frame(p)) |->
                             [byte |-> Frame(p)[i], of |-> Len(sent) + 1]]
       /\ sent' = Append(sent, p)
  /\ UNCHANGED <<rxbuf, escape, receiver, ring, adding, harmed, ended, refused,
                 accepted, arrived, delivered, losses>>

Lose ==
  /\ line # <<>> /\ losses < MaxLosses
  /\ losses' = losses + 1
  /\ harmed' = harmed \cup {Head(line).of}
  /\ line' = Tail(line)
  /\ UNCHANGED <<rxbuf, escape, receiver, ring, adding, sent, ended, refused,
                 accepted, arrived, delivered>>

-----------------------------------------------------------------------------
(* receiver_thread_function: one round of its loop for each byte.          *)
Kept(s) == IF Len(rxbuf) < RxbufSize THEN rxbuf \o s ELSE rxbuf

Decoded(b) ==
  CASE b = EscapedNewline -> <<Newline>>
    [] b = EscapedEscape -> <<Escape>>
    [] OTHER -> <<>>

Read(b) ==
  /\ receiver = "reading"
  /\ line # <<>> /\ b = Head(line).byte
  /\ line' = Tail(line)

EndRead ==
  ended' = IF Head(line).byte = Newline THEN ended \cup {Head(line).of} ELSE ended

ReadEscaped(b) ==
  /\ Read(b) /\ escape
  /\ rxbuf' = Kept(Decoded(b))
  /\ escape' = FALSE
  /\ EndRead
  /\ UNCHANGED <<receiver, ring, adding, sent, harmed, refused, accepted,
                 arrived, delivered, losses>>

ReadEscape(b) ==
  /\ Read(b) /\ ~ escape /\ b = Escape
  /\ escape' = TRUE
  /\ UNCHANGED <<rxbuf, receiver, ring, adding, history, losses>>

ReadPlain(b) ==
  /\ Read(b) /\ ~ escape /\ b \notin {Newline, Escape}
  /\ rxbuf' = Kept(<<b>>)
  /\ UNCHANGED <<escape, receiver, ring, adding, history, losses>>

(* The newline: a frame that can be a packet goes to the ring, unless that *)
(* is full.                                                                *)
IsPacket(u) ==
  /\ Len(u) >= HeaderSize /\ Len(u) <= MaxSize
  /\ u[1] \in Preamble /\ u[2] \in HeaderLength

NextSlot(s) == (s + 1) % RingSize
NeverFull == FALSE
Full == NextSlot(head) = tail

AfterPacket == rxbuf' = IF IsPacket(rxbuf) THEN <<>> ELSE rxbuf
AfterFrame == rxbuf' = <<>>

EndFrame ==
  /\ Read(Newline) /\ ~ escape
  /\ AfterFrame
  /\ EndRead
  /\ IF IsPacket(rxbuf) /\ ~ Full
       THEN /\ receiver' = "storing"
            /\ slots' = [slots EXCEPT ![head] = CrcBack(rxbuf)]
            /\ accepted' = Append(accepted, CrcBack(rxbuf))
            /\ arrived' = arrived \cup {<<Head(line).of, CrcBack(rxbuf)>>}
       ELSE UNCHANGED <<receiver, slots, accepted, arrived>>
  /\ refused' = IF IsPacket(rxbuf) /\ Full
                  THEN refused \cup {Head(line).of} ELSE refused
  /\ UNCHANGED <<escape, head, tail, adding, sent, harmed, delivered, losses>>

MoveHead ==
  /\ receiver = "storing"
  /\ receiver' = "reading"
  /\ head' = NextSlot(head)
  /\ UNCHANGED <<line, rxbuf, escape, slots, tail, adding, history, losses>>

Receive == (\E b \in Byte : ReadEscaped(b) \/ ReadEscape(b) \/ ReadPlain(b))
             \/ EndFrame \/ MoveHead

-----------------------------------------------------------------------------
(* The first half of pqp_usb_bridge_process.  What the hub answers is not  *)
(* looked at.                                                              *)
AddPacket ==
  /\ ~ adding /\ head # tail
  /\ adding' = TRUE
  /\ UNCHANGED <<line, rxbuf, escape, receiver, ring, history, losses>>

PacketAdded ==
  /\ adding
  /\ adding' = FALSE
  /\ delivered' = Append(delivered, slots[tail])
  /\ tail' = NextSlot(tail)
  /\ UNCHANGED <<line, rxbuf, escape, receiver, slots, head, sent, harmed, ended,
                 refused, accepted, arrived, losses>>

Init ==
  /\ line = <<>> /\ rxbuf = <<>> /\ escape = FALSE /\ receiver = "reading"
  /\ slots = [s \in Slot |-> <<>>] /\ head = 0 /\ tail = 0
  /\ adding = FALSE
  /\ sent = <<>> /\ harmed = {} /\ ended = {} /\ refused = {}
  /\ accepted = <<>> /\ arrived = {} /\ delivered = <<>>
  /\ losses = 0

Next == Send \/ Lose \/ Receive \/ AddPacket \/ PacketAdded

Spec == Init /\ [][Next]_vars

-----------------------------------------------------------------------------
(***************************************************************************)
(* Properties.                                                             *)
(***************************************************************************)

(* Every variable keeps to the values the code can give it; rxbuf is never *)
(* written behind its end.                                                 *)
TypeOK ==
  /\ rxbuf \in Seq(Byte) /\ Len(rxbuf) <= RxbufSize
  /\ escape \in BOOLEAN /\ adding \in BOOLEAN
  /\ receiver \in {"reading", "storing"}
  /\ slots \in [Slot -> Seq(Byte)]
  /\ head \in Slot /\ tail \in Slot
  /\ accepted \in Seq(Seq(Byte)) /\ delivered \in Seq(Seq(Byte))

(* The hub is handed what the receiver put in the ring, each packet once   *)
(* and in order, and no slot is written while the hub reads it: what is    *)
(* between tail and head is what has been accepted and not delivered.      *)
Waiting == ((head - tail) % RingSize) + (IF receiver = "storing" THEN 1 ELSE 0)
RingInOrder ==
  /\ Len(accepted) = Len(delivered) + Waiting
  /\ \A k \in 1 .. Len(delivered) : delivered[k] = accepted[k]
  /\ \A k \in 1 .. Waiting :
       slots[(tail + k - 1) % RingSize] = accepted[Len(delivered) + k]

(* A lost byte, of whatever kind, costs its own packet and the next one at *)
(* most: a packet behind one that came whole is accepted unchanged, if the *)
(* ring has room for it.                                                   *)
Whole(i) == i \notin harmed
Resynchronises ==
  \A i \in ended \ refused :
    Whole(i) /\ (i > 1 => Whole(i - 1)) =>
      <<i, sent[i]>> \in arrived

=============================================================================
