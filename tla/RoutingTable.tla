---------------------------- MODULE RoutingTable ----------------------------
(***************************************************************************)
(* Setting the routing table of a device: the session of                   *)
(* gnd_apps/set_routing_table.c on the ground, the requests and replies    *)
(* between them, and the routing table functions of libpqp_foreign.c,      *)
(* which keep the table in flash, the page being filled in RAM (the shadow *)
(* table) and the last route looked up in a cache.                         *)
(*                                                                         *)
(* An entry is a byte, and a byte is the set of its bits that are 1:       *)
(* programming flash can only clear bits, so it is an intersection.  The   *)
(* checksum stands for the table it is computed from.                      *)
(***************************************************************************)
EXTENDS Integers, Sequences, FiniteSets

CONSTANTS
  NTablePages,    \* flash pages of the table (16 in the code)
  Slots,          \* entries of a page (256 in the code)
  Bits,           \* the bits of an entry (8 in the code)
  PacketEntries,  \* entries a packet can carry (88 in the code)
  OldTables,      \* what the table may hold before the session
  WantedTables,   \* the tables the ground may be asked to set
  NoPage,         \* the shadow table stands for no page
  NoRoute,        \* the cache is invalid
  MaxMishaps      \* bound: lost requests and replies, late replies, resets

NEntries == NTablePages * Slots
Entry == 0 .. NEntries - 1
TablePage == 0 .. NTablePages - 1
Value == SUBSET Bits
Erased == Bits                   \* 0xFF
Null == {}                       \* 0x00, the NULL interface
Table == [Entry -> Value]
Blank == [e \in Entry |-> Erased]
EntryItself(e) == e
PageOf(e) == e \div Slots
Closing == NEntries - 1          \* where the entry 0xFF, 0xFF of a packet goes

ASSUME RoutingAssumption ==
  /\ NTablePages \in Nat \ {0}
  /\ Slots \in Nat \ {0}
  /\ PacketEntries \in Nat \ {0}
  /\ OldTables \subseteq Table
  /\ WantedTables \subseteq { t \in Table : t[Closing] = Erased }
  /\ NoPage \notin TablePage
  /\ MaxMishaps \in Nat

VARIABLES
  table,      \* the routing table in flash
  base,       \* _shadow_routing_table_base_address, as a page
  shadow,     \* _shadow_routing_table_in_ram, as part of a table
  cache,      \* _routing_table_cache
  work,       \* device: the entries of the packet being handled
  failed,     \* device: an entry of it was not written
  requests,   \* requests on their way to the device, in order
  replies,    \* replies on their way to the ground, in order
  wanted,     \* ground: routing_table
  pc,         \* ground: what the session is about to ask, or its outcome
  packet,     \* ground: p
  retried,    \* ground: the packet is sent for the second time
  waiting,    \* ground: in receive_data
  written,    \* history: the table the device was told to hold
  clean,      \* history: every write since the clear has returned 0
  mishaps     \* history: what went wrong, in order

device == <<table, base, shadow, cache, work, failed>>
network == <<requests, replies>>
ground == <<wanted, pc, packet, retried, waiting>>
history == <<written, clean>>
vars == <<device, network, ground, history, mishaps>>

Route == [entry : Entry, value : Value]
Write == [entry : Entry, value : Value, last : BOOLEAN]

-----------------------------------------------------------------------------
(***************************************************************************)
(* The ground.                                                             *)
(***************************************************************************)

(* The entries sent, in the order of the table; interface 0 and 0xFF are   *)
(* not.  The closing entry comes after them.                               *)
Sent == { e \in Entry : wanted[e] \notin {Null, Erased} }
NumOfEntries == Cardinality(Sent) + 1
EntryAt(n) ==
  IF n = NumOfEntries
    THEN [entry |-> Closing, value |-> Erased, last |-> TRUE]
    ELSE LET e == CHOOSE e \in Sent : Cardinality({ f \in Sent : f <= e }) = n
         IN [entry |-> e, value |-> wanted[e], last |-> FALSE]

PacketCount == (NumOfEntries + PacketEntries - 1) \div PacketEntries
EntriesOf(p) ==
  LET first == p * PacketEntries
      size == IF NumOfEntries - first > PacketEntries
                THEN PacketEntries ELSE NumOfEntries - first
  IN [i \in 1 .. size |-> EntryAt(first + i)]

Asking == {"clear", "erased", "entries", "final"}
Request ==
  CASE pc = "clear"   -> [kind |-> "clear"]
    [] pc = "entries" -> [kind |-> "entries", writes |-> EntriesOf(packet)]
    [] OTHER          -> [kind |-> "checksum"]

SendRequest ==
  /\ pc \in Asking /\ ~ waiting
  /\ waiting' = TRUE
  /\ requests' = Append(requests, Request)
  /\ UNCHANGED <<device, replies, wanted, pc, packet, retried, history, mishaps>>

(* What follows a good answer, and no or a bad one: only a packet of       *)
(* entries is sent a second time.                                          *)
Proceed ==
  /\ retried' = FALSE
  /\ \/ pc = "clear" /\ pc' = "erased" /\ UNCHANGED packet
     \/ /\ pc = "erased"
        /\ pc' = IF Sent = {} THEN "ok" ELSE "entries"
        /\ UNCHANGED packet
     \/ /\ pc = "entries"
        /\ packet' = packet + 1
        /\ pc' = IF packet + 1 = PacketCount THEN "final" ELSE "entries"
     \/ pc = "final" /\ pc' = "ok" /\ UNCHANGED packet

GiveUpAtOnce == pc' = "failed" /\ UNCHANGED <<retried, packet>>
RetryForever ==
  /\ IF pc = "entries" THEN UNCHANGED pc ELSE pc' = "failed"
  /\ UNCHANGED <<retried, packet>>

GiveUp ==
  /\ IF pc = "entries" /\ ~ retried
       THEN retried' = TRUE /\ UNCHANGED pc
       ELSE pc' = "failed" /\ UNCHANGED retried
  /\ UNCHANGED packet

(* The ground looks at the length and the first byte of a reply: nothing   *)
(* tells for which of two packets an acknowledgement is.                   *)
UncheckedFinal(r) ==
  CASE pc \in {"clear", "entries"} -> r.kind = "ack" /\ r.ok
    [] pc = "erased" -> r.kind = "sum" /\ \A e \in Entry : r.of[e] = Erased
    [] OTHER -> r.kind = "sum"

GoodReply(r) ==
  CASE pc \in {"clear", "entries"} -> r.kind = "ack" /\ r.ok
    [] pc = "erased" -> r.kind = "sum" /\ \A e \in Entry : r.of[e] = Erased
    [] OTHER -> r.kind = "sum" /\ r.of = wanted

ReceiveReply ==
  /\ waiting /\ replies # <<>>
  /\ waiting' = FALSE
  /\ replies' = Tail(replies)
  /\ IF GoodReply(Head(replies)) THEN Proceed ELSE GiveUp
  /\ UNCHANGED <<device, requests, wanted, history, mishaps>>

(* receive_data returns -1: the answer will not come, or comes too late.   *)
AnswerComes == requests # <<>> \/ replies # <<>> \/ work # <<>>
Happen(what) ==
  /\ Len(mishaps) < MaxMishaps
  /\ mishaps' = Append(mishaps, what)

ReceiveTimeout ==
  /\ waiting
  /\ waiting' = FALSE
  /\ GiveUp
  /\ IF AnswerComes THEN Happen("late") ELSE UNCHANGED mishaps
  /\ UNCHANGED <<device, network, wanted, history>>

-----------------------------------------------------------------------------
(***************************************************************************)
(* The device.                                                             *)
(***************************************************************************)
CacheKept == UNCHANGED cache
InvalidateCache == cache' = NoRoute

Reply(r) == replies' = Append(replies, r)
NextRequest(kind) ==
  /\ work = <<>>
  /\ requests # <<>>
  /\ Head(requests).kind = kind
  /\ requests' = Tail(requests)

(* pqpf_clear_routing_table; a cell that is worn out keeps its value.      *)
ClearTable ==
  /\ NextRequest("clear")
  /\ InvalidateCache
  /\ \/ table' = Blank /\ UNCHANGED mishaps
     \/ /\ Happen("worn")
        /\ table' \in { [Blank EXCEPT ![e] = table[e]] : e \in Entry }
  /\ base' = NoPage
  /\ Reply([kind |-> "ack", ok |-> table' = Blank])
  /\ written' = Blank
  /\ clean' = (table' = Blank)
  /\ UNCHANGED <<shadow, work, failed, ground>>

(* pqpf_get_routing_table_checksum.                                        *)
Checksum ==
  /\ NextRequest("checksum")
  /\ Reply([kind |-> "sum", of |-> table])
  /\ UNCHANGED <<device, ground, history, mishaps>>

TakePacket ==
  /\ NextRequest("entries")
  /\ work' = Head(requests).writes
  /\ failed' = FALSE
  /\ UNCHANGED <<table, base, shadow, cache, replies, ground, history, mishaps>>

(* pqpf_write_routing_table, by the place of the entry.  The first entry   *)
(* of a page starts a shadow table, the others are put into it; an entry   *)
(* of another page, or the closing one, has it programmed first.  LibPQP   *)
(* answers for the whole packet; whether it goes on after a failed write   *)
(* is not known.                                                           *)
Filled(t, w) == [t EXCEPT ![w.entry] = w.value]

Returns(w, success) ==
  /\ failed' = (failed \/ ~ success)
  /\ work' \in IF success THEN {Tail(work)} ELSE {Tail(work), <<>>}
  /\ IF work' = <<>>
       THEN Reply([kind |-> "ack", ok |-> ~ failed'])
       ELSE UNCHANGED replies
  /\ written' = [written EXCEPT ![w.entry] = w.value]
  /\ clean' = (clean /\ success)

StartPage(w) ==
  /\ base = NoPage
  /\ IF w.last THEN UNCHANGED <<base, shadow>>
               ELSE base' = PageOf(w.entry) /\ shadow' = Filled(Blank, w)
  /\ UNCHANGED table
  /\ Returns(w, TRUE)

FillPage(w) ==
  /\ base = PageOf(w.entry) /\ ~ w.last
  /\ shadow' = Filled(shadow, w)
  /\ UNCHANGED <<table, base>>
  /\ Returns(w, TRUE)

InPage(e, p) == PageOf(e) = p
Programmed(t) ==
  [e \in Entry |-> IF InPage(e, base) THEN table[e] \cap t[e] ELSE table[e]]
Stored(t) == \A e \in Entry : InPage(e, base) => Programmed(t)[e] = t[e]

(* The entry that had the page programmed goes into the next shadow table. *)
NextShadowLate(w) == Blank
NextShadow(w) == Filled(Blank, w)

StorePage(w) ==
  LET page == IF base = PageOf(w.entry) THEN Filled(shadow, w) ELSE shadow
  IN /\ base # NoPage
     /\ w.last \/ base # PageOf(w.entry)
     /\ table' = Programmed(page)
     /\ IF w.last \/ ~ Stored(page)
          THEN base' = NoPage /\ shadow' = page
          ELSE base' = PageOf(w.entry) /\ shadow' = NextShadow(w)
     /\ Returns(w, Stored(page))

WriteEntry ==
  /\ work # <<>>
  /\ InvalidateCache
  /\ LET w == Head(work) IN StartPage(w) \/ FillPage(w) \/ StorePage(w)
  /\ UNCHANGED <<requests, ground, mishaps>>

(* pqpf_read_routing_table, for any packet the device passes on.           *)
Lookup ==
  /\ \E e \in Entry :
       /\ cache # NoRoute => cache.entry # e
       /\ cache' = [entry |-> e, value |-> table[e]]
  /\ UNCHANGED <<table, base, shadow, work, failed, network, ground, history,
                 mishaps>>

-----------------------------------------------------------------------------
(***************************************************************************)
(* What goes wrong.                                                        *)
(***************************************************************************)
LoseRequest ==
  /\ requests # <<>>
  /\ Happen(IF Head(requests).kind = "entries" THEN "packet" ELSE "request")
  /\ requests' = Tail(requests)
  /\ UNCHANGED <<device, replies, ground, history>>

LoseReply ==
  /\ replies # <<>>
  /\ Happen(IF pc = "entries" /\ Head(replies).kind = "ack" THEN "ack" ELSE "reply")
  /\ replies' = Tail(replies)
  /\ UNCHANGED <<device, requests, ground, history>>

(* The device restarts: flash is kept, RAM and the packet are lost.  A     *)
(* page that was being programmed is done in part.                         *)
Interrupted ==
  IF work = <<>> \/ base = NoPage THEN {table}
  ELSE { [e \in Entry |-> IF e \in done THEN Programmed(shadow)[e] ELSE table[e]] :
         done \in SUBSET { e \in Entry : InPage(e, base) } }

DeviceReset ==
  /\ Happen("reset")
  /\ table' \in Interrupted
  /\ base' = NoPage
  /\ cache' = NoRoute
  /\ work' = <<>>
  /\ failed' = FALSE
  /\ clean' = FALSE
  /\ UNCHANGED <<shadow, network, ground, written>>

-----------------------------------------------------------------------------
Init ==
  /\ table \in OldTables
  /\ base = NoPage
  /\ shadow = [e \in Entry |-> Null]
  /\ cache = NoRoute
  /\ work = <<>>
  /\ failed = FALSE
  /\ requests = <<>>
  /\ replies = <<>>
  /\ wanted \in WantedTables
  /\ pc = "clear"
  /\ packet = 0
  /\ retried = FALSE
  /\ waiting = FALSE
  /\ written = table
  /\ clean = FALSE
  /\ mishaps = <<>>

Ground == SendRequest \/ ReceiveReply \/ ReceiveTimeout
Device == ClearTable \/ Checksum \/ TakePacket \/ WriteEntry

Next ==
  \/ Ground
  \/ Device
  \/ Lookup
  \/ LoseRequest \/ LoseReply \/ DeviceReset

(* receive_data counts milliseconds and the main loop of the device polls: *)
(* both go on.                                                             *)
Fairness == WF_vars(Ground) /\ WF_vars(Device)

Spec == Init /\ [][Next]_vars /\ Fairness

-----------------------------------------------------------------------------
(***************************************************************************)
(* Properties.                                                             *)
(***************************************************************************)

(* Every variable keeps to the values the code can give it.                *)
Requests ==
  [kind : {"clear", "checksum"}] \cup [kind : {"entries"}, writes : Seq(Write)]
Replies == [kind : {"ack"}, ok : BOOLEAN] \cup [kind : {"sum"}, of : Table]

Mishap == {"late", "worn", "packet", "request", "ack", "reply", "reset"}

TypeOK ==
  /\ table \in Table /\ shadow \in Table /\ wanted \in Table
  /\ written \in Table
  /\ base \in TablePage \cup {NoPage}
  /\ cache \in Route \cup {NoRoute}
  /\ work \in Seq(Write)
  /\ failed \in BOOLEAN /\ retried \in BOOLEAN /\ waiting \in BOOLEAN
  /\ clean \in BOOLEAN
  /\ requests \in Seq(Requests) /\ replies \in Seq(Replies)
  /\ pc \in Asking \cup {"ok", "failed"}
  /\ packet \in Nat
  /\ mishaps \in Seq(Mishap) /\ Len(mishaps) <= MaxMishaps

(* A packet is never passed on by a route the table no longer holds: the   *)
(* cache and the flash agree across clears, programmed pages and resets.   *)
CacheCoherent == cache # NoRoute => cache.value = table[cache.entry]

(* When every write since the clear has returned 0, also one repeated or   *)
(* coming back to an earlier page, and the closing entry has come, the     *)
(* flash holds the last value of every entry written and nothing else.     *)
StoredWhenClosed == clean /\ base = NoPage => table = written

(* "Routing table check OK" is said of a device that holds the wanted      *)
(* table, and where there is nothing to send "Routing table ERASED" of one *)
(* that holds none, whatever was lost, late, repeated or interrupted on    *)
(* the way.                                                                *)
Agreed == table = IF Sent = {} THEN Blank ELSE wanted
OkMeansSet == pc = "ok" => Agreed

(* The session does not fail when nothing goes wrong, nor when one packet  *)
(* of entries does not reach the device; unless an interface is 0 beside   *)
(* others, which is compared but not sent.                                 *)
Sendable == Sent = {} \/ \A e \in Entry : wanted[e] # Null
OneLossSurvived ==
  pc = "failed" /\ Sendable => mishaps \notin {<<>>, <<"packet">>}

(* The session comes to an end, whatever is lost.                          *)
SessionEnds == <>(pc \in {"ok", "failed"})

(* "Routing table write failed, try again...": a packet whose first        *)
(* acknowledgement was lost can be sent again.                             *)
RetryRecovers == pc = "failed" /\ Sendable => mishaps # <<"ack">>

==============================================================================
