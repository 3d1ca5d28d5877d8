------------------------- MODULE RoutingTableProofs -------------------------
(***************************************************************************)
(* Theorems about RoutingTable, for any table, packet size and number of   *)
(* mishaps: the type invariant, the agreement of cache and flash, that a   *)
(* table whose writes all succeeded is in the flash once it is closed,     *)
(* that the tool only says OK of a device that holds the wanted table, and *)
(* that a session survives the loss of one packet of entries.              *)
(***************************************************************************)
EXTENDS RoutingTable, TLAPS, FiniteSetTheorems

-----------------------------------------------------------------------------
(***************************************************************************)
(* The packets of the ground.                                              *)
(***************************************************************************)
Rank(S, e) == Cardinality({ f \in S : f <= e })

LEMMA RankInside ==
  ASSUME NEW S \in SUBSET Nat, IsFiniteSet(S), NEW e \in S
  PROVE  Rank(S, e) \in 1 .. Cardinality(S)
<1> DEFINE N == Cardinality(S)
           Upto(x) == { f \in S : f <= x }
<1>1. N \in Nat
  BY FS_CardinalityType
<1>2. IsFiniteSet(Upto(e)) /\ Cardinality(Upto(e)) <= N
  BY FS_Subset
<1>3. Cardinality(Upto(e)) \in Nat
  BY <1>2, FS_CardinalityType
<1>4. e \in Upto(e)
  OBVIOUS
<1>5. Cardinality(Upto(e)) # 0
  BY <1>2, <1>4, FS_EmptySet
<1> QED BY <1>1, <1>2, <1>3, <1>5 DEF Rank

LEMMA RankGrows ==
  ASSUME NEW S \in SUBSET Nat, IsFiniteSet(S), NEW e \in S, NEW g \in S, e < g
  PROVE  Rank(S, e) < Rank(S, g)
<1> DEFINE Upto(x) == { f \in S : f <= x }
<1>1. IsFiniteSet(Upto(g))
  BY FS_Subset
<1>2. Upto(e) \in SUBSET Upto(g) /\ g \in Upto(g) /\ g \notin Upto(e)
  <2>1. e \in Nat /\ g \in Nat /\ e < g
    OBVIOUS
  <2>2. ASSUME NEW f \in Upto(e) PROVE f \in Upto(g)
    BY <2>1
  <2>3. g \in Upto(g)
    BY <2>1
  <2>4. g \notin Upto(e)
    BY <2>1
  <2> HIDE DEF Upto
  <2> QED BY <2>2, <2>3, <2>4
<1>3. Upto(e) # Upto(g)
  BY <1>2
<1>4. Cardinality(Upto(e)) <= Cardinality(Upto(g)) /\ Cardinality(Upto(g)) # Cardinality(Upto(e))
  BY <1>1, <1>2, <1>3, FS_Subset
<1>5. Cardinality(Upto(e)) \in Nat /\ Cardinality(Upto(g)) \in Nat
  BY FS_Subset, FS_CardinalityType
<1> QED BY <1>4, <1>5 DEF Rank

(* Of a finite set of numbers, there is one of each rank: ranks differ, so *)
(* that they are as many as there are elements.                            *)
LEMMA RankExists ==
  ASSUME NEW S \in SUBSET Nat, IsFiniteSet(S), NEW n \in 1 .. Cardinality(S)
  PROVE  \E e \in S : Rank(S, e) = n
<1> DEFINE N == Cardinality(S)
           R == [e \in S |-> Rank(S, e)]
<1>1. N \in Nat
  BY FS_CardinalityType
<1>2. R \in Injection(S, 1 .. N)
  <2>1. R \in [S -> 1 .. N]
    BY RankInside
  <2>2. ASSUME NEW e \in S, NEW g \in S, R[e] = R[g] PROVE e = g
    <3>1. Rank(S, e) = Rank(S, g) /\ Rank(S, e) \in 1 .. N
      BY <2>2, RankInside
    <3>2. ~ (Rank(S, e) < Rank(S, g)) /\ ~ (Rank(S, g) < Rank(S, e))
      BY <1>1, <3>1
    <3>3. ~ (e < g) /\ ~ (g < e)
      BY <3>2, RankGrows
    <3> QED BY <3>3
  <2> QED BY <2>1, <2>2 DEF Injection, IsInjective
<1>3. IsFiniteSet(1 .. N) /\ Cardinality(1 .. N) = N
  BY <1>1, FS_Interval
<1>4. R \in Surjection(S, 1 .. N)
  BY <1>2, <1>3, FS_Injection
<1> QED BY <1>4 DEF Surjection

LEMMA Sizes ==
  /\ NEntries \in Nat \ {0}
  /\ Closing \in Entry
  /\ \A e \in Entry : PageOf(e) \in TablePage
<1>1. NTablePages \in Nat \ {0} /\ Slots \in Nat \ {0}
  BY RoutingAssumption
<1>2. NEntries \in Nat \ {0}
  BY <1>1, SMT DEF NEntries
<1>3. ASSUME NEW e \in Entry PROVE PageOf(e) \in TablePage
  <2>1. e \in Nat /\ e < NTablePages * Slots
    BY <1>2 DEF Entry, NEntries
  <2>2. e \div Slots \in Nat /\ Slots * (e \div Slots) <= e
    BY <1>1, <2>1, SMT
  <2>3. Slots * (e \div Slots) < NTablePages * Slots
    BY <1>1, <1>2, <2>1, <2>2, SMT DEF NEntries
  <2>4. e \div Slots < NTablePages
    BY <1>1, <2>2, <2>3, SMT
  <2> QED BY <1>1, <2>2, <2>4 DEF PageOf, TablePage
<1> QED BY <1>2, <1>3 DEF Closing, Entry

(* An entry that a packet may hold: the closing one is blank.              *)
GoodWrite ==
  { w \in Write : /\ w.last => w.entry = Closing
                  /\ w.entry = Closing => w.value = Erased }
GoodRequests ==
  [kind : {"clear", "checksum"}]
    \cup [kind : {"entries"}, writes : Seq(GoodWrite)]

LEMMA EntrySent ==
  ASSUME wanted \in WantedTables, NEW n \in 1 .. NumOfEntries
  PROVE  EntryAt(n) \in GoodWrite
<1>1. wanted \in Table /\ wanted[Closing] = Erased
  BY RoutingAssumption
<1>2. CASE n = NumOfEntries
  BY <1>2, Sizes DEF EntryAt, GoodWrite, Write, Value, Erased
<1>3. CASE n # NumOfEntries
  <2>1. Entry \in SUBSET Nat /\ IsFiniteSet(Entry)
    BY Sizes, FS_Interval DEF Entry
  <2>2. Sent \in SUBSET Entry
    BY DEF Sent
  <2>3. IsFiniteSet(Sent) /\ Cardinality(Sent) \in Nat
    BY <2>1, <2>2, FS_Subset, FS_CardinalityType
  <2>4. n \in 1 .. Cardinality(Sent)
    BY <1>3, <2>3 DEF NumOfEntries
  <2>5. \E e \in Sent : Cardinality({ f \in Sent : f <= e }) = n
    BY <2>1, <2>2, <2>3, <2>4, RankExists DEF Rank
  <2> DEFINE e == CHOOSE g \in Sent : Cardinality({ f \in Sent : f <= g }) = n
  <2>6. e \in Entry
    BY <2>2, <2>5
  <2>7. EntryAt(n) = [entry |-> e, value |-> wanted[e], last |-> FALSE]
    BY <1>3 DEF EntryAt
  <2> HIDE DEF e
  <2>8. wanted[e] \in Value
    BY <1>1, <2>6 DEF Table
  <2> QED BY <1>1, <2>6, <2>7, <2>8 DEF GoodWrite, Write
<1> QED BY <1>2, <1>3

LEMMA RequestSent ==
  ASSUME wanted \in WantedTables, packet \in Nat
  PROVE  Request \in GoodRequests
<1>1. PacketEntries \in Nat \ {0}
  BY RoutingAssumption
<1>2. NumOfEntries \in Nat
  <2>1. IsFiniteSet(Entry) /\ Sent \in SUBSET Entry
    BY Sizes, FS_Interval DEF Entry, Sent
  <2> QED BY <2>1, FS_Subset, FS_CardinalityType DEF NumOfEntries
<1> DEFINE first == packet * PacketEntries
           size == IF NumOfEntries - first > PacketEntries
                     THEN PacketEntries ELSE NumOfEntries - first
<1>3. first \in Nat
  BY <1>1
<1>4. EntriesOf(packet) = [i \in 1 .. size |-> EntryAt(first + i)]
  BY DEF EntriesOf
<1> HIDE DEF first
<1>5. size \in Int /\ size <= NumOfEntries - first
  BY <1>1, <1>2, <1>3
<1>6. ASSUME NEW i \in 1 .. size PROVE EntryAt(first + i) \in GoodWrite
  <2>1. first + i \in 1 .. NumOfEntries
    BY <1>2, <1>3, <1>5
  <2> QED BY <2>1, EntrySent
<1> HIDE DEF size
<1>7. EntriesOf(packet) \in Seq(GoodWrite)
  <2> DEFINE m == IF size < 0 THEN 0 ELSE size
  <2>1. m \in Nat /\ 1 .. m = 1 .. size
    BY <1>5
  <2>2. EntriesOf(packet) \in [1 .. m -> GoodWrite]
    BY <1>4, <1>6, <2>1
  <2> QED BY <2>1, <2>2
<1>8. CASE pc = "clear"
  BY <1>8 DEF Request, GoodRequests
<1>9. CASE pc = "entries"
  BY <1>7, <1>9 DEF Request, GoodRequests
<1>10. CASE pc \notin {"clear", "entries"}
  BY <1>10 DEF Request, GoodRequests
<1> QED BY <1>8, <1>9, <1>10

-----------------------------------------------------------------------------
(***************************************************************************)
(* The invariant.  Closed is about the entries on their way: the closing   *)
(* one is blank, which is why it can be answered without being stored.     *)
(* StoredInv extends StoredWhenClosed to a page being filled: there, an    *)
(* entry has come and is in the shadow, or has not and is blank in it.     *)
(***************************************************************************)
Closed ==
  /\ work \in Seq(GoodWrite)
  /\ requests \in Seq(GoodRequests)
  /\ wanted \in WantedTables

StoredInv ==
  clean =>
    /\ table[Closing] = Erased
    /\ written[Closing] = Erased
    /\ \A e \in Entry :
         IF base # NoPage /\ InPage(e, base)
           THEN \/ shadow[e] = written[e]
                \/ shadow[e] = Erased /\ written[e] = table[e]
           ELSE table[e] = written[e]

Safe == TypeOK /\ Closed /\ CacheCoherent /\ StoredInv

USE DEF Value

LEMMA WriteIsRequest == GoodWrite \subseteq Write /\ GoodRequests \subseteq Requests
<1>1. GoodWrite \subseteq Write
  BY DEF GoodWrite
<1>2. Seq(GoodWrite) \subseteq Seq(Write)
  BY <1>1
<1> QED BY <1>1, <1>2 DEF GoodRequests, Requests

LEMMA Queued ==
  ASSUME NEW S, NEW s \in Seq(S)
  PROVE  /\ \A x \in S : Append(s, x) \in Seq(S)
         /\ s # <<>> => Head(s) \in S /\ Tail(s) \in Seq(S)
  OBVIOUS

LEMMA InitSafe == Init => Safe
<1> SUFFICES ASSUME Init PROVE Safe
  OBVIOUS
<1>1. OldTables \subseteq Table /\ WantedTables \subseteq Table
  BY RoutingAssumption
<1>2. TypeOK
  <2>1. table \in Table /\ wanted \in Table /\ shadow \in Table /\ written \in Table
    BY <1>1 DEF Init, Table, Null
  <2>2. pc \in Asking /\ packet \in Nat
    BY DEF Init, Asking
  <2>3. /\ mishaps \in Seq(Mishap) /\ work \in Seq(Write)
        /\ requests \in Seq(Requests) /\ replies \in Seq(Replies)
    BY DEF Init
  <2>4. Len(mishaps) <= MaxMishaps
    BY RoutingAssumption DEF Init
  <2> QED BY <2>1, <2>2, <2>3, <2>4 DEF Init, TypeOK
<1>3. Closed
  BY DEF Init, Closed
<1> QED BY <1>2, <1>3 DEF Init, Safe, CacheCoherent, StoredInv

-----------------------------------------------------------------------------
(***************************************************************************)
(* The ground, and what is lost on the way.                                *)
(***************************************************************************)
LEMMA SendRequestSafe == Safe /\ SendRequest => Safe'
<1> SUFFICES ASSUME Safe, SendRequest PROVE Safe'
  OBVIOUS
<1>1. Request \in GoodRequests
  BY RequestSent DEF Safe, TypeOK, Closed
<1>2. requests' \in Seq(GoodRequests) /\ requests' \in Seq(Requests)
  BY <1>1, WriteIsRequest DEF Safe, TypeOK, Closed, SendRequest
<1>3. UNCHANGED <<table, base, shadow, cache, work, failed, replies, wanted, pc,
                  packet, retried, written, clean, mishaps>>
  BY DEF SendRequest, device, history
<1>4. TypeOK'
  BY <1>2, <1>3 DEF Safe, TypeOK, SendRequest
<1>5. Closed'
  BY <1>2, <1>3 DEF Safe, Closed
<1>6. CacheCoherent' /\ StoredInv'
  BY <1>3 DEF Safe, CacheCoherent, StoredInv
<1> QED BY <1>4, <1>5, <1>6 DEF Safe

(* A step that leaves the flash, the cache and the entries alone, or lets  *)
(* the first request go.                                                   *)
Elsewhere ==
  /\ UNCHANGED <<table, base, shadow, cache, work, failed, wanted, written, clean>>
  /\ requests' \in {requests} \cup (IF requests = <<>> THEN {} ELSE {Tail(requests)})
  /\ \/ UNCHANGED replies
     \/ replies # <<>> /\ replies' = Tail(replies)
     \/ replies' = Append(replies, [kind |-> "sum", of |-> table])
  /\ pc' \in Asking \cup {"ok", "failed"}
  /\ packet' \in Nat /\ retried' \in BOOLEAN /\ waiting' \in BOOLEAN
  /\ \/ UNCHANGED mishaps
     \/ mishaps' \in Seq(Mishap) /\ Len(mishaps') <= MaxMishaps

LEMMA ElsewhereSafe == Safe /\ Elsewhere => Safe'
<1> SUFFICES ASSUME Safe, Elsewhere PROVE Safe'
  OBVIOUS
<1>1. requests' \in Seq(GoodRequests)
  BY Queued DEF Safe, Closed, Elsewhere
<1>2. requests' \in Seq(Requests)
  BY Queued DEF Safe, TypeOK, Elsewhere
<1>3. replies' \in Seq(Replies)
  <2>1. [kind |-> "sum", of |-> table] \in Replies
    BY DEF Safe, TypeOK, Replies
  <2> QED BY <2>1, Queued DEF Safe, TypeOK, Elsewhere
<1>4. TypeOK'
  BY <1>2, <1>3 DEF Safe, TypeOK, Elsewhere
<1>5. Closed'
  BY <1>1 DEF Safe, Closed, Elsewhere
<1>6. CacheCoherent' /\ StoredInv'
  BY DEF Safe, CacheCoherent, StoredInv, Elsewhere
<1> QED BY <1>4, <1>5, <1>6 DEF Safe

LEMMA MishapCounted ==
  ASSUME TypeOK, NEW what \in Mishap, Happen(what)
  PROVE  mishaps' \in Seq(Mishap) /\ Len(mishaps') <= MaxMishaps
BY RoutingAssumption DEF TypeOK, Happen

LEMMA GiveUpTyped ==
  ASSUME TypeOK, GiveUp \/ Proceed
  PROVE  pc' \in Asking \cup {"ok", "failed"} /\ packet' \in Nat /\ retried' \in BOOLEAN
<1>1. CASE GiveUp
  BY <1>1 DEF TypeOK, GiveUp
<1>2. CASE Proceed
  <2>1. packet' \in Nat /\ retried' = FALSE
    BY <1>2 DEF TypeOK, Proceed
  <2>2. pc' \in Asking \cup {"ok", "failed"}
    BY <1>2 DEF Proceed, Asking
  <2> QED BY <2>1, <2>2
<1> QED BY <1>1, <1>2

LEMMA ReceiveReplySafe == Safe /\ ReceiveReply => Safe'
<1> SUFFICES ASSUME Safe, ReceiveReply PROVE Elsewhere
  BY ElsewhereSafe
<1>1. GiveUp \/ Proceed
  BY DEF ReceiveReply
<1>2. pc' \in Asking \cup {"ok", "failed"} /\ packet' \in Nat /\ retried' \in BOOLEAN
  BY <1>1, GiveUpTyped DEF Safe
<1> QED BY <1>2 DEF ReceiveReply, Elsewhere, device, history

LEMMA ReceiveTimeoutSafe == Safe /\ ReceiveTimeout => Safe'
<1> SUFFICES ASSUME Safe, ReceiveTimeout PROVE Elsewhere
  BY ElsewhereSafe
<1>1. pc' \in Asking \cup {"ok", "failed"} /\ packet' \in Nat /\ retried' \in BOOLEAN
  BY GiveUpTyped DEF ReceiveTimeout, Safe
<1>2. \/ UNCHANGED mishaps
      \/ mishaps' \in Seq(Mishap) /\ Len(mishaps') <= MaxMishaps
  <2>1. UNCHANGED mishaps \/ Happen("late")
    BY DEF ReceiveTimeout
  <2> QED BY <2>1, MishapCounted DEF Safe, Mishap
<1> QED BY <1>1, <1>2 DEF ReceiveTimeout, Elsewhere, device, network, history

LEMMA LoseRequestSafe == Safe /\ LoseRequest => Safe'
<1> SUFFICES ASSUME Safe, LoseRequest PROVE Elsewhere
  BY ElsewhereSafe
<1>1. Happen("packet") \/ Happen("request")
  BY DEF LoseRequest
<1>2. mishaps' \in Seq(Mishap) /\ Len(mishaps') <= MaxMishaps
  BY <1>1, MishapCounted DEF Safe, Mishap
<1> QED BY <1>2 DEF Safe, TypeOK, LoseRequest, Elsewhere, device, ground, history

LEMMA LoseReplySafe == Safe /\ LoseReply => Safe'
<1> SUFFICES ASSUME Safe, LoseReply PROVE Elsewhere
  BY ElsewhereSafe
<1>1. Happen("ack") \/ Happen("reply")
  BY DEF LoseReply
<1>2. mishaps' \in Seq(Mishap) /\ Len(mishaps') <= MaxMishaps
  BY <1>1, MishapCounted DEF Safe, Mishap
<1> QED BY <1>2 DEF Safe, TypeOK, LoseReply, Elsewhere, device, ground, history

LEMMA ChecksumSafe == Safe /\ Checksum => Safe'
<1> SUFFICES ASSUME Safe, Checksum PROVE Elsewhere
  BY ElsewhereSafe
<1> QED BY DEF Safe, TypeOK, Checksum, NextRequest, Reply, Elsewhere, device, ground, history

-----------------------------------------------------------------------------
(***************************************************************************)
(* The device.                                                             *)
(***************************************************************************)
LEMMA BlankTable == Blank \in Table /\ \A e \in Entry : Blank[e] = Erased
BY DEF Blank, Table, Erased

LEMMA ClearTableSafe == Safe /\ ClearTable => Safe'
<1> SUFFICES ASSUME Safe, ClearTable PROVE Safe'
  OBVIOUS
<1>1. table' \in Table
  <2>1. CASE table' = Blank
    BY <2>1, BlankTable
  <2>2. CASE \E e \in Entry : table' = [Blank EXCEPT ![e] = table[e]]
    BY <2>2, BlankTable DEF Safe, TypeOK, Table
  <2> QED BY <2>1, <2>2 DEF ClearTable
<1>2. requests' \in Seq(GoodRequests) /\ requests' \in Seq(Requests)
  BY Queued DEF ClearTable, NextRequest, Safe, TypeOK, Closed
<1>3. replies' \in Seq(Replies)
  <2>1. \A ok \in BOOLEAN : [kind |-> "ack", ok |-> ok] \in Replies
    BY DEF Replies
  <2> QED BY <2>1, Queued DEF ClearTable, Reply, Safe, TypeOK
<1>4. mishaps' \in Seq(Mishap) /\ Len(mishaps') <= MaxMishaps
  <2>1. UNCHANGED mishaps \/ Happen("worn")
    BY DEF ClearTable
  <2> QED BY <2>1, MishapCounted DEF Safe, TypeOK, Mishap
<1>5. UNCHANGED <<shadow, work, failed, wanted, pc, packet, retried, waiting>>
  BY DEF ClearTable, ground
<1>6. /\ base' = NoPage /\ cache' = NoRoute
      /\ written' = Blank /\ clean' = (table' = Blank)
  BY DEF ClearTable, InvalidateCache
<1>7. TypeOK'
  BY <1>1, <1>2, <1>3, <1>4, <1>5, <1>6, BlankTable DEF Safe, TypeOK
<1>8. Closed'
  BY <1>2, <1>5 DEF Safe, Closed
<1>9. CacheCoherent'
  BY <1>6 DEF CacheCoherent
<1>10. StoredInv'
  BY <1>6, BlankTable, Sizes DEF StoredInv
<1> QED BY <1>7, <1>8, <1>9, <1>10 DEF Safe

LEMMA TakePacketSafe == Safe /\ TakePacket => Safe'
<1> SUFFICES ASSUME Safe, TakePacket PROVE Safe'
  OBVIOUS
<1>1. requests' \in Seq(GoodRequests) /\ requests' \in Seq(Requests)
  BY Queued DEF TakePacket, NextRequest, Safe, TypeOK, Closed
<1>2. Head(requests) \in GoodRequests /\ Head(requests).kind = "entries"
  BY Queued DEF TakePacket, NextRequest, Safe, Closed
<1>3. work' \in Seq(GoodWrite)
  BY <1>2 DEF TakePacket, GoodRequests
<1>4. work' \in Seq(Write)
  <2>1. Seq(GoodWrite) \subseteq Seq(Write)
    BY WriteIsRequest
  <2> QED BY <1>3, <2>1
<1>5. /\ UNCHANGED <<table, base, shadow, cache, replies, wanted, pc, packet, retried,
                     waiting, written, clean, mishaps>>
      /\ failed' = FALSE
  BY DEF TakePacket, ground, history
<1>6. TypeOK'
  BY <1>1, <1>4, <1>5 DEF Safe, TypeOK
<1>7. Closed'
  BY <1>1, <1>3, <1>5 DEF Safe, Closed
<1>8. CacheCoherent' /\ StoredInv'
  BY <1>5 DEF Safe, CacheCoherent, StoredInv
<1> QED BY <1>6, <1>7, <1>8 DEF Safe

LEMMA LookupSafe == Safe /\ Lookup => Safe'
<1> SUFFICES ASSUME Safe, Lookup PROVE Safe'
  OBVIOUS
<1>1. PICK e \in Entry : cache' = [entry |-> e, value |-> table[e]]
  BY DEF Lookup
<1>2. UNCHANGED <<table, base, shadow, work, failed, requests, replies, wanted, pc,
                  packet, retried, waiting, written, clean, mishaps>>
  BY DEF Lookup, network, ground, history
<1>3. cache' \in Route /\ cache'.value = table'[cache'.entry]
  BY <1>1, <1>2 DEF Route, Safe, TypeOK, Table
<1>4. TypeOK'
  BY <1>2, <1>3 DEF Safe, TypeOK
<1>5. Closed' /\ StoredInv'
  BY <1>2 DEF Safe, Closed, StoredInv
<1> QED BY <1>3, <1>4, <1>5 DEF Safe, CacheCoherent

(* A page programmed, wholly or in part, is a table again.                 *)
LEMMA ProgrammedTable ==
  ASSUME table \in Table, NEW t \in Table
  PROVE  /\ Programmed(t) \in Table
         /\ \A e \in Entry :
              Programmed(t)[e] = IF InPage(e, base) THEN table[e] \cap t[e] ELSE table[e]
BY DEF Programmed, Table

LEMMA DeviceResetSafe == Safe /\ DeviceReset => Safe'
<1> SUFFICES ASSUME Safe, DeviceReset PROVE Safe'
  OBVIOUS
<1>1. table' \in Table
  <2>1. CASE table' = table
    BY <2>1 DEF Safe, TypeOK
  <2>2. CASE table' # table
    <3>1. PICK done \in SUBSET { e \in Entry : InPage(e, base) } :
            table' = [e \in Entry |-> IF e \in done THEN Programmed(shadow)[e] ELSE table[e]]
      BY <2>2 DEF DeviceReset, Interrupted
    <3>2. Programmed(shadow) \in Table /\ table \in Table
      BY ProgrammedTable DEF Safe, TypeOK
    <3> QED BY <3>1, <3>2 DEF Table
  <2> QED BY <2>1, <2>2
<1>2. mishaps' \in Seq(Mishap) /\ Len(mishaps') <= MaxMishaps
  BY MishapCounted DEF DeviceReset, Safe, Mishap
<1>3. /\ UNCHANGED <<shadow, requests, replies, wanted, pc, packet, retried, waiting,
                     written>>
      /\ base' = NoPage /\ cache' = NoRoute /\ work' = <<>>
      /\ failed' = FALSE /\ clean' = FALSE
  BY DEF DeviceReset, network, ground
<1>4. work' \in Seq(Write) /\ work' \in Seq(GoodWrite)
  BY <1>3
<1>5. TypeOK'
  BY <1>1, <1>2, <1>3, <1>4 DEF Safe, TypeOK
<1>6. Closed' /\ CacheCoherent' /\ StoredInv'
  BY <1>3, <1>4 DEF Safe, Closed, CacheCoherent, StoredInv
<1> QED BY <1>5, <1>6 DEF Safe

-----------------------------------------------------------------------------
(***************************************************************************)
(* An entry is handled.  Whatever the branch, the entry that comes is      *)
(* recorded in written; the branches differ in where it is kept.           *)
(***************************************************************************)
LEMMA FilledTable ==
  ASSUME NEW t \in Table, NEW w \in Write
  PROVE  /\ Filled(t, w) \in Table
         /\ \A e \in Entry : Filled(t, w)[e] = IF e = w.entry THEN w.value ELSE t[e]
BY DEF Filled, Write, Table

LEMMA ReturnsTyped ==
  ASSUME Safe, work # <<>>, NEW success \in BOOLEAN,
         Returns(Head(work), success)
  PROVE  /\ failed' \in BOOLEAN /\ clean' = (clean /\ success)
         /\ work' \in Seq(Write) /\ work' \in Seq(GoodWrite)
         /\ replies' \in Seq(Replies)
         /\ written' = Filled(written, Head(work))
<1>1. failed' \in BOOLEAN /\ clean' = (clean /\ success)
  BY DEF Returns, Safe, TypeOK
<1>2. work' = Tail(work) \/ work' = <<>>
  BY DEF Returns
<1>3. work' \in Seq(Write) /\ work' \in Seq(GoodWrite)
  <2>1. Tail(work) \in Seq(Write) /\ Tail(work) \in Seq(GoodWrite)
    BY Queued DEF Safe, TypeOK, Closed
  <2>2. <<>> \in Seq(Write) /\ <<>> \in Seq(GoodWrite)
    OBVIOUS
  <2> QED BY <1>2, <2>1, <2>2
<1>4. replies' \in Seq(Replies)
  <2>1. [kind |-> "ack", ok |-> ~ failed'] \in Replies
    BY DEF Replies
  <2> QED BY <2>1, Queued DEF Returns, Reply, Safe, TypeOK
<1> QED BY <1>1, <1>3, <1>4 DEF Returns, Filled

LEMMA StartPageKeeps ==
  ASSUME Safe, NEW w \in GoodWrite, StartPage(w), written' = Filled(written, w),
         clean' = clean
  PROVE  /\ table' \in Table /\ shadow' \in Table
         /\ base' \in TablePage \cup {NoPage} /\ StoredInv'
<1> USE DEF Safe
<1>1. w \in Write /\ w.entry \in Entry /\ table' = table /\ base = NoPage
  BY DEF StartPage, GoodWrite, Write
<1>2. /\ written \in Table /\ table \in Table /\ shadow \in Table
      /\ \A e \in Entry : written'[e] = IF e = w.entry THEN w.value ELSE written[e]
  BY <1>1, FilledTable DEF TypeOK
<1>3. CASE w.last
  <2>1. UNCHANGED <<base, shadow>> /\ w.entry = Closing /\ w.value = Erased
    BY <1>3 DEF StartPage, GoodWrite
  <2>2. StoredInv'
    BY <1>1, <1>2, <2>1, Sizes DEF StoredInv
  <2> QED BY <1>1, <1>2, <2>1, <2>2 DEF TypeOK
<1>4. CASE ~ w.last
  <2>1. base' = PageOf(w.entry) /\ shadow' = Filled(Blank, w)
    BY <1>4 DEF StartPage
  <2>2. /\ shadow' \in Table
        /\ \A e \in Entry : shadow'[e] = IF e = w.entry THEN w.value ELSE Erased
    BY <1>1, <2>1, FilledTable, BlankTable
  <2>3. base' \in TablePage
    BY <1>1, <2>1, Sizes
  <2>4. InPage(w.entry, base')
    BY <2>1 DEF InPage
  <2>5. w.entry = Closing => w.value = Erased
    BY DEF GoodWrite
  <2>6. base' # NoPage
    BY <2>3, RoutingAssumption
  <2>7. StoredInv'
    <3>1. SUFFICES ASSUME clean PROVE
            /\ table'[Closing] = Erased /\ written'[Closing] = Erased
            /\ \A e \in Entry :
                 IF base' # NoPage /\ InPage(e, base')
                   THEN \/ shadow'[e] = written'[e]
                        \/ shadow'[e] = Erased /\ written'[e] = table'[e]
                   ELSE table'[e] = written'[e]
      BY DEF StoredInv, InPage
    <3>2. \A e \in Entry : table[e] = written[e]
      BY <1>1, <3>1 DEF StoredInv
    <3>3. table[Closing] = Erased
      BY <3>1 DEF StoredInv
    <3> QED BY <1>1, <1>2, <2>2, <2>4, <2>5, <2>6, <3>2, <3>3, Sizes
  <2> QED BY <1>1, <1>2, <2>2, <2>3, <2>7
<1> QED BY <1>3, <1>4

LEMMA FillPageKeeps ==
  ASSUME Safe, NEW w \in GoodWrite, FillPage(w), written' = Filled(written, w),
         clean' = clean
  PROVE  /\ table' \in Table /\ shadow' \in Table
         /\ base' \in TablePage \cup {NoPage} /\ StoredInv'
<1> USE DEF Safe
<1>1. /\ w \in Write /\ w.entry \in Entry /\ UNCHANGED <<table, base>>
      /\ base = PageOf(w.entry) /\ shadow' = Filled(shadow, w)
  BY DEF FillPage, GoodWrite, Write
<1>2. /\ written \in Table /\ table \in Table /\ shadow \in Table
      /\ base \in TablePage \cup {NoPage}
  BY DEF TypeOK
<1>3. /\ shadow' \in Table
      /\ \A e \in Entry : /\ written'[e] = IF e = w.entry THEN w.value ELSE written[e]
                          /\ shadow'[e] = IF e = w.entry THEN w.value ELSE shadow[e]
  BY <1>1, <1>2, FilledTable
<1>4. base # NoPage /\ InPage(w.entry, base)
  BY <1>1, Sizes, RoutingAssumption DEF InPage
<1>5. w.entry = Closing => w.value = Erased
  BY DEF GoodWrite
<1>6. StoredInv'
  BY <1>1, <1>3, <1>4, <1>5, Sizes DEF StoredInv, InPage
<1> QED BY <1>1, <1>2, <1>3, <1>6

LEMMA StorePageKeeps ==
  ASSUME Safe, NEW w \in GoodWrite, NEW success \in BOOLEAN, StorePage(w),
         written' = Filled(written, w), clean' = (clean /\ success),
         success = Stored(IF base = PageOf(w.entry) THEN Filled(shadow, w) ELSE shadow)
  PROVE  /\ table' \in Table /\ shadow' \in Table
         /\ base' \in TablePage \cup {NoPage} /\ StoredInv'
<1> USE DEF Safe
<1> DEFINE page == IF base = PageOf(w.entry) THEN Filled(shadow, w) ELSE shadow
<1>1. w \in Write /\ w.entry \in Entry /\ (w.entry = Closing => w.value = Erased)
      /\ (w.last => w.entry = Closing)
  BY DEF GoodWrite, Write
<1>2. /\ written \in Table /\ table \in Table /\ shadow \in Table
      /\ base \in TablePage /\ base # NoPage
  BY DEF TypeOK, StorePage
<1>3. /\ page \in Table
      /\ \A e \in Entry : page[e] = IF base = PageOf(w.entry) /\ e = w.entry
                                     THEN w.value ELSE shadow[e]
  BY <1>1, <1>2, FilledTable
<1>4. \A e \in Entry : written'[e] = IF e = w.entry THEN w.value ELSE written[e]
  BY <1>1, <1>2, FilledTable
<1>5. /\ table' = Programmed(page)
      /\ \/ w.last \/ ~ Stored(page)
         \/ base # PageOf(w.entry)
      /\ IF w.last \/ ~ Stored(page)
           THEN base' = NoPage /\ shadow' = page
           ELSE base' = PageOf(w.entry) /\ shadow' = Filled(Blank, w)
  BY DEF StorePage, NextShadow
<1> HIDE DEF page
<1>6. /\ table' \in Table
      /\ \A e \in Entry :
           table'[e] = IF InPage(e, base) THEN table[e] \cap page[e] ELSE table[e]
  BY <1>2, <1>3, <1>5, ProgrammedTable
<1>7. /\ shadow' \in Table
      /\ ~ w.last /\ Stored(page) =>
           \A e \in Entry : shadow'[e] = IF e = w.entry THEN w.value ELSE Erased
  BY <1>1, <1>3, <1>5, FilledTable, BlankTable
<1>8. base' \in TablePage \cup {NoPage}
  BY <1>1, <1>5, Sizes
<1>9. ASSUME clean, Stored(page) PROVE
        /\ table'[Closing] = Erased /\ written'[Closing] = Erased
        /\ \A e \in Entry : e # w.entry => table'[e] = written'[e]
        /\ w.last => table'[w.entry] = written'[w.entry]
  <2>1. \A e \in Entry : InPage(e, base) => table'[e] = page[e]
    BY <1>5, <1>9 DEF Stored
  <2>2. \A e \in Entry : table[e] \subseteq Erased
    BY <1>2 DEF Table, Erased
  <2>3. /\ table[Closing] = Erased /\ written[Closing] = Erased
        /\ \A e \in Entry : IF InPage(e, base)
             THEN \/ shadow[e] = written[e]
                  \/ shadow[e] = Erased /\ written[e] = table[e]
             ELSE table[e] = written[e]
    BY <1>2, <1>9 DEF StoredInv
  <2>4. written'[Closing] = Erased
    BY <1>1, <1>4, <2>3, Sizes
  <2>5. ASSUME NEW e \in Entry, e # w.entry PROVE table'[e] = written'[e]
    <3>1. written'[e] = written[e] /\ page[e] = shadow[e]
      BY <1>3, <1>4, <2>5
    <3>2. CASE ~ InPage(e, base)
      BY <1>6, <2>3, <3>1, <3>2
    <3>3. CASE InPage(e, base) /\ shadow[e] = written[e]
      BY <2>1, <3>1, <3>3
    <3>4. CASE InPage(e, base) /\ shadow[e] = Erased /\ written[e] = table[e]
      <4>1. table'[e] = Erased /\ table'[e] = table[e] \cap Erased
        BY <1>6, <2>1, <3>1, <3>4
      <4>2. table[e] = Erased
        BY <2>2, <4>1
      <4> QED BY <3>1, <3>4, <4>1, <4>2
    <3> QED BY <2>3, <3>2, <3>3, <3>4
  <2>6. table'[Closing] = Erased
    <3>1. CASE ~ InPage(Closing, base)
      BY <1>6, <2>3, <3>1, Sizes
    <3>2. CASE InPage(Closing, base)
      <4>1. page[Closing] = Erased
        BY <1>1, <1>3, <2>3, <3>2, Sizes
      <4> QED BY <2>1, <3>2, <4>1, Sizes
    <3> QED BY <3>1, <3>2
  <2>7. w.last => table'[w.entry] = written'[w.entry]
    BY <1>1, <2>4, <2>6
  <2> QED BY <2>4, <2>5, <2>6, <2>7
<1>10. StoredInv'
  <2>1. SUFFICES ASSUME clean, Stored(page) PROVE
            /\ table'[Closing] = Erased /\ written'[Closing] = Erased
            /\ \A e \in Entry :
                 IF base' # NoPage /\ InPage(e, base')
                   THEN \/ shadow'[e] = written'[e]
                        \/ shadow'[e] = Erased /\ written'[e] = table'[e]
                   ELSE table'[e] = written'[e]
    BY DEF StoredInv, InPage, page
  <2>2. CASE w.last
    <3>1. base' = NoPage
      BY <1>5, <2>2
    <3> QED BY <1>9, <2>1, <2>2, <3>1
  <2>3. CASE ~ w.last
    <3>1. base' = PageOf(w.entry)
      BY <1>5, <2>1, <2>3
    <3>2. InPage(w.entry, base') /\ base' # NoPage
      BY <1>1, <3>1, Sizes, RoutingAssumption DEF InPage
    <3>3. shadow'[w.entry] = written'[w.entry]
      BY <1>1, <1>4, <1>7, <2>1, <2>3
    <3>4. \A e \in Entry : e # w.entry => shadow'[e] = Erased
      BY <1>7, <2>1, <2>3
    <3> QED BY <1>9, <2>1, <3>2, <3>3, <3>4
  <2> QED BY <2>2, <2>3
<1> QED BY <1>6, <1>7, <1>8, <1>10

LEMMA WriteEntrySafe == Safe /\ WriteEntry => Safe'
<1> SUFFICES ASSUME Safe, WriteEntry PROVE Safe'
  OBVIOUS
<1> DEFINE w == Head(work)
<1>1. work # <<>> /\ w \in GoodWrite
  BY Queued DEF WriteEntry, Safe, Closed
<1>2. cache' = NoRoute
      /\ UNCHANGED <<requests, wanted, pc, packet, retried, waiting, mishaps>>
  BY DEF WriteEntry, InvalidateCache, ground
<1> HIDE DEF w
<1>3. /\ table' \in Table /\ shadow' \in Table
      /\ base' \in TablePage \cup {NoPage} /\ StoredInv'
      /\ failed' \in BOOLEAN /\ clean' \in BOOLEAN
      /\ work' \in Seq(Write) /\ work' \in Seq(GoodWrite)
      /\ replies' \in Seq(Replies)
      /\ written' = Filled(written, w)
  <2>1. CASE StartPage(w)
    <3>1. Returns(w, TRUE)
      BY <2>1 DEF StartPage
    <3>2. clean \in BOOLEAN
      BY DEF Safe, TypeOK
    <3> QED BY <1>1, <2>1, <3>1, <3>2, ReturnsTyped, StartPageKeeps DEF w
  <2>2. CASE FillPage(w)
    <3>1. Returns(w, TRUE)
      BY <2>2 DEF FillPage
    <3>2. clean \in BOOLEAN
      BY DEF Safe, TypeOK
    <3> QED BY <1>1, <2>2, <3>1, <3>2, ReturnsTyped, FillPageKeeps DEF w
  <2>3. CASE StorePage(w)
    <3> DEFINE page == IF base = PageOf(w.entry) THEN Filled(shadow, w) ELSE shadow
    <3>1. Returns(w, Stored(page)) /\ Stored(page) \in BOOLEAN
      BY <2>3 DEF StorePage, Stored
    <3>2. clean \in BOOLEAN
      BY DEF Safe, TypeOK
    <3>3. /\ failed' \in BOOLEAN /\ clean' = (clean /\ Stored(page))
          /\ work' \in Seq(Write) /\ work' \in Seq(GoodWrite)
          /\ replies' \in Seq(Replies)
          /\ written' = Filled(written, w)
      BY <1>1, <3>1, ReturnsTyped DEF w
    <3> QED BY <1>1, <2>3, <3>1, <3>2, <3>3, StorePageKeeps
  <2> QED BY <2>1, <2>2, <2>3 DEF WriteEntry, w
<1>4. written' \in Table
  BY <1>1, <1>3, FilledTable DEF Safe, TypeOK, GoodWrite
<1>5. TypeOK'
  BY <1>2, <1>3, <1>4 DEF Safe, TypeOK
<1>6. Closed' /\ CacheCoherent'
  BY <1>2, <1>3 DEF Safe, Closed, CacheCoherent
<1> QED BY <1>3, <1>5, <1>6 DEF Safe

-----------------------------------------------------------------------------
LEMMA NextSafe == Safe /\ [Next]_vars => Safe'
<1> SUFFICES ASSUME Safe, [Next]_vars PROVE Safe'
  OBVIOUS
<1>1. CASE Ground
  BY <1>1, SendRequestSafe, ReceiveReplySafe, ReceiveTimeoutSafe DEF Ground
<1>2. CASE Device
  BY <1>2, ClearTableSafe, ChecksumSafe, TakePacketSafe, WriteEntrySafe DEF Device
<1>3. CASE Lookup \/ LoseRequest \/ LoseReply \/ DeviceReset
  BY <1>3, LookupSafe, LoseRequestSafe, LoseReplySafe, DeviceResetSafe
<1>4. CASE UNCHANGED vars
  BY <1>4 DEF vars, device, network, ground, history, Safe, TypeOK, Closed,
              CacheCoherent, StoredInv
<1> QED BY <1>1, <1>2, <1>3, <1>4 DEF Next

LEMMA AlwaysSafe == Spec => []Safe
<1>1. Init => Safe
  BY InitSafe
<1>2. Safe /\ [Next]_vars => Safe'
  BY NextSafe
<1> QED BY <1>1, <1>2, PTL DEF Spec

(* For every size of table and packet, and every number of mishaps, the    *)
(* variables keep to their types: a packet holds entries of the table, the *)
(* shadow table stands for a page of it, and routes are entries of it.     *)
THEOREM TypeCorrect == Spec => []TypeOK
<1>1. Safe => TypeOK
  BY DEF Safe
<1> QED BY <1>1, AlwaysSafe, PTL

(* No packet is passed on by a route that the flash no longer holds.       *)
THEOREM NoStaleRoute == Spec => []CacheCoherent
<1>1. Safe => CacheCoherent
  BY DEF Safe
<1> QED BY <1>1, AlwaysSafe, PTL

(* In whatever order and however often entries come, across pages, resets  *)
(* and lost answers: if none has failed since the clear and the table is   *)
(* closed, the flash holds the last value of each.                         *)
THEOREM ClosedIsStored == Spec => []StoredWhenClosed
<1>1. Safe => StoredWhenClosed
  <2> SUFFICES ASSUME Safe, clean, base = NoPage PROVE table = written
    BY DEF StoredWhenClosed
  <2>1. table \in Table /\ written \in Table
    BY DEF Safe, TypeOK
  <2>2. \A e \in Entry : table[e] = written[e]
    BY DEF Safe, StoredInv
  <2> QED BY <2>1, <2>2 DEF Table
<1> QED BY <1>1, AlwaysSafe, PTL

-----------------------------------------------------------------------------
(***************************************************************************)
(* What the tool calls OK.  A reply does not say which question it is for, *)
(* but a checksum is only asked for when every earlier one has been        *)
(* answered: one that is on its way is the last of its queue, and nothing  *)
(* that could change the table is behind it.                               *)
(***************************************************************************)
Quiet == requests = <<>> /\ work = <<>>
NoSum == \A i \in 1 .. Len(replies) : replies[i].kind # "sum"

SumIsLast ==
  \A i \in 1 .. Len(replies) : replies[i].kind = "sum" =>
    /\ pc \in {"erased", "final"} /\ waiting
    /\ i = Len(replies) /\ replies[i].of = table /\ Quiet

QuestionIsLast ==
  \A i \in 1 .. Len(requests) : requests[i].kind = "checksum" =>
    pc \in {"erased", "final"} /\ waiting /\ i = Len(requests) /\ NoSum

AnswerInv ==
  /\ pc \in Asking => SumIsLast /\ QuestionIsLast
  /\ pc = "ok" => Quiet /\ Agreed

(* Entries are only sent, and the last checksum asked for, of a table that *)
(* has any.                                                                *)
SomethingSent == pc \in {"entries", "final"} => Sent # {}

LEMMA Rest ==
  ASSUME NEW S, NEW s \in Seq(S), s # <<>>
  PROVE  /\ Len(s) \in Nat /\ Len(Tail(s)) = Len(s) - 1 /\ s[1] = Head(s) /\ 1 \in 1 .. Len(s)
         /\ \A i \in 1 .. Len(Tail(s)) : i + 1 \in 1 .. Len(s) /\ Tail(s)[i] = s[i + 1]
  OBVIOUS

LEMMA More ==
  ASSUME NEW S, NEW s \in Seq(S), NEW x \in S
  PROVE  /\ Len(s) \in Nat /\ Len(Append(s, x)) = Len(s) + 1
         /\ \A i \in 1 .. Len(s) + 1 :
              Append(s, x)[i] = (IF i = Len(s) + 1 THEN x ELSE s[i])
              /\ (i # Len(s) + 1 => i \in 1 .. Len(s))
  OBVIOUS

LEMMA LengthZero ==
  ASSUME NEW S, NEW s \in Seq(S), Len(s) = 0 PROVE s = <<>>
  OBVIOUS

LEMMA OneLeft ==
  ASSUME NEW S, NEW s \in Seq(S), Len(s) = 1 PROVE Tail(s) = <<>>
<1>1. s # <<>>
  OBVIOUS
<1>2. Tail(s) \in Seq(S) /\ Len(Tail(s)) = 0
  BY <1>1
<1> QED BY <1>2, LengthZero

LEMMA StillLast ==
  ASSUME NEW m \in Nat, NEW n, NEW i \in 1 .. n, n = m - 1, i + 1 = m PROVE i = n
  OBVIOUS

(* A checksum at the head of the replies is all there is.                  *)
LEMMA SumAlone ==
  ASSUME Safe, SumIsLast, replies # <<>>, Head(replies).kind = "sum"
  PROVE  Tail(replies) = <<>> /\ Quiet /\ Head(replies).of = table
<1>1. replies \in Seq(Replies)
  BY DEF Safe, TypeOK
<1>2. replies[1] = Head(replies) /\ 1 \in 1 .. Len(replies) /\ Len(Tail(replies)) = Len(replies) - 1
  BY <1>1, Rest
<1>3. 1 = Len(replies) /\ replies[1].of = table /\ Quiet
  BY <1>2 DEF SumIsLast
<1>4. Tail(replies) = <<>>
  BY <1>1, <1>3, OneLeft
<1> QED BY <1>2, <1>3, <1>4

LEMMA FewerReplies ==
  ASSUME Safe, SumIsLast, QuestionIsLast, replies # <<>>, replies' = Tail(replies),
         UNCHANGED <<requests, work, table, pc, waiting>>
  PROVE  SumIsLast' /\ QuestionIsLast'
<1>1. /\ Len(replies) \in Nat /\ Len(replies') = Len(replies) - 1
      /\ \A i \in 1 .. Len(replies') : i + 1 \in 1 .. Len(replies) /\ replies'[i] = replies[i + 1]
  BY Rest DEF Safe, TypeOK
<1>2. SumIsLast'
  <2> SUFFICES ASSUME NEW i \in 1 .. Len(replies'), replies'[i].kind = "sum"
               PROVE  /\ pc \in {"erased", "final"} /\ waiting
                      /\ i = Len(replies') /\ replies'[i].of = table /\ Quiet
    BY DEF SumIsLast, Quiet
  <2>1. i + 1 \in 1 .. Len(replies) /\ replies'[i] = replies[i + 1]
    BY <1>1
  <2>2. /\ pc \in {"erased", "final"} /\ waiting /\ i + 1 = Len(replies)
        /\ replies[i + 1].of = table /\ Quiet
    BY <2>1 DEF SumIsLast
  <2>3. i = Len(replies')
    BY ONLY <1>1, <2>2, StillLast, i \in 1 .. Len(replies')
  <2> QED BY ONLY <2>1, <2>2, <2>3, table' = table
<1>3. NoSum => NoSum'
  BY <1>1 DEF NoSum
<1> QED BY <1>2, <1>3 DEF QuestionIsLast

LEMMA FewerRequests ==
  ASSUME Safe, QuestionIsLast, requests # <<>>, requests' = Tail(requests), NoSum => NoSum',
         UNCHANGED <<pc, waiting>>
  PROVE  QuestionIsLast'
<1>1. /\ Len(requests) \in Nat /\ Len(requests') = Len(requests) - 1
      /\ \A i \in 1 .. Len(requests') : i + 1 \in 1 .. Len(requests) /\ requests'[i] = requests[i + 1]
  BY Rest DEF Safe, TypeOK
<1> SUFFICES ASSUME NEW i \in 1 .. Len(requests'), requests'[i].kind = "checksum"
             PROVE  pc \in {"erased", "final"} /\ waiting /\ i = Len(requests') /\ NoSum'
  BY DEF QuestionIsLast
<1>2. i + 1 \in 1 .. Len(requests) /\ requests'[i] = requests[i + 1]
  BY <1>1
<1>3. pc \in {"erased", "final"} /\ waiting /\ i + 1 = Len(requests) /\ NoSum
  BY <1>2 DEF QuestionIsLast
<1>4. i = Len(requests')
  BY ONLY <1>1, <1>3, StillLast, i \in 1 .. Len(requests')
<1> QED BY <1>3, <1>4

LEMMA Acknowledged ==
  ASSUME Safe, NEW ok \in BOOLEAN, replies' = Append(replies, [kind |-> "ack", ok |-> ok])
  PROVE  NoSum => NoSum'
<1> DEFINE x == [kind |-> "ack", ok |-> ok]
<1>1. replies \in Seq(Replies) /\ x \in Replies /\ x.kind # "sum"
  BY DEF Safe, TypeOK, Replies
<1> HIDE DEF x
<1>2. /\ Len(replies') = Len(replies) + 1
      /\ \A i \in 1 .. Len(replies) + 1 :
           replies'[i] = (IF i = Len(replies) + 1 THEN x ELSE replies[i])
           /\ (i # Len(replies) + 1 => i \in 1 .. Len(replies))
  BY <1>1, More DEF x
<1> QED BY <1>1, <1>2 DEF NoSum

(* While there is anything left for the device, no checksum is waiting.    *)
LEMMA BusyMeansNoSum ==
  ASSUME AnswerInv, pc \in Asking, ~ Quiet PROVE NoSum
BY DEF AnswerInv, SumIsLast, NoSum

LEMMA NoSumIsFine == ASSUME NoSum' PROVE SumIsLast'
BY DEF NoSum, SumIsLast

LEMMA SendRequestAnswers ==
  ASSUME Safe, AnswerInv, SendRequest PROVE AnswerInv'
<1>1. pc \in Asking /\ ~ waiting /\ waiting' = TRUE /\ requests' = Append(requests, Request)
      /\ UNCHANGED <<replies, pc, table, work, wanted>>
  BY DEF SendRequest, device
<1>2. NoSum /\ \A i \in 1 .. Len(requests) : requests[i].kind # "checksum"
  BY <1>1 DEF AnswerInv, SumIsLast, QuestionIsLast, NoSum
<1>3. Request.kind = "checksum" => pc \in {"erased", "final"}
  BY <1>1 DEF Request, Asking
<1>4. Request \in GoodRequests /\ requests \in Seq(GoodRequests)
  BY RequestSent DEF Safe, TypeOK, Closed
<1>5. /\ Len(requests') = Len(requests) + 1
      /\ \A i \in 1 .. Len(requests) + 1 :
           requests'[i] = (IF i = Len(requests) + 1 THEN Request ELSE requests[i])
           /\ (i # Len(requests) + 1 => i \in 1 .. Len(requests))
  BY <1>1, <1>4, More
<1>6. NoSum'
  BY <1>1, <1>2 DEF NoSum
<1>7. QuestionIsLast'
  BY <1>1, <1>2, <1>3, <1>5, <1>6 DEF QuestionIsLast
<1>8. pc' # "ok"
  BY <1>1 DEF Asking
<1> QED BY <1>6, <1>7, <1>8, NoSumIsFine DEF AnswerInv

LEMMA ReceiveReplyAnswers ==
  ASSUME SomethingSent, Safe, AnswerInv, ReceiveReply, pc \in Asking PROVE AnswerInv'
<1> DEFINE r == Head(replies)
<1>1. /\ replies # <<>> /\ replies' = Tail(replies) /\ waiting' = FALSE
      /\ IF GoodReply(r) THEN Proceed ELSE GiveUp
      /\ UNCHANGED <<requests, work, table, wanted>>
  BY DEF ReceiveReply, device
<1>2. SumIsLast /\ QuestionIsLast
  BY DEF AnswerInv
<1>3. r.kind = "sum" => replies' = <<>> /\ Quiet /\ r.of = table
  BY <1>1, <1>2, SumAlone
<1>4. r \in Replies
  BY <1>1, Queued DEF Safe, TypeOK
<1> HIDE DEF r
<1>5. CASE pc \in {"clear", "entries"}
  <2>1. NoSum /\ \A i \in 1 .. Len(requests) : requests[i].kind # "checksum"
    BY <1>2, <1>5 DEF SumIsLast, QuestionIsLast, NoSum
  <2>2. NoSum'
    BY <1>1, <2>1, Rest DEF NoSum, Safe, TypeOK
  <2>3. QuestionIsLast'
    BY <1>1, <2>1 DEF QuestionIsLast
  <2>4. pc' # "ok"
    BY <1>1, <1>5 DEF Proceed, GiveUp
  <2> QED BY <2>2, <2>3, <2>4, NoSumIsFine DEF AnswerInv
<1>6. CASE pc \in {"erased", "final"} /\ ~ GoodReply(r)
  <2>1. pc' = "failed"
    BY <1>1, <1>6 DEF GiveUp
  <2> QED BY <2>1 DEF AnswerInv, Asking
<1>7. CASE pc \in {"erased", "final"} /\ GoodReply(r)
  <2>1. r.kind = "sum"
    BY <1>7 DEF GoodReply
  <2>2. replies' = <<>> /\ requests' = <<>> /\ work' = <<>> /\ r.of = table
    BY <1>1, <1>3, <2>1 DEF Quiet
  <2>3. SumIsLast' /\ QuestionIsLast'
    BY <2>2 DEF SumIsLast, QuestionIsLast
  <2>4. ASSUME pc' = "ok" PROVE Agreed
    <3>1. CASE pc = "final"
      BY <1>7, <2>2, <3>1 DEF GoodReply, Agreed, SomethingSent
    <3>2. CASE pc = "erased"
      <4>1. Sent = {}
        BY <1>1, <1>7, <2>4, <3>2 DEF Proceed
      <4>2. \A e \in Entry : table[e] = Erased
        BY <1>7, <2>2, <3>2 DEF GoodReply
      <4>3. table = Blank
        BY <4>2 DEF Safe, TypeOK, Table, Blank
      <4> QED BY <4>1, <4>3 DEF Agreed
    <3> QED BY <1>7, <3>1, <3>2
  <2>5. UNCHANGED <<table, wanted>> => Agreed' = Agreed
    BY DEF Agreed, Sent
  <2> QED BY <1>1, <2>2, <2>3, <2>4, <2>5 DEF AnswerInv, Quiet
<1> QED BY <1>5, <1>6, <1>7 DEF Asking

LEMMA ReceiveTimeoutAnswers ==
  ASSUME Safe, AnswerInv, ReceiveTimeout, pc \in Asking PROVE AnswerInv'
<1>1. GiveUp /\ UNCHANGED <<requests, replies, work, table, wanted>>
  BY DEF ReceiveTimeout, device, network
<1>2. CASE pc = "entries" /\ pc' = pc
  <2>1. NoSum /\ \A i \in 1 .. Len(requests) : requests[i].kind # "checksum"
    BY <1>2 DEF AnswerInv, SumIsLast, QuestionIsLast, NoSum
  <2> QED BY <1>1, <1>2, <2>1 DEF AnswerInv, SumIsLast, QuestionIsLast, NoSum
<1>3. CASE pc' = "failed"
  BY <1>3 DEF AnswerInv, Asking
<1> QED BY <1>1, <1>2, <1>3 DEF GiveUp

(* The tool waits for nothing once it has come to an end.                  *)
AtTheEnd == pc \notin Asking => ~ waiting

LEMMA SomethingKept ==
  ASSUME SomethingSent, [Next]_vars PROVE SomethingSent'
<1>1. wanted' = wanted /\ Sent' = Sent
  BY DEF Next, Ground, Device, SendRequest, ReceiveReply, ReceiveTimeout, ClearTable, Checksum,
     TakePacket, WriteEntry, Lookup, LoseRequest, LoseReply, DeviceReset, vars, ground, Sent
<1>2. CASE pc' = pc
  BY <1>1, <1>2 DEF SomethingSent
<1>3. CASE Ground
  BY <1>1, <1>3 DEF SomethingSent, Ground, SendRequest, ReceiveReply, ReceiveTimeout, Proceed, GiveUp
<1>4. CASE ~ Ground
  <2>1. pc' = pc
    BY <1>4 DEF Next, Device, ClearTable, Checksum, TakePacket, WriteEntry, Lookup, LoseRequest,
       LoseReply, DeviceReset, vars, ground
  <2> QED BY <1>2, <2>1
<1> QED BY <1>3, <1>4

LEMMA EndKept ==
  ASSUME Safe, AtTheEnd, [Next]_vars PROVE AtTheEnd'
BY DEF AtTheEnd, Safe, TypeOK, Next, Ground, Device, SendRequest, ReceiveReply, ReceiveTimeout,
   ClearTable, Checksum, TakePacket, WriteEntry, Lookup, LoseRequest, LoseReply, DeviceReset,
   vars, ground

LEMMA DeviceAnswers ==
  ASSUME Safe, AnswerInv, Device PROVE AnswerInv'
<1>1. ~ Quiet /\ UNCHANGED <<pc, waiting, wanted>>
  BY DEF Device, ClearTable, Checksum, TakePacket, WriteEntry, NextRequest, Quiet, ground
<1>2. CASE pc \notin Asking
  BY <1>1, <1>2 DEF AnswerInv
<1> SUFFICES ASSUME pc \in Asking PROVE AnswerInv'
  BY <1>2
<1>3. NoSum /\ QuestionIsLast /\ pc' \in Asking /\ pc' # "ok"
  BY <1>1, BusyMeansNoSum DEF AnswerInv, Asking
<1> SUFFICES SumIsLast' /\ QuestionIsLast'
  BY <1>3 DEF AnswerInv
<1>4. CASE ClearTable
  <2>1. requests # <<>> /\ requests' = Tail(requests)
    BY <1>4 DEF ClearTable, NextRequest
  <2>2. NoSum'
    <3>1. PICK ok \in BOOLEAN : replies' = Append(replies, [kind |-> "ack", ok |-> ok])
      BY <1>4 DEF ClearTable, Reply
    <3> QED BY <1>3, <3>1, Acknowledged
  <2> QED BY <1>1, <1>3, <2>1, <2>2, FewerRequests, NoSumIsFine
<1>5. CASE Checksum
  <2> DEFINE x == [kind |-> "sum", of |-> table]
  <2>1. /\ requests # <<>> /\ requests' = Tail(requests) /\ Head(requests).kind = "checksum"
        /\ work = <<>> /\ replies' = Append(replies, x) /\ UNCHANGED <<work, table>>
    BY <1>5 DEF Checksum, NextRequest, Reply, device
  <2>2. requests \in Seq(Requests)
    BY DEF Safe, TypeOK
  <2>3. /\ requests[1] = Head(requests) /\ 1 \in 1 .. Len(requests)
        /\ Len(Tail(requests)) = Len(requests) - 1
    BY <2>1, <2>2, Rest
  <2>4. pc \in {"erased", "final"} /\ waiting /\ Len(requests) = 1
    BY <1>3, <2>1, <2>3 DEF QuestionIsLast
  <2>5. requests' = <<>>
    BY <2>1, <2>2, <2>3, <2>4
  <2>6. replies \in Seq(Replies) /\ x \in Replies
    BY DEF Safe, TypeOK, Replies
  <2>7. /\ Len(replies') = Len(replies) + 1
        /\ \A i \in 1 .. Len(replies) + 1 :
             replies'[i] = (IF i = Len(replies) + 1 THEN x ELSE replies[i])
             /\ (i # Len(replies) + 1 => i \in 1 .. Len(replies))
    BY <2>1, <2>6, More
  <2>8. SumIsLast'
    BY <1>1, <1>3, <2>1, <2>4, <2>5, <2>7 DEF SumIsLast, NoSum, Quiet
  <2>9. QuestionIsLast'
    BY <2>5 DEF QuestionIsLast
  <2> QED BY <2>8, <2>9
<1>6. CASE TakePacket
  <2>1. requests # <<>> /\ requests' = Tail(requests) /\ replies' = replies
    BY <1>6 DEF TakePacket, NextRequest
  <2>2. NoSum'
    BY <1>3, <2>1 DEF NoSum
  <2> QED BY <1>1, <1>3, <2>1, <2>2, FewerRequests, NoSumIsFine
<1>7. CASE WriteEntry
  <2>1. requests' = requests
    BY <1>7 DEF WriteEntry
  <2>2. NoSum'
    <3>1. CASE replies' = replies
      BY <1>3, <3>1 DEF NoSum
    <3>2. CASE \E ok \in BOOLEAN : replies' = Append(replies, [kind |-> "ack", ok |-> ok])
      BY <1>3, <3>2, Acknowledged
    <3>3. ASSUME NEW w, NEW success \in BOOLEAN, Returns(w, success) PROVE NoSum'
      <4>1. replies' = replies \/ replies' = Append(replies, [kind |-> "ack", ok |-> ~ failed'])
        BY <3>3 DEF Returns, Reply
      <4>2. PICK ok \in BOOLEAN : ok = ~ failed'
        OBVIOUS
      <4> QED BY <3>1, <3>2, <4>1, <4>2
    <3>4. CASE StartPage(Head(work)) \/ FillPage(Head(work))
      BY <3>3, <3>4 DEF StartPage, FillPage
    <3>5. CASE StorePage(Head(work))
      BY <3>3, <3>5 DEF StorePage, Stored
    <3> QED BY <1>7, <3>4, <3>5 DEF WriteEntry
  <2>3. QuestionIsLast'
    BY <1>1, <1>3, <2>1, <2>2 DEF QuestionIsLast
  <2> QED BY <2>2, <2>3, NoSumIsFine
<1> QED BY <1>4, <1>5, <1>6, <1>7 DEF Device

LEMMA TroubleAnswers ==
  ASSUME Safe, AnswerInv, LoseRequest \/ LoseReply \/ DeviceReset \/ Lookup PROVE AnswerInv'
<1>1. UNCHANGED <<pc, waiting, wanted>>
  BY DEF LoseRequest, LoseReply, DeviceReset, Lookup, ground
<1>2. CASE LoseRequest
  <2>1. requests # <<>> /\ requests' = Tail(requests) /\ UNCHANGED <<replies, table, work>>
    BY <1>2 DEF LoseRequest, device
  <2>2. ~ Quiet
    BY <2>1 DEF Quiet
  <2>3. ASSUME pc \in Asking PROVE SumIsLast' /\ QuestionIsLast'
    <3>1. NoSum /\ QuestionIsLast
      BY <2>2, <2>3, BusyMeansNoSum DEF AnswerInv
    <3>2. NoSum'
      BY <2>1, <3>1 DEF NoSum
    <3> QED BY <1>1, <2>1, <3>1, <3>2, FewerRequests, NoSumIsFine
  <2> QED BY <1>1, <2>2, <2>3 DEF AnswerInv
<1>3. CASE LoseReply
  <2>1. replies # <<>> /\ replies' = Tail(replies) /\ UNCHANGED <<requests, table, work>>
    BY <1>3 DEF LoseReply, device
  <2>2. pc \in Asking => SumIsLast' /\ QuestionIsLast'
    BY <1>1, <2>1, FewerReplies DEF AnswerInv
  <2> QED BY <1>1, <2>1, <2>2 DEF AnswerInv, Quiet, Agreed, Sent
<1>4. CASE DeviceReset
  <2>1. UNCHANGED <<requests, replies>> /\ work' = <<>> /\ (work = <<>> => table' = table)
    BY <1>4 DEF DeviceReset, Interrupted, network
  <2>2. NoSum' = NoSum
    BY <2>1 DEF NoSum
  <2>3. pc \in Asking => SumIsLast' /\ QuestionIsLast'
    BY <1>1, <2>1, <2>2 DEF AnswerInv, SumIsLast, QuestionIsLast, Quiet
  <2> QED BY <1>1, <2>1, <2>3 DEF AnswerInv, Quiet, Agreed, Sent
<1>5. CASE Lookup
  BY <1>1, <1>5 DEF Lookup, network, AnswerInv, SumIsLast, QuestionIsLast, NoSum, Quiet, Agreed, Sent
<1> QED BY <1>2, <1>3, <1>4, <1>5

LEMMA AlwaysAnswers ==
  Spec => [](Safe /\ AtTheEnd /\ SomethingSent /\ AnswerInv)
<1>1. Init => Safe /\ AtTheEnd /\ SomethingSent /\ AnswerInv
  <2> SUFFICES ASSUME Init PROVE AtTheEnd /\ SomethingSent /\ AnswerInv
    BY InitSafe
  <2>1. replies = <<>> /\ requests = <<>> /\ ~ waiting /\ pc = "clear"
    BY DEF Init
  <2> QED BY <2>1 DEF AtTheEnd, SomethingSent, AnswerInv, SumIsLast, QuestionIsLast, Asking
<1>2. Safe /\ AtTheEnd /\ SomethingSent /\ AnswerInv /\ [Next]_vars
      => (Safe /\ AtTheEnd /\ SomethingSent /\ AnswerInv)'
  <2> SUFFICES ASSUME Safe, AtTheEnd, SomethingSent, AnswerInv, [Next]_vars PROVE AnswerInv'
    BY NextSafe, EndKept, SomethingKept
  <2>1. CASE Ground
    <3>1. pc \in Asking
      BY <2>1 DEF Ground, AtTheEnd, SendRequest, ReceiveReply, ReceiveTimeout
    <3> QED BY <2>1, <3>1, SendRequestAnswers, ReceiveReplyAnswers, ReceiveTimeoutAnswers DEF Ground
  <2>2. CASE Device
    BY <2>2, DeviceAnswers
  <2>3. CASE Lookup \/ LoseRequest \/ LoseReply \/ DeviceReset
    BY <2>3, TroubleAnswers
  <2>4. CASE UNCHANGED vars
    BY <2>4 DEF vars, device, network, ground, AnswerInv, SumIsLast, QuestionIsLast, NoSum, Quiet, Agreed, Sent
  <2> QED BY <2>1, <2>2, <2>3, <2>4 DEF Next
<1> QED BY <1>1, <1>2, PTL DEF Spec

(* "Routing table check OK" is said of a device that holds the wanted      *)
(* table, and "Routing table ERASED" of one that holds none where there is *)
(* nothing to send, for every table and packet size and any number of lost *)
(* and late packets, worn cells and resets: no old answer is taken for the *)
(* last one.                                                               *)
THEOREM OkIsHonest == Spec => []OkMeansSet
<1>1. Safe /\ AtTheEnd /\ SomethingSent /\ AnswerInv => OkMeansSet
  BY DEF AnswerInv, OkMeansSet
<1> QED BY <1>1, AlwaysAnswers, PTL

-----------------------------------------------------------------------------
(***************************************************************************)
(* One loss.  While nothing has gone wrong but one lost packet, ground and *)
(* device go in step: one message is on its way or being handled, and the  *)
(* device has taken the first n of the entries sent.  They come in         *)
(* ascending order, so that each page is left before the next is begun and *)
(* is blank when it is programmed; no write fails.                         *)
(***************************************************************************)
Fine == mishaps \in {<<>>, <<"packet">>} /\ Sendable

Upto(p) == IF p * PacketEntries < NumOfEntries THEN p * PacketEntries ELSE NumOfEntries
Before == CASE pc = "entries" -> Upto(packet)
            [] pc = "final"   -> NumOfEntries
            [] OTHER          -> 0
After == IF pc = "entries" THEN Upto(packet + 1) ELSE Before

(* The device holds the first n entries.                                   *)
Holds(n) ==
  /\ clean
  /\ \A e \in Entry :
       written[e] = IF e \in Sent /\ Rank(Sent, e) <= n THEN wanted[e] ELSE Erased
  /\ n \in {0, NumOfEntries} => base = NoPage
  /\ n \notin {0, NumOfEntries} => \E e \in Sent : Rank(Sent, e) = n /\ base = PageOf(e)
  /\ n # NumOfEntries => \A e \in Entry : base = NoPage \/ base <= PageOf(e) => table[e] = Erased

(* w is the n-th entry.                                                    *)
IsEntry(w, n) ==
  IF n = NumOfEntries
    THEN w = [entry |-> Closing, value |-> Erased, last |-> TRUE]
    ELSE /\ w.entry \in Sent /\ Rank(Sent, w.entry) = n
         /\ w.value = wanted[w.entry] /\ ~ w.last

Ready(n) == n = Before /\ (pc = "clear" \/ Holds(n))
Entries(ws, n) ==
  Len(ws) = After - n /\ \A i \in 1 .. Len(ws) : IsEntry(ws[i], n + i)

Idle == requests = <<>> /\ replies = <<>> /\ work = <<>>
Asked(n) ==
  \E r \in Requests :
    /\ requests = <<r>> /\ replies = <<>> /\ work = <<>>
    /\ r.kind = (IF pc \in {"clear", "entries"} THEN pc ELSE "checksum")
    /\ r.kind = "entries" => Entries(r.writes, n)
Working(n) ==
  /\ requests = <<>> /\ replies = <<>> /\ work # <<>>
  /\ pc = "entries" /\ ~ failed /\ Entries(work, n)
Told ==
  \E r \in Replies :
    /\ requests = <<>> /\ replies = <<r>> /\ work = <<>>
    /\ IF pc \in {"clear", "entries"} THEN r.kind = "ack" /\ r.ok
                                      ELSE r.kind = "sum" /\ r.of = table
Lost == pc = "entries" /\ ~ retried /\ mishaps # <<>>

Stage(n) ==
  \/ ~ waiting /\ Idle /\ Ready(n)
  \/ waiting /\ Asked(n) /\ Ready(n)
  \/ waiting /\ Working(n) /\ Holds(n)
  \/ waiting /\ Told /\ n = After /\ Holds(n)
  \/ waiting /\ Idle /\ Ready(n) /\ Lost

InStep ==
  /\ pc # "failed"
  /\ mishaps = <<>> => ~ retried
  /\ pc \in {"clear", "erased"} => packet = 0
  /\ pc = "entries" => packet < PacketCount
  /\ pc \in Asking => \E n \in 0 .. NumOfEntries : Stage(n)
SurvivedInv == Fine => InStep

LEMMA RankOrder ==
  ASSUME NEW S \in SUBSET Nat, IsFiniteSet(S), NEW e \in S, NEW g \in S
  PROVE  /\ Rank(S, e) \in 1 .. Cardinality(S)
         /\ Rank(S, e) = Rank(S, g) => e = g
         /\ Rank(S, e) < Rank(S, g) => e < g
<1>1. /\ Rank(S, e) \in 1 .. Cardinality(S) /\ Rank(S, g) \in 1 .. Cardinality(S)
      /\ Cardinality(S) \in Nat
  BY RankInside, FS_CardinalityType
<1>2. (e < g => Rank(S, e) < Rank(S, g)) /\ (g < e => Rank(S, g) < Rank(S, e))
  BY RankGrows
<1>3. e < g \/ g < e \/ e = g
  OBVIOUS
<1> QED BY <1>1, <1>2, <1>3

LEMMA SentFinite ==
  /\ Sent \in SUBSET Entry /\ Entry \in SUBSET Nat /\ Sent \in SUBSET Nat
  /\ IsFiniteSet(Sent) /\ Cardinality(Sent) \in Nat
  /\ NumOfEntries \in Nat \ {0} /\ Cardinality(Sent) = NumOfEntries - 1
<1>1. Entry \in SUBSET Nat /\ IsFiniteSet(Entry)
  BY Sizes, FS_Interval DEF Entry
<1>2. Sent \in SUBSET Entry
  BY DEF Sent
<1>3. IsFiniteSet(Sent) /\ Cardinality(Sent) \in Nat
  BY <1>1, <1>2, FS_Subset, FS_CardinalityType
<1> QED BY <1>1, <1>2, <1>3 DEF NumOfEntries

LEMMA PagesInOrder ==
  ASSUME NEW e \in Nat, NEW g \in Nat, e <= g
  PROVE  PageOf(e) \in Nat /\ PageOf(g) \in Nat /\ PageOf(e) <= PageOf(g)
<1>1. Slots \in Nat \ {0}
  BY RoutingAssumption
<1> DEFINE q == e \div Slots
           r == g \div Slots
<1>2. q \in Nat /\ r \in Nat /\ Slots * q <= e /\ g < Slots * (r + 1)
  BY <1>1, SMT
<1>3. ~ (r + 1 <= q)
  <2>1. ASSUME r + 1 <= q PROVE Slots * (r + 1) <= Slots * q
    BY <1>1, <1>2, <2>1, SMT
  <2> HIDE DEF q, r
  <2>2. Slots * (r + 1) \in Nat /\ Slots * q \in Nat
    BY <1>1, <1>2
  <2> QED BY <1>2, <2>1, <2>2
<1> HIDE DEF q, r
<1>4. q <= r
  BY <1>2, <1>3
<1> QED BY <1>2, <1>4 DEF PageOf, q, r

LEMMA PacketsLeft ==
  ASSUME NEW p \in Nat
  PROVE  /\ PacketCount \in Nat /\ p * PacketEntries \in Nat /\ Upto(p) \in 0 .. NumOfEntries
         /\ p < PacketCount <=> p * PacketEntries < NumOfEntries
<1>1. PacketEntries \in Nat \ {0} /\ NumOfEntries \in Nat \ {0}
  BY RoutingAssumption, SentFinite
<1> DEFINE N == NumOfEntries
           E == PacketEntries
           q == (N + E - 1) \div E
<1> HIDE DEF N, E
<1>2. N \in Nat \ {0} /\ E \in Nat \ {0} /\ N + E - 1 \in Nat
  BY <1>1 DEF N, E
<1>3. q \in Nat /\ E * q <= N + E - 1 /\ N + E - 1 < E * (q + 1)
  BY <1>2, SMT
<1> HIDE DEF q
<1>4. p * E \in Nat /\ E * q \in Nat /\ E * (q + 1) = E * q + E /\ (p + 1) * E = p * E + E
  BY <1>2, <1>3, SMT
<1>5. ASSUME p < q PROVE p * E < N
  <2>1. (p + 1) * E <= E * q
    BY <1>2, <1>3, <1>5, SMT
  <2> QED BY <1>2, <1>3, <1>4, <2>1
<1>6. ASSUME ~ (p < q) PROVE ~ (p * E < N)
  <2>1. E * q <= p * E
    BY <1>2, <1>3, <1>6, SMT
  <2> QED BY <1>2, <1>3, <1>4, <2>1
<1> QED BY <1>1, <1>3, <1>4, <1>5, <1>6 DEF N, E, q, PacketCount, Upto

LEMMA EntryFits ==
  ASSUME NEW n \in 1 .. NumOfEntries PROVE IsEntry(EntryAt(n), n)
<1>1. CASE n = NumOfEntries
  BY <1>1 DEF EntryAt, IsEntry
<1>2. CASE n # NumOfEntries
  <2>1. \E e \in Sent : Cardinality({ f \in Sent : f <= e }) = n
    BY <1>2, SentFinite, RankExists DEF Rank
  <2> DEFINE e == CHOOSE g \in Sent : Cardinality({ f \in Sent : f <= g }) = n
  <2>2. e \in Sent /\ Rank(Sent, e) = n
    BY <2>1 DEF Rank
  <2>3. EntryAt(n) = [entry |-> e, value |-> wanted[e], last |-> FALSE]
    BY <1>2 DEF EntryAt
  <2> HIDE DEF e
  <2> QED BY <1>2, <2>2, <2>3 DEF IsEntry
<1> QED BY <1>1, <1>2

LEMMA PacketFits ==
  ASSUME pc = "entries", packet \in Nat, packet < PacketCount
  PROVE  /\ Entries(EntriesOf(packet), Before) /\ EntriesOf(packet) # <<>>
         /\ Before \in 0 .. NumOfEntries - 1 /\ After \in 1 .. NumOfEntries /\ Before < After
<1> DEFINE first == packet * PacketEntries
           size == IF NumOfEntries - first > PacketEntries
                     THEN PacketEntries ELSE NumOfEntries - first
<1>1. PacketEntries \in Nat \ {0} /\ NumOfEntries \in Nat \ {0}
  BY RoutingAssumption, SentFinite
<1>2. first \in Nat /\ first < NumOfEntries /\ (packet + 1) * PacketEntries = first + PacketEntries
  BY <1>1, PacketsLeft
<1>3. EntriesOf(packet) = [i \in 1 .. size |-> EntryAt(first + i)]
  BY DEF EntriesOf
<1> HIDE DEF first
<1>4. Before = first
  BY <1>2 DEF Before, Upto, first
<1>5. After = IF first + PacketEntries < NumOfEntries THEN first + PacketEntries ELSE NumOfEntries
  BY <1>2 DEF After, Upto
<1>6. size \in Nat \ {0} /\ size = After - Before /\ first + size <= NumOfEntries
  BY <1>1, <1>2, <1>4, <1>5
<1> HIDE DEF size
<1>7. \A i \in 1 .. size : IsEntry(EntryAt(first + i), first + i)
  <2> SUFFICES ASSUME NEW i \in 1 .. size PROVE first + i \in 1 .. NumOfEntries
    BY EntryFits
  <2> QED BY <1>1, <1>2, <1>6
<1>8. Len(EntriesOf(packet)) = size /\ \A i \in 1 .. size : EntriesOf(packet)[i] = EntryAt(first + i)
  BY <1>3, <1>6
<1>9. EntriesOf(packet) # <<>>
  BY <1>6, <1>8
<1>10. Entries(EntriesOf(packet), Before)
  BY <1>4, <1>6, <1>7, <1>8 DEF Entries
<1> QED BY <1>1, <1>2, <1>4, <1>5, <1>9, <1>10

(* A write of the next entry succeeds.                                     *)
LEMMA WriteHolds ==
  ASSUME Safe, NEW n \in 0 .. NumOfEntries - 1, Holds(n), ~ failed,
         WriteEntry, IsEntry(Head(work), n + 1)
  PROVE  /\ Holds(n + 1)' /\ ~ failed' /\ work' = Tail(work)
         /\ IF work' = <<>> THEN replies' = Append(replies, [kind |-> "ack", ok |-> TRUE])
                            ELSE UNCHANGED replies
<1> DEFINE w == Head(work)
<1>1. work # <<>> /\ w \in GoodWrite /\ w \in Write /\ w.entry \in Entry
  BY Queued, WriteIsRequest DEF WriteEntry, Safe, Closed, GoodWrite, Write
<1>2. StartPage(w) \/ FillPage(w) \/ StorePage(w)
  BY DEF WriteEntry
<1>3. IsEntry(w, n + 1)
  OBVIOUS
<1>4. UNCHANGED wanted /\ Sent' = Sent /\ NumOfEntries' = NumOfEntries
  BY DEF WriteEntry, ground, Sent, NumOfEntries
<1> HIDE DEF w
<1>5. /\ n \in Nat /\ NumOfEntries \in Nat /\ n + 1 <= NumOfEntries /\ n # NumOfEntries
      /\ clean /\ base \in TablePage \cup {NoPage} /\ table \in Table /\ shadow \in Table
      /\ written \in Table /\ NoPage \notin TablePage
      /\ \A e \in Entry : base = NoPage \/ base <= PageOf(e) => table[e] = Erased
      /\ \A e \in Entry : PageOf(e) \in TablePage
  BY SentFinite, RoutingAssumption, Sizes DEF Safe, TypeOK, Holds
<1>6. /\ w.last <=> n + 1 = NumOfEntries
      /\ ~ w.last => w.entry \in Sent /\ Rank(Sent, w.entry) = n + 1 /\ w.value = wanted[w.entry]
      /\ w.last => w.entry = Closing /\ w.value = Erased
  BY <1>3 DEF IsEntry
<1>7. n = 0 <=> base = NoPage
  <2>1. n = 0 => base = NoPage
    BY DEF Holds
  <2>2. ASSUME n # 0 PROVE base # NoPage
    <3>1. PICK e \in Sent : base = PageOf(e)
      BY <1>5, <2>2 DEF Holds
    <3> QED BY <1>5, <3>1, SentFinite
  <2> QED BY <2>1, <2>2
<1>8. ASSUME base # NoPage, ~ w.last PROVE base <= PageOf(w.entry)
  <2>1. PICK e \in Sent : Rank(Sent, e) = n /\ base = PageOf(e)
    BY <1>5, <1>7, <1>8 DEF Holds
  <2>2. e < w.entry
    <3>1. w.entry \in Sent /\ Rank(Sent, w.entry) = n + 1 /\ n + 1 > n
      BY <1>5, <1>6, <1>8
    <3>2. Rank(Sent, e) < Rank(Sent, w.entry) => e < w.entry
      BY ONLY <3>1, e \in Sent, SentFinite, RankOrder
    <3> QED BY <2>1, <3>1, <3>2
  <2>3. e \in Nat /\ w.entry \in Nat
    BY <1>1, SentFinite
  <2> QED BY <2>1, <2>2, <2>3, PagesInOrder
<1>9. \A t \in Table : base # NoPage => Stored(t)
  <2> SUFFICES ASSUME NEW t \in Table, base # NoPage, NEW e \in Entry, InPage(e, base)
               PROVE  Programmed(t)[e] = t[e]
    BY DEF Stored
  <2>1. base <= PageOf(e)
    BY <1>5 DEF InPage, TablePage
  <2>2. table[e] = Erased
    BY <1>5, <2>1
  <2>3. t[e] \subseteq Erased
    BY DEF Table, Erased
  <2>4. Programmed(t)[e] = table[e] \cap t[e]
    BY <1>5, ProgrammedTable
  <2> QED BY <2>2, <2>3, <2>4
<1>10. Returns(w, TRUE)
  <2>1. CASE StartPage(w) \/ FillPage(w)
    BY <2>1 DEF StartPage, FillPage
  <2>2. CASE StorePage(w)
    <3> DEFINE page == IF base = PageOf(w.entry) THEN Filled(shadow, w) ELSE shadow
    <3>1. page \in Table
      BY <1>1, <1>5, FilledTable
    <3>2. base # NoPage /\ Returns(w, Stored(page))
      BY <2>2 DEF StorePage
    <3>3. Stored(page) = TRUE
      BY <1>9, <3>1, <3>2 DEF Stored
    <3> HIDE DEF page
    <3> QED BY <3>2, <3>3
  <2> QED BY <1>2, <2>1, <2>2
<1>11. /\ failed' = failed /\ work' = Tail(work) /\ clean' = clean
       /\ IF work' = <<>> THEN replies' = Append(replies, [kind |-> "ack", ok |-> ~ failed'])
                          ELSE UNCHANGED replies
       /\ written' = Filled(written, w)
  <2>1. failed \in BOOLEAN /\ clean \in BOOLEAN
    BY DEF Safe, TypeOK
  <2> QED BY <1>10, <2>1 DEF Returns, Reply, Filled
<1>12. \A e \in Entry : written'[e] =
         IF e \in Sent /\ Rank(Sent, e) <= n + 1 THEN wanted[e] ELSE Erased
  <2> SUFFICES ASSUME NEW e \in Entry
               PROVE  written'[e] = IF e \in Sent /\ Rank(Sent, e) <= n + 1 THEN wanted[e] ELSE Erased
    OBVIOUS
  <2>1. written'[e] = IF e = w.entry THEN w.value ELSE written[e]
    BY <1>1, <1>5, <1>11, FilledTable
  <2>2. written[e] = IF e \in Sent /\ Rank(Sent, e) <= n THEN wanted[e] ELSE Erased
    BY DEF Holds
  <2>3. CASE ~ w.last
    <3>1. CASE e = w.entry
      BY <1>5, <1>6, <2>1, <2>3, <3>1
    <3>2. CASE e # w.entry
      <4>1. e \in Sent => Rank(Sent, e) # n + 1 /\ Rank(Sent, e) \in Nat
        <5>1. w.entry \in Sent /\ Rank(Sent, w.entry) = n + 1
          BY <1>6, <2>3
        <5>2. ASSUME e \in Sent
              PROVE  Rank(Sent, e) = Rank(Sent, w.entry) => e = w.entry
          BY ONLY <5>1, <5>2, SentFinite, RankOrder
        <5>3. ASSUME e \in Sent PROVE Rank(Sent, e) \in 1 .. Cardinality(Sent)
          BY ONLY <5>3, SentFinite, RankOrder
        <5> QED BY <3>2, <5>1, <5>2, <5>3, SentFinite
      <4>2. e \in Sent => (Rank(Sent, e) <= n + 1 <=> Rank(Sent, e) <= n)
        BY <1>5, <4>1
      <4> QED BY <2>1, <2>2, <3>2, <4>2
    <3> QED BY <3>1, <3>2
  <2>4. CASE w.last
    <3>1. Closing \notin Sent
      BY RoutingAssumption DEF Sent, Safe, Closed
    <3>2. e \in Sent => Rank(Sent, e) <= n /\ Rank(Sent, e) <= n + 1
      <4>1. e \in Sent => Rank(Sent, e) \in 1 .. NumOfEntries - 1
        BY SentFinite, RankOrder
      <4> QED BY <1>5, <1>6, <2>4, <4>1
    <3>3. CASE e = Closing
      BY <1>6, <2>1, <2>4, <3>1, <3>3
    <3>4. CASE e # Closing
      BY <1>6, <2>1, <2>2, <2>4, <3>2, <3>4
    <3> QED BY <3>3, <3>4
  <2> QED BY <2>3, <2>4
<1>13. base' = (IF w.last THEN NoPage ELSE PageOf(w.entry))
  <2>1. CASE StartPage(w)
    BY <2>1 DEF StartPage
  <2>2. CASE FillPage(w)
    BY <2>2 DEF FillPage
  <2>3. CASE StorePage(w)
    <3>1. Stored(IF base = PageOf(w.entry) THEN Filled(shadow, w) ELSE shadow)
      <4>1. (IF base = PageOf(w.entry) THEN Filled(shadow, w) ELSE shadow) \in Table
        BY <1>1, <1>5, FilledTable
      <4> QED BY <1>9, <2>3, <4>1 DEF StorePage
    <3> QED BY <2>3, <3>1 DEF StorePage
  <2> QED BY <1>2, <2>1, <2>2, <2>3
<1>14. ASSUME ~ w.last, NEW e \in Entry, base' <= PageOf(e) PROVE table'[e] = Erased
  <2>1. base' = PageOf(w.entry)
    BY <1>13, <1>14
  <2>2. table[e] = Erased
    <3>1. CASE base = NoPage
      BY <1>5, <3>1
    <3>2. CASE base # NoPage
      <4>1. base \in Nat /\ PageOf(w.entry) \in Nat /\ PageOf(e) \in Nat
        BY <1>1, <1>5, <3>2 DEF TablePage
      <4>2. base <= PageOf(e)
        BY <1>8, <1>14, <2>1, <3>2, <4>1
      <4> QED BY <1>5, <4>2
    <3> QED BY <3>1, <3>2
  <2>3. CASE StartPage(w) \/ FillPage(w)
    BY <2>2, <2>3 DEF StartPage, FillPage
  <2>4. CASE StorePage(w)
    <3> DEFINE page == IF base = PageOf(w.entry) THEN Filled(shadow, w) ELSE shadow
    <3>1. page \in Table
      BY <1>1, <1>5, FilledTable
    <3>2. table' = Programmed(page) /\ base # NoPage /\ base # PageOf(w.entry)
      BY <1>14, <2>4 DEF StorePage
    <3> HIDE DEF page
    <3>3. base \in Nat /\ PageOf(w.entry) \in Nat /\ PageOf(e) \in Nat
      BY <1>1, <1>5, <3>2 DEF TablePage
    <3>4. ~ InPage(e, base)
      BY <1>8, <1>14, <2>1, <3>2, <3>3 DEF InPage
    <3> QED BY <1>5, <2>2, <3>1, <3>2, <3>4, ProgrammedTable
  <2> QED BY <1>2, <2>3, <2>4
<1>15. Holds(n + 1)'
  <2>1. clean'
    BY <1>5, <1>11
  <2>2. CASE w.last
    <3>1. n + 1 = NumOfEntries /\ base' = NoPage
      BY <1>6, <1>13, <2>2
    <3> QED BY <1>4, <1>12, <2>1, <3>1 DEF Holds
  <2>3. CASE ~ w.last
    <3>1. /\ n + 1 # NumOfEntries /\ n + 1 # 0 /\ base' = PageOf(w.entry)
          /\ w.entry \in Sent /\ Rank(Sent, w.entry) = n + 1
      BY <1>5, <1>6, <1>13, <2>3
    <3>2. \A e \in Entry : base' = NoPage \/ base' <= PageOf(e) => table'[e] = Erased
      BY <1>1, <1>5, <1>14, <2>3, <3>1
    <3> QED BY <1>4, <1>12, <2>1, <3>1, <3>2 DEF Holds
  <2> QED BY <2>2, <2>3
<1> QED BY <1>11, <1>15

LEMMA Happened ==
  ASSUME mishaps \in Seq(Mishap), NEW what \in Mishap, Happen(what),
         mishaps' \in {<<>>, <<"packet">>}
  PROVE  mishaps = <<>> /\ what = "packet"
<1>1. mishaps' = Append(mishaps, what)
  BY DEF Happen
<1>2. Len(mishaps') = Len(mishaps) + 1 /\ Len(mishaps) \in Nat /\ mishaps'[Len(mishaps) + 1] = what
  BY <1>1
<1>3. mishaps' = <<"packet">>
  BY <1>2
<1>4. Len(mishaps) = 0 /\ what = "packet"
  BY <1>2, <1>3
<1> QED BY <1>4, LengthZero

LEMMA WantedKept ==
  ASSUME UNCHANGED wanted
  PROVE  Sent' = Sent /\ NumOfEntries' = NumOfEntries /\ PacketCount' = PacketCount
         /\ Sendable' = Sendable
BY DEF Sent, NumOfEntries, PacketCount, Sendable

LEMMA MarksKept ==
  ASSUME UNCHANGED <<wanted, pc, packet>>
  PROVE  Before' = Before /\ After' = After
BY WantedKept DEF Before, After, Upto

LEMMA HoldsKept ==
  ASSUME UNCHANGED <<clean, written, base, table, wanted>>, NEW n, Holds(n) PROVE Holds(n)'
BY WantedKept DEF Holds

LEMMA EntryKept ==
  ASSUME UNCHANGED wanted, NEW w, NEW n PROVE IsEntry(w, n)' <=> IsEntry(w, n)
BY WantedKept DEF IsEntry

LEMMA EntriesKept ==
  ASSUME UNCHANGED <<wanted, pc, packet>>, NEW ws, NEW n, Entries(ws, n) PROVE Entries(ws, n)'
BY MarksKept, EntryKept DEF Entries

(* What may have gone wrong before a step after which all is fine.         *)
LEMMA WasFine ==
  ASSUME Safe, [Next]_vars, Fine'
  PROVE  /\ Fine
         /\ \/ UNCHANGED mishaps
            \/ LoseRequest /\ mishaps = <<>> /\ mishaps' # <<>> /\ Head(requests).kind = "entries"
<1>1. UNCHANGED wanted
  BY DEF Next, Ground, Device, SendRequest, ReceiveReply, ReceiveTimeout, ClearTable, Checksum,
     TakePacket, WriteEntry, Lookup, LoseRequest, LoseReply, DeviceReset, vars, ground
<1>2. Sendable /\ mishaps \in Seq(Mishap) /\ mishaps' \in {<<>>, <<"packet">>}
  BY <1>1, WantedKept DEF Fine, Safe, TypeOK
<1>3. CASE UNCHANGED mishaps
  BY <1>2, <1>3 DEF Fine
<1>4. CASE ReceiveTimeout \/ ClearTable
  <2>1. UNCHANGED mishaps \/ Happen("late") \/ Happen("worn")
    BY <1>4 DEF ReceiveTimeout, ClearTable
  <2> QED BY <1>2, <1>3, <2>1, Happened DEF Mishap
<1>5. CASE LoseReply
  <2>1. Happen("ack") \/ Happen("reply")
    BY <1>5 DEF LoseReply
  <2> QED BY <1>2, <2>1, Happened DEF Mishap
<1>6. CASE DeviceReset
  <2>1. Happen("reset")
    BY <1>6 DEF DeviceReset
  <2> QED BY <1>2, <2>1, Happened DEF Mishap
<1>7. CASE LoseRequest
  <2>1. \/ Happen("packet") /\ Head(requests).kind = "entries"
        \/ Happen("request")
    BY <1>7 DEF LoseRequest
  <2>2. Happen("packet") /\ Head(requests).kind = "entries"
    BY <1>2, <2>1, Happened DEF Mishap
  <2>3. mishaps = <<>> /\ mishaps' = Append(mishaps, "packet")
    BY <1>2, <2>2, Happened DEF Mishap, Happen
  <2>4. mishaps' # <<>>
    BY <1>2, <2>3
  <2> QED BY <1>2, <1>7, <2>2, <2>3, <2>4 DEF Fine
<1>8. CASE SendRequest \/ ReceiveReply \/ Checksum \/ TakePacket \/ WriteEntry \/ Lookup
           \/ UNCHANGED vars
  <2>1. UNCHANGED mishaps
    BY <1>8 DEF SendRequest, ReceiveReply, Checksum, TakePacket, WriteEntry, Lookup, history, vars
  <2> QED BY <1>3, <2>1
<1> QED BY <1>4, <1>5, <1>6, <1>7, <1>8 DEF Next, Ground, Device

(* A step that leaves the session where it is.                             *)
LEMMA StageLeft ==
  ASSUME InStep, UNCHANGED <<wanted, pc, packet, retried>>, mishaps = <<>> \/ mishaps' # <<>>,
         NEW n \in 0 .. NumOfEntries, Stage(n)'
  PROVE  (mishaps' = <<>> => mishaps = <<>>) => InStep'
BY WantedKept DEF InStep

LEMMA SendRequestSteps ==
  ASSUME Safe, InStep, SendRequest PROVE InStep'
<1>1. /\ pc \in Asking /\ ~ waiting /\ waiting' = TRUE /\ requests' = Append(requests, Request)
      /\ UNCHANGED <<table, base, work, failed, clean, written, replies, wanted, pc, packet,
                     retried, mishaps>>
  BY DEF SendRequest, device, history
<1>2. PICK n \in 0 .. NumOfEntries : Stage(n)
  BY <1>1 DEF InStep
<1>3. Idle /\ Ready(n)
  BY <1>1, <1>2 DEF Stage
<1>4. Ready(n)'
  BY <1>1, <1>3, HoldsKept, MarksKept DEF Ready
<1>5. requests' = <<Request>> /\ replies' = <<>> /\ work' = <<>>
  BY <1>1, <1>3 DEF Idle
<1>6. Request \in Requests
  BY RequestSent, WriteIsRequest DEF Safe, TypeOK, Closed
<1>7. Request.kind = (IF pc \in {"clear", "entries"} THEN pc ELSE "checksum")
  BY <1>1 DEF Request, Asking
<1>8. ASSUME Request.kind = "entries" PROVE Entries(Request.writes, n)
  <2>1. pc = "entries" /\ Request.writes = EntriesOf(packet)
    BY <1>7, <1>8 DEF Request
  <2> QED BY <1>3, <2>1, PacketFits DEF Ready, InStep, Safe, TypeOK
<1>9. Asked(n)'
  <2>1. PICK r \in Requests : r = Request
    BY <1>6
  <2>2. r.kind = "entries" => Entries(r.writes, n)'
    BY <1>1, <1>8, <2>1, EntriesKept
  <2> QED BY <1>1, <1>5, <1>7, <2>1, <2>2 DEF Asked
<1>10. Stage(n)'
  BY <1>1, <1>4, <1>9 DEF Stage
<1> QED BY <1>1, <1>10, StageLeft

LEMMA ReceiveTimeoutSteps ==
  ASSUME Safe, AtTheEnd, InStep, ReceiveTimeout, UNCHANGED mishaps PROVE InStep'
<1>1. /\ waiting /\ waiting' = FALSE /\ GiveUp
      /\ UNCHANGED <<table, base, work, failed, clean, written, requests, replies, wanted>>
  BY DEF ReceiveTimeout, device, history, network
<1>2. pc \in Asking
  BY <1>1 DEF AtTheEnd
<1>3. ~ AnswerComes
  <2>1. AnswerComes => Happen("late")
    BY DEF ReceiveTimeout
  <2>2. Happen("late") => mishaps' = Append(mishaps, "late")
    BY DEF Happen
  <2>3. mishaps \in Seq(Mishap) /\ "late" \in Mishap
    BY DEF Safe, TypeOK, Mishap
  <2>4. Append(mishaps, "late") # mishaps
    <3>1. Len(Append(mishaps, "late")) = Len(mishaps) + 1 /\ Len(mishaps) \in Nat
      BY <2>3
    <3> QED BY <3>1
  <2> QED BY <2>1, <2>2, <2>4
<1>4. PICK n \in 0 .. NumOfEntries : Stage(n)
  BY <1>2 DEF InStep
<1>5. Idle
  BY <1>3 DEF AnswerComes, Idle
<1>6. ~ Asked(n) /\ ~ Working(n) /\ ~ Told
  BY <1>5 DEF Idle, Asked, Working, Told
<1>7. Ready(n) /\ Lost
  BY <1>1, <1>4, <1>6 DEF Stage
<1>8. retried' = TRUE /\ UNCHANGED <<pc, packet>> /\ mishaps # <<>>
  BY <1>1, <1>7 DEF GiveUp, Lost
<1>9. Ready(n)' /\ Idle'
  BY <1>1, <1>5, <1>7, <1>8, HoldsKept, MarksKept DEF Ready, Idle
<1>10. Stage(n)'
  BY <1>1, <1>9 DEF Stage
<1>11. PacketCount' = PacketCount /\ NumOfEntries' = NumOfEntries
  BY <1>1, WantedKept
<1> QED BY <1>8, <1>10, <1>11 DEF InStep

(* What was asked for is there when the last checksum is.                  *)
LEMMA AllHeld ==
  ASSUME Safe, Sendable, Sent # {}, Holds(NumOfEntries) PROVE table = wanted
<1>1. table \in Table /\ written \in Table /\ wanted \in Table /\ NumOfEntries \in Nat
  BY SentFinite DEF Safe, TypeOK
<1>2. clean /\ base = NoPage
  BY DEF Holds
<1>3. \A e \in Entry : table[e] = written[e]
  BY <1>2 DEF Safe, StoredInv
<1>4. ASSUME NEW e \in Entry PROVE written[e] = wanted[e]
  <2>1. written[e] = IF e \in Sent /\ Rank(Sent, e) <= NumOfEntries THEN wanted[e] ELSE Erased
    BY DEF Holds
  <2>2. CASE e \in Sent
    <3>1. Rank(Sent, e) \in 1 .. NumOfEntries - 1
      BY <2>2, SentFinite, RankOrder
    <3> QED BY <1>1, <2>1, <2>2, <3>1
  <2>3. CASE e \notin Sent
    BY <2>1, <2>3 DEF Sent, Sendable
  <2> QED BY <2>2, <2>3
<1>5. \A e \in Entry : table[e] = wanted[e]
  BY <1>3, <1>4
<1> QED BY <1>1, <1>5 DEF Table

LEMMA OneHead ==
  ASSUME NEW s, NEW x, s = <<x>> PROVE s # <<>> /\ Head(s) = x /\ Tail(s) = <<>>
OBVIOUS

LEMMA ReceiveReplySteps ==
  ASSUME Safe, AtTheEnd, SomethingSent, Sendable, InStep, ReceiveReply PROVE InStep'
<1>1. /\ waiting /\ replies # <<>> /\ waiting' = FALSE /\ replies' = Tail(replies)
      /\ IF GoodReply(Head(replies)) THEN Proceed ELSE GiveUp
      /\ UNCHANGED <<table, base, work, failed, clean, written, requests, wanted, mishaps>>
  BY DEF ReceiveReply, device, history
<1>2. pc \in Asking
  BY <1>1 DEF AtTheEnd
<1>3. PICK n \in 0 .. NumOfEntries : Stage(n)
  BY <1>2 DEF InStep
<1>4. ~ Idle /\ ~ Asked(n) /\ ~ Working(n)
  BY <1>1 DEF Idle, Asked, Working
<1>5. Told /\ n = After /\ Holds(n)
  BY <1>1, <1>3, <1>4 DEF Stage
<1>6. PICK r \in Replies :
        /\ requests = <<>> /\ replies = <<r>> /\ work = <<>>
        /\ IF pc \in {"clear", "entries"} THEN r.kind = "ack" /\ r.ok
                                          ELSE r.kind = "sum" /\ r.of = table
  BY <1>5 DEF Told
<1>7. Head(replies) = r /\ replies' = <<>>
  BY <1>1, <1>6, OneHead
<1>8. NumOfEntries \in Nat \ {0} /\ packet \in Nat
  BY SentFinite DEF Safe, TypeOK
<1>9. GoodReply(r)
  <2>1. CASE pc \in {"clear", "entries"}
    BY <1>6, <2>1 DEF GoodReply
  <2>2. CASE pc = "erased"
    <3>1. n = 0 /\ n # NumOfEntries /\ base = NoPage
      BY <1>5, <1>8, <2>2 DEF After, Before, Holds
    <3>2. \A e \in Entry : table[e] = Erased
      BY <1>5, <3>1 DEF Holds
    <3> QED BY <1>6, <2>2, <3>2 DEF GoodReply
  <2>3. CASE pc = "final"
    <3>1. n = NumOfEntries /\ Sent # {}
      BY <1>5, <2>3 DEF After, Before, SomethingSent
    <3>2. table = wanted
      BY <1>5, <3>1, AllHeld
    <3> QED BY <1>6, <2>3, <3>2 DEF GoodReply
  <2> QED BY <1>2, <2>1, <2>2, <2>3 DEF Asking
<1>10. Proceed
  BY <1>1, <1>7, <1>9
<1>11. retried' = FALSE
  BY <1>10 DEF Proceed
<1>12. NumOfEntries' = NumOfEntries /\ PacketCount' = PacketCount
  BY <1>1, WantedKept
<1>13. Holds(n)' /\ Idle'
  BY <1>1, <1>5, <1>6, <1>7, HoldsKept DEF Idle
<1>14. CASE pc' = "ok"
  BY <1>11, <1>14 DEF InStep, Asking
<1>15. CASE pc' # "ok"
  <2>1. /\ pc' # "failed" /\ n = Before'
        /\ pc' \in {"clear", "erased"} => packet' = 0
        /\ pc' = "entries" => packet' < PacketCount
    <3>1. CASE pc = "clear"
      <4>1. pc' = "erased" /\ packet' = packet /\ packet = 0 /\ n = 0
        BY <1>5, <1>10, <3>1 DEF Proceed, InStep, After, Before
      <4> QED BY <4>1 DEF Before
    <3>2. CASE pc = "erased"
      <4>1. pc' = "entries" /\ packet' = packet /\ packet = 0 /\ n = 0
        BY <1>5, <1>10, <1>15, <3>2 DEF Proceed, InStep, After, Before
      <4>2. 0 * PacketEntries = 0 /\ 0 < PacketCount
        BY <1>8, RoutingAssumption, PacketsLeft
      <4>3. Before' = 0
        BY <1>1, <1>8, <1>12, <4>1, <4>2 DEF Before, Upto
      <4> QED BY <4>1, <4>2, <4>3
    <3>3. CASE pc = "entries"
      <4>1. /\ packet' = packet + 1 /\ n = Upto(packet + 1) /\ packet < PacketCount
            /\ pc' = IF packet + 1 = PacketCount THEN "final" ELSE "entries"
        BY <1>5, <1>10, <3>3 DEF Proceed, After, InStep
      <4>3. PacketCount \in Nat /\ (packet + 1 # PacketCount => packet + 1 < PacketCount)
        BY <1>8, <4>1, PacketsLeft
      <4>4. packet + 1 = PacketCount => Upto(packet + 1) = NumOfEntries
        BY <1>8, <4>3, PacketsLeft DEF Upto
      <4>5. Before' = n
        <5>1. CASE packet + 1 = PacketCount
          BY <1>12, <4>1, <4>4, <5>1 DEF Before
        <5>2. CASE packet + 1 # PacketCount
          BY <1>12, <4>1, <5>2 DEF Before, Upto
        <5> QED BY <5>1, <5>2
      <4> QED BY <4>1, <4>3, <4>5
    <3>4. CASE pc = "final"
      BY <1>10, <1>15, <3>4 DEF Proceed
    <3> QED BY <1>2, <3>1, <3>2, <3>3, <3>4 DEF Asking
  <2>2. Stage(n)'
    BY <1>1, <1>13, <2>1 DEF Stage, Ready
  <2> QED BY <1>11, <1>12, <2>1, <2>2 DEF InStep
<1> QED BY <1>14, <1>15

LEMMA ClearTableSteps ==
  ASSUME Safe, AtTheEnd, InStep, ClearTable, UNCHANGED mishaps PROVE InStep'
<1>1. /\ requests # <<>> /\ Head(requests).kind = "clear" /\ requests' = Tail(requests)
      /\ replies' = Append(replies, [kind |-> "ack", ok |-> table' = Blank])
      /\ base' = NoPage /\ written' = Blank /\ clean' = (table' = Blank)
      /\ UNCHANGED <<work, wanted, pc, packet, retried, waiting>>
  BY DEF ClearTable, NextRequest, Reply, ground
<1>2. table' = Blank
  <2>1. table' = Blank \/ Happen("worn")
    BY DEF ClearTable
  <2>2. Happen("worn") => mishaps' = Append(mishaps, "worn")
    BY DEF Happen
  <2>3. mishaps \in Seq(Mishap) /\ "worn" \in Mishap
    BY DEF Safe, TypeOK, Mishap
  <2>4. Append(mishaps, "worn") # mishaps
    <3>1. Len(Append(mishaps, "worn")) = Len(mishaps) + 1 /\ Len(mishaps) \in Nat
      BY <2>3
    <3> QED BY <3>1
  <2> QED BY <2>1, <2>2, <2>4
<1>3. CASE pc \notin Asking
  BY <1>1, <1>3, WantedKept DEF InStep, Asking
<1>4. CASE pc \in Asking
  <2>1. PICK n \in 0 .. NumOfEntries : Stage(n)
    BY <1>4 DEF InStep
  <2>2. ~ Idle /\ ~ Working(n) /\ ~ Told
    BY <1>1 DEF Idle, Working, Told
  <2>3. waiting /\ Asked(n) /\ Ready(n)
    BY <2>1, <2>2 DEF Stage
  <2>4. PICK r \in Requests :
          /\ requests = <<r>> /\ replies = <<>> /\ work = <<>>
          /\ r.kind = (IF pc \in {"clear", "entries"} THEN pc ELSE "checksum")
    BY <2>3 DEF Asked
  <2>5. pc = "clear" /\ requests' = <<>>
    BY <1>1, <1>4, <2>4, OneHead DEF Asking
  <2>6. n = 0 /\ After' = 0
    BY <1>1, <2>3, <2>5 DEF Ready, Before, After
  <2>7. NumOfEntries' = NumOfEntries /\ NumOfEntries \in Nat \ {0} /\ Sent' = Sent
    BY <1>1, WantedKept, SentFinite
  <2>8. \A e \in Entry : ~ (e \in Sent /\ Rank(Sent, e) <= 0)
    <3> SUFFICES ASSUME NEW e \in Sent PROVE ~ (Rank(Sent, e) <= 0)
      OBVIOUS
    <3>1. Rank(Sent, e) \in 1 .. NumOfEntries - 1
      BY SentFinite, RankOrder
    <3> QED BY <2>7, <3>1
  <2>9. Holds(0)'
    BY <1>1, <1>2, <2>7, <2>8, BlankTable DEF Holds
  <2>10. Told'
    <3>1. PICK s : s = [kind |-> "ack", ok |-> TRUE]
      OBVIOUS
    <3>2. s \in Replies /\ s.kind = "ack" /\ s.ok
      BY <3>1 DEF Replies
    <3>3. [kind |-> "ack", ok |-> table' = Blank] = s
      BY <1>2, <3>1
    <3>4. replies' = Append(<<>>, s)
      BY <1>1, <2>4, <3>3
    <3>5. replies' = <<s>>
      BY <3>4
    <3> QED BY <1>1, <2>4, <2>5, <3>2, <3>5 DEF Told
  <2>11. Stage(n)'
    BY <1>1, <2>3, <2>6, <2>9, <2>10 DEF Stage
  <2> QED BY <1>1, <2>11, StageLeft
<1> QED BY <1>3, <1>4

LEMMA ChecksumSteps ==
  ASSUME Safe, InStep, Checksum PROVE InStep'
<1>1. /\ requests # <<>> /\ Head(requests).kind = "checksum" /\ requests' = Tail(requests)
      /\ replies' = Append(replies, [kind |-> "sum", of |-> table])
      /\ UNCHANGED <<table, base, failed, clean, written, work, wanted, pc, packet, retried,
                     waiting, mishaps>>
  BY DEF Checksum, NextRequest, Reply, ground, device, history
<1>2. CASE pc \notin Asking
  BY <1>1, <1>2, WantedKept DEF InStep, Asking
<1>3. CASE pc \in Asking
  <2>1. PICK n \in 0 .. NumOfEntries : Stage(n)
    BY <1>3 DEF InStep
  <2>2. ~ Idle /\ ~ Working(n) /\ ~ Told
    BY <1>1 DEF Idle, Working, Told
  <2>3. waiting /\ Asked(n) /\ Ready(n)
    BY <2>1, <2>2 DEF Stage
  <2>4. PICK r \in Requests :
          /\ requests = <<r>> /\ replies = <<>> /\ work = <<>>
          /\ r.kind = (IF pc \in {"clear", "entries"} THEN pc ELSE "checksum")
    BY <2>3 DEF Asked
  <2>5. pc \in {"erased", "final"} /\ requests' = <<>>
    BY <1>1, <1>3, <2>4, OneHead DEF Asking
  <2>6. n = After' /\ Holds(n)'
    BY <1>1, <2>3, <2>5, MarksKept, HoldsKept DEF Ready, After
  <2>7. Told'
    <3>1. PICK s : s = [kind |-> "sum", of |-> table]
      OBVIOUS
    <3>2. s \in Replies /\ s.kind = "sum" /\ s.of = table
      BY <3>1 DEF Replies, Safe, TypeOK
    <3>3. replies' = <<s>>
      BY <1>1, <2>4, <3>1
    <3> QED BY <1>1, <2>4, <2>5, <3>2, <3>3 DEF Told
  <2>8. Stage(n)'
    BY <1>1, <2>3, <2>6, <2>7 DEF Stage
  <2> QED BY <1>1, <2>8, StageLeft
<1> QED BY <1>2, <1>3

LEMMA TakePacketSteps ==
  ASSUME Safe, InStep, TakePacket PROVE InStep'
<1>1. /\ requests # <<>> /\ Head(requests).kind = "entries" /\ requests' = Tail(requests)
      /\ work' = Head(requests).writes /\ failed' = FALSE
      /\ UNCHANGED <<table, base, clean, written, replies, wanted, pc, packet, retried,
                     waiting, mishaps>>
  BY DEF TakePacket, NextRequest, ground, history
<1>2. CASE pc \notin Asking
  BY <1>1, <1>2, WantedKept DEF InStep, Asking
<1>3. CASE pc \in Asking
  <2>1. PICK n \in 0 .. NumOfEntries : Stage(n)
    BY <1>3 DEF InStep
  <2>2. ~ Idle /\ ~ Working(n) /\ ~ Told
    BY <1>1 DEF Idle, Working, Told
  <2>3. waiting /\ Asked(n) /\ Ready(n)
    BY <2>1, <2>2 DEF Stage
  <2>4. PICK r \in Requests :
          /\ requests = <<r>> /\ replies = <<>> /\ work = <<>>
          /\ r.kind = (IF pc \in {"clear", "entries"} THEN pc ELSE "checksum")
          /\ r.kind = "entries" => Entries(r.writes, n)
    BY <2>3 DEF Asked
  <2>5. pc = "entries" /\ requests' = <<>> /\ work' = r.writes /\ Entries(r.writes, n)
    BY <1>1, <2>4, OneHead
  <2>6. PICK ws : ws = r.writes
    OBVIOUS
  <2>7. Entries(ws, n)'
    BY <1>1, <2>5, <2>6, EntriesKept
  <2>8. work' # <<>>
    <3>1. n = Before /\ packet \in Nat /\ packet < PacketCount
      BY <2>3, <2>5 DEF Ready, InStep, Safe, TypeOK
    <3>2. Before < After /\ Before \in 0 .. NumOfEntries - 1 /\ After \in 1 .. NumOfEntries
      BY <2>5, <3>1, PacketFits
    <3>3. Len(ws) = After - Before /\ NumOfEntries \in Nat
      BY <2>5, <2>6, <3>1, SentFinite DEF Entries
    <3>4. Len(ws) # 0
      BY <3>2, <3>3
    <3>5. Len(<<>>) = 0
      OBVIOUS
    <3> QED BY <2>5, <2>6, <3>4, <3>5
  <2>9. Working(n)' /\ Holds(n)'
    BY <1>1, <2>3, <2>4, <2>5, <2>6, <2>7, <2>8, HoldsKept DEF Working, Ready, Entries
  <2>10. Stage(n)'
    BY <1>1, <2>3, <2>9 DEF Stage
  <2> QED BY <1>1, <2>10, StageLeft
<1> QED BY <1>2, <1>3

LEMMA WriteEntrySteps ==
  ASSUME Safe, AtTheEnd, InStep, WriteEntry PROVE InStep'
<1>1. work # <<>> /\ UNCHANGED <<requests, wanted, pc, packet, retried, waiting, mishaps>>
  BY DEF WriteEntry, ground
<1>2. CASE pc \notin Asking
  BY <1>1, <1>2, WantedKept DEF InStep, Asking
<1>3. CASE pc \in Asking
  <2>1. PICK n \in 0 .. NumOfEntries : Stage(n)
    BY <1>3 DEF InStep
  <2>2. ~ Idle /\ ~ Asked(n) /\ ~ Told
    BY <1>1 DEF Idle, Asked, Told
  <2>3. waiting /\ Working(n) /\ Holds(n)
    BY <2>1, <2>2 DEF Stage
  <2>4. /\ requests = <<>> /\ replies = <<>> /\ pc = "entries" /\ ~ failed
        /\ Len(work) = After - n /\ \A i \in 1 .. Len(work) : IsEntry(work[i], n + i)
    BY <2>3 DEF Working, Entries
  <2>5. /\ After \in 1 .. NumOfEntries /\ packet \in Nat /\ n \in Nat /\ NumOfEntries \in Nat
    <3>1. packet \in Nat /\ packet < PacketCount
      BY <2>4 DEF Safe, TypeOK, InStep
    <3> QED BY <2>4, <3>1, PacketFits, SentFinite
  <2>6. /\ Len(work) \in Nat \ {0} /\ Len(Tail(work)) = Len(work) - 1 /\ work[1] = Head(work)
        /\ \A i \in 1 .. Len(Tail(work)) : i + 1 \in 1 .. Len(work) /\ Tail(work)[i] = work[i + 1]
        /\ Tail(work) \in Seq(Write) /\ 1 \in 1 .. Len(work)
    <3>1. work \in Seq(Write)
      BY DEF Safe, TypeOK
    <3>2. Len(work) # 0
      BY <1>1, <3>1, LengthZero
    <3> QED BY <1>1, <3>1, <3>2, Rest, Queued
  <2>7. n \in 0 .. NumOfEntries - 1 /\ n + 1 \in 0 .. NumOfEntries
    BY <2>4, <2>5, <2>6
  <2>8. IsEntry(Head(work), n + 1)
    BY <2>4, <2>6
  <2>9. /\ Holds(n + 1)' /\ ~ failed' /\ work' = Tail(work)
        /\ IF work' = <<>> THEN replies' = Append(replies, [kind |-> "ack", ok |-> TRUE])
                           ELSE UNCHANGED replies
    BY <2>3, <2>4, <2>7, <2>8, WriteHolds
  <2>10. PICK m : m = n + 1
    OBVIOUS
  <2>11. After' = After /\ NumOfEntries' = NumOfEntries
    BY <1>1, MarksKept, WantedKept
  <2>12. Len(work') = After - m
    BY <2>4, <2>5, <2>6, <2>9, <2>10
  <2>13. CASE work' = <<>>
    <3>1. m = After'
      BY <2>5, <2>7, <2>10, <2>11, <2>12, <2>13
    <3>2. Told'
      <4>1. PICK s : s = [kind |-> "ack", ok |-> TRUE]
        OBVIOUS
      <4>2. s \in Replies /\ s.kind = "ack" /\ s.ok
        BY <4>1 DEF Replies
      <4>3. replies' = <<s>>
        BY <2>4, <2>9, <2>13, <4>1
      <4> QED BY <1>1, <2>4, <2>13, <4>2, <4>3 DEF Told
    <3>3. Stage(m)'
      BY <1>1, <2>3, <2>9, <2>10, <3>1, <3>2 DEF Stage
    <3> QED BY <1>1, <2>7, <2>10, <3>3, StageLeft
  <2>14. CASE work' # <<>>
    <3>1. ASSUME NEW i \in 1 .. Len(work') PROVE IsEntry(work'[i], m + i)
      <4>1. i + 1 \in 1 .. Len(work) /\ work'[i] = work[i + 1] /\ n + (i + 1) = m + i
        BY <2>5, <2>6, <2>9, <2>10, <3>1
      <4>2. IsEntry(work[i + 1], n + (i + 1))
        BY <2>4, <4>1
      <4> QED BY <4>1, <4>2
    <3>2. PICK ws : ws = work'
      OBVIOUS
    <3>3. Entries(ws, m)
      BY <2>12, <3>1, <3>2 DEF Entries
    <3>4. Entries(ws, m)'
      BY <1>1, <3>3, EntriesKept
    <3>5. Working(m)'
      BY <1>1, <2>4, <2>9, <2>14, <3>2, <3>4 DEF Working, Entries
    <3>6. Stage(m)'
      BY <1>1, <2>3, <2>9, <2>10, <3>5 DEF Stage
    <3> QED BY <1>1, <2>7, <2>10, <3>6, StageLeft
  <2> QED BY <2>13, <2>14
<1> QED BY <1>2, <1>3

LEMMA LookupSteps ==
  ASSUME InStep, Lookup \/ UNCHANGED vars PROVE InStep'
<1>1. UNCHANGED <<table, base, work, failed, clean, written, requests, replies, wanted, pc,
                  packet, retried, waiting, mishaps>>
  BY DEF Lookup, network, ground, history, device, vars
<1>2. CASE pc \notin Asking
  BY <1>1, <1>2, WantedKept DEF InStep, Asking
<1>3. CASE pc \in Asking
  <2>1. PICK n \in 0 .. NumOfEntries : Stage(n)
    BY <1>3 DEF InStep
  <2>2. Holds(n)' <=> Holds(n)
    BY <1>1, WantedKept DEF Holds
  <2>3. (Ready(n)' <=> Ready(n)) /\ After' = After
    BY <1>1, <2>2, MarksKept DEF Ready
  <2>4. (Idle' <=> Idle) /\ (Told' <=> Told) /\ (Lost' <=> Lost)
    BY <1>1 DEF Idle, Told, Lost
  <2>5. Asked(n) => Asked(n)'
    <3> SUFFICES ASSUME Asked(n) PROVE Asked(n)'
      OBVIOUS
    <3>1. PICK r \in Requests :
            /\ requests = <<r>> /\ replies = <<>> /\ work = <<>>
            /\ r.kind = (IF pc \in {"clear", "entries"} THEN pc ELSE "checksum")
            /\ r.kind = "entries" => Entries(r.writes, n)
      BY DEF Asked
    <3>2. r.kind = "entries" => Entries(r.writes, n)'
      BY <1>1, <3>1, EntriesKept
    <3> QED BY <1>1, <3>1, <3>2 DEF Asked
  <2>6. Working(n) => Working(n)'
    <3> SUFFICES ASSUME Working(n) PROVE Working(n)'
      OBVIOUS
    <3>1. PICK ws : ws = work
      OBVIOUS
    <3>2. Entries(ws, n)'
      BY <1>1, <3>1, EntriesKept DEF Working
    <3> QED BY <1>1, <3>1, <3>2 DEF Working, Entries
  <2>7. Stage(n)'
    BY <1>1, <2>1, <2>2, <2>3, <2>4, <2>5, <2>6 DEF Stage
  <2> QED BY <1>1, <2>7, StageLeft
<1> QED BY <1>2, <1>3

LEMMA LoseRequestSteps ==
  ASSUME Safe, AtTheEnd, InStep, LoseRequest, mishaps = <<>>, mishaps' # <<>>,
         Head(requests).kind = "entries"
  PROVE  InStep'
<1>1. /\ requests # <<>> /\ requests' = Tail(requests)
      /\ UNCHANGED <<table, base, work, failed, clean, written, replies, wanted, pc,
                     packet, retried, waiting>>
  BY DEF LoseRequest, ground, history, device
<1>2. ~ retried
  BY DEF InStep
<1>3. CASE pc \notin Asking
  BY <1>1, <1>3, WantedKept DEF InStep, Asking
<1>4. CASE pc \in Asking
  <2>1. PICK n \in 0 .. NumOfEntries : Stage(n)
    BY <1>4 DEF InStep
  <2>2. ~ Idle /\ ~ Working(n) /\ ~ Told
    BY <1>1 DEF Idle, Working, Told
  <2>3. waiting /\ Asked(n) /\ Ready(n)
    BY <2>1, <2>2 DEF Stage
  <2>4. PICK r \in Requests :
          /\ requests = <<r>> /\ replies = <<>> /\ work = <<>>
          /\ r.kind = (IF pc \in {"clear", "entries"} THEN pc ELSE "checksum")
    BY <2>3 DEF Asked
  <2>5. pc = "entries" /\ requests' = <<>>
    BY <1>1, <2>4, OneHead
  <2>6. Ready(n)' /\ Idle' /\ Lost'
    BY <1>1, <1>2, <2>3, <2>4, <2>5, MarksKept, HoldsKept DEF Ready, Idle, Lost
  <2>7. Stage(n)'
    BY <1>1, <2>3, <2>6 DEF Stage
  <2> QED BY <1>1, <2>7, StageLeft
<1> QED BY <1>3, <1>4

LEMMA AlwaysInStep == Spec => [](Safe /\ AtTheEnd /\ SomethingSent /\ SurvivedInv)
<1> DEFINE Inv == Safe /\ AtTheEnd /\ SomethingSent /\ SurvivedInv
<1>1. Init => Inv
  <2> SUFFICES ASSUME Init PROVE AtTheEnd /\ SomethingSent /\ InStep
    BY InitSafe DEF SurvivedInv
  <2>1. /\ replies = <<>> /\ requests = <<>> /\ work = <<>> /\ ~ waiting /\ pc = "clear"
        /\ packet = 0 /\ ~ retried
    BY DEF Init
  <2>2. 0 \in 0 .. NumOfEntries
    BY SentFinite
  <2>3. Stage(0)
    BY <2>1 DEF Stage, Idle, Ready, Before
  <2> QED BY <2>1, <2>2, <2>3 DEF AtTheEnd, SomethingSent, InStep
<1>2. Inv /\ [Next]_vars => Inv'
  <2> SUFFICES ASSUME Safe, AtTheEnd, SomethingSent, SurvivedInv, [Next]_vars, Fine' PROVE InStep'
    BY NextSafe, EndKept, SomethingKept DEF SurvivedInv
  <2>1. /\ Fine
        /\ \/ UNCHANGED mishaps
           \/ LoseRequest /\ mishaps = <<>> /\ mishaps' # <<>> /\ Head(requests).kind = "entries"
    BY WasFine
  <2>2. InStep /\ Sendable
    BY <2>1 DEF SurvivedInv, Fine
  <2>3. CASE Ground /\ UNCHANGED mishaps
    BY <2>2, <2>3, SendRequestSteps, ReceiveReplySteps, ReceiveTimeoutSteps DEF Ground
  <2>4. CASE Device /\ UNCHANGED mishaps
    BY <2>2, <2>4, ClearTableSteps, ChecksumSteps, TakePacketSteps, WriteEntrySteps DEF Device
  <2>5. CASE Lookup \/ UNCHANGED vars
    BY <2>2, <2>5, LookupSteps
  <2>6. CASE LoseRequest /\ mishaps = <<>> /\ mishaps' # <<>> /\ Head(requests).kind = "entries"
    BY <2>2, <2>6, LoseRequestSteps
  <2>7. CASE (LoseRequest \/ LoseReply \/ DeviceReset) /\ UNCHANGED mishaps
    <3>1. \E what \in Mishap : mishaps' = Append(mishaps, what)
      <4>1. LoseRequest => Happen("packet") \/ Happen("request")
        BY DEF LoseRequest
      <4>2. LoseReply => Happen("ack") \/ Happen("reply")
        BY DEF LoseReply
      <4>3. DeviceReset => Happen("reset")
        BY DEF DeviceReset
      <4> QED BY <2>7, <4>1, <4>2, <4>3 DEF Happen, Mishap
    <3>2. PICK what \in Mishap : mishaps' = Append(mishaps, what)
      BY <3>1
    <3>3. mishaps \in Seq(Mishap)
      BY DEF Safe, TypeOK
    <3>4. Len(mishaps') = Len(mishaps) + 1 /\ Len(mishaps) \in Nat
      BY <3>2, <3>3
    <3> QED BY <2>7, <3>4
  <2> QED BY <2>1, <2>3, <2>4, <2>5, <2>6, <2>7 DEF Next
<1> QED BY <1>1, <1>2, PTL DEF Spec

(* A session in which nothing goes wrong, or one packet of entries is      *)
(* lost, does not fail: for every table without an interface 0 beside      *)
(* others, every number of entries in a page and in a packet, and however  *)
(* the packets lie across the pages.  In particular no write of an entry   *)
(* fails, as none comes back to a page that has been programmed.           *)
THEOREM OneLossIsSurvived == Spec => []OneLossSurvived
<1>1. SurvivedInv => OneLossSurvived
  BY DEF SurvivedInv, InStep, Fine, OneLossSurvived
<1>2. Spec => []SurvivedInv
  BY AlwaysInStep, PTL
<1> QED BY <1>1, <1>2, PTL
=============
