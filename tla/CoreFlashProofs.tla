--------------------------- MODULE CoreFlashProofs ---------------------------
(***************************************************************************)
(* The mailbox and the lockout for every memory map, every flash content,  *)
(* every request, also one that wraps around, and any number of calls,     *)
(* commands and resets.                                                    *)
(***************************************************************************)
EXTENDS CoreFlash, FiniteSetTheorems, TLAPS

Working == {"working", "busy", "groundnext", "groundlocking", "groundworking",
            "groundbusy", "groundending"}

(* Core 1 is held whenever core 0 works for it, and from the start of a    *)
(* lockout for the ground until its end.                                   *)
Held ==
  /\ core0 \in {"locking", "groundlocking"} => lockout
  /\ core0 \in {"working", "busy", "clearing"} => lockout /\ locked
  /\ core0 \in {"groundworking", "groundbusy"} => (lockout => locked)

(* A range that stays in the flash and does not wrap around.               *)
InFlash(r) ==
  /\ r \in Requests
  /\ Aligned(r)
  /\ r.length > 0
  /\ r.address + r.length <= FlashEnd

(* What a mailbox or a job may hold: no page of it is reserved.            *)
Allowed(r) == InFlash(r) /\ PagesOf(r) \cap Reserved = {}

JobOK ==
  /\ mailbox # Empty => Allowed(mailbox)
  /\ core0 \in Working =>
       /\ Allowed(job)
       /\ pos \in Nat /\ pos < job.length
       /\ IF job.kind = "erase" THEN pos % SectorPages = 0 ELSE pos = 0

(* The first n pages of a request have been changed once, no others.       *)
Done(r, n) ==
  [p \in Page |-> IF p \in r.address .. r.address + n - 1 THEN 1 ELSE 0]

(* How far the request in the mailbox, or the one just answered, has come. *)
ServedInv ==
  /\ mailbox # Empty => core1 = "waiting" /\ called = mailbox
  /\ core0 \in {"locking", "working", "busy", "clearing"} => mailbox # Empty
  /\ core0 \in {"working", "busy"} => job = mailbox /\ served = Done(job, pos)
  /\ core0 = "clearing" => served = Done(mailbox, mailbox.length)
  /\ mailbox # Empty /\ core0 \notin {"working", "busy", "clearing"}
       => served = None
  /\ core1 = "waiting" => Allowed(called)
  /\ core1 = "waiting" /\ mailbox = Empty => served = Done(called, called.length)

Safe == TypeOK /\ Held /\ JobOK /\ ServedInv

-----------------------------------------------------------------------------
(* The constants are natural numbers, the areas in their order.            *)
LEMMA Areas ==
  /\ Width \in Nat \ {0} /\ SectorPages \in Nat \ {0} /\ FlashEnd \in Nat \ {0}
  /\ Protected \in Nat /\ RoutingTable \in Nat /\ UserConfig \in Nat
  /\ App \in Nat /\ FirmwareEnd \in Nat
  /\ Protected < RoutingTable /\ RoutingTable < UserConfig
  /\ UserConfig < App /\ App < FirmwareEnd /\ FirmwareEnd < FlashEnd
  /\ FlashEnd < Width
  /\ Page = 0 .. FlashEnd - 1 /\ Address = 0 .. Width - 1
BY CoreFlashAssumption, SMT DEF CoreFlashAssumption, Page, Address

(* The fields of a request.                                                *)
LEMMA Fields ==
  ASSUME NEW r \in Requests
  PROVE  /\ r # Empty
         /\ r.kind \in {"erase", "write"}
         /\ r.address \in 0 .. Width - 1 /\ r.length \in 0 .. Width - 1
         /\ r.kind = "write" => r.data \in Data
BY SMT DEF Requests, EraseRequest, WriteRequest, Empty, Address

(* Arithmetic.                                                             *)
LEMMA Multiple ==
  ASSUME NEW s \in Nat \ {0}, NEW q \in Nat, NEW n \in Nat, n = s * q
  PROVE  n % s = 0
BY SMT

LEMMA SumNotReduced ==
  ASSUME NEW w \in Nat \ {0}, NEW a \in 0 .. w - 1, NEW n \in 0 .. w - 1,
         a <= (a + n) % w
  PROVE  (a + n) % w = a + n
BY SMT

LEMMA SmallRemainder ==
  ASSUME NEW w \in Nat \ {0}, NEW n \in Nat, n < w
  PROVE  n % w = n
BY SMT

LEMMA IntervalSize ==
  ASSUME NEW a \in Int, NEW n \in Nat
  PROVE  Cardinality(a .. a + n - 1) = n
<1>1. a + n - 1 \in Int
  BY SMT
<1>2. Cardinality(a .. a + n - 1) =
        IF a > a + n - 1 THEN 0 ELSE (a + n - 1) - a + 1
  BY <1>1, FS_Interval
<1> QED
  BY <1>2, SMT

(* What is left of an aligned range has room for a sector, and is aligned. *)
LEMMA SectorStep ==
  ASSUME NEW s \in Nat \ {0}, NEW p \in Nat, NEW n \in Nat,
         p % s = 0, n % s = 0, p < n
  PROVE  p + s <= n /\ (p + s) % s = 0
<1> DEFINE a == p \div s
           b == n \div s
<1>1. a \in Nat /\ p = s * a
  BY SMT
<1>2. b \in Nat /\ n = s * b
  BY SMT
<1> HIDE DEF a, b
<1>3. a < b
  <2>1. SUFFICES ASSUME b <= a PROVE FALSE
    BY <1>1, <1>2, SMT
  <2>2. PICK d \in Nat : a = b + d
    BY <1>1, <1>2, <2>1, SMT
  <2>3. s * a = s * b + s * d /\ s * d \in Nat
    BY <1>2, <2>2, SMT
  <2> QED
    BY <1>1, <1>2, <2>3, SMT
<1>4. PICK d \in Nat : b = a + 1 + d
  BY <1>1, <1>2, <1>3, SMT
<1>5. s * b = s * a + s + s * d /\ s * d \in Nat
  BY <1>1, <1>4, SMT
<1>6. p + s = s * (a + 1) /\ a + 1 \in Nat
  BY <1>1, SMT
<1>7. (p + s) % s = 0
  BY <1>6, Multiple
<1> QED
  BY <1>1, <1>2, <1>5, <1>7, SMT

(* A range that passes "address > address + length" has not wrapped.       *)
LEMMA NoWrap ==
  ASSUME NEW r \in Requests, r.address <= End(r)
  PROVE  End(r) = r.address + r.length
BY Fields, Areas, SumNotReduced DEF End

LEMMA InRange ==
  ASSUME NEW r, InFlash(r)
  PROVE  End(r) = r.address + r.length
<1>1. r.address \in Nat /\ r.length \in Nat /\ r.address + r.length <= FlashEnd
  BY Fields, Areas, SMT DEF InFlash
<1>2. r.address + r.length \in Nat /\ r.address + r.length < Width
  BY <1>1, Areas, SMT
<1> QED
  BY <1>1, <1>2, Areas, SmallRemainder DEF End

(* What core 1 puts into the mailbox is allowed.                           *)
LEMMA AcceptedAllowed ==
  ASSUME NEW r \in Requests, Accepted(r)
  PROVE  Allowed(r)
<1>1. End(r) = r.address + r.length
  BY NoWrap DEF Accepted
<1>2. InFlash(r)
  <2>1. Aligned(r) /\ r.length > 0 /\ End(r) <= FlashEnd
    BY DEF Accepted
  <2>2. r.address + r.length <= FlashEnd
    BY <1>1, <2>1
  <2> QED
    BY <2>1, <2>2 DEF InFlash
<1>3. PagesOf(r) \cap Reserved = {}
  <2>1. SUFFICES ASSUME NEW p \in PagesOf(r), p \in Reserved PROVE FALSE
    OBVIOUS
  <2>2. r.address \in Nat /\ End(r) \in Nat
    BY <1>1, Fields, Areas, SMT
  <2>3. p \in Nat /\ r.address <= p /\ p < End(r)
    BY <2>2, SMT DEF PagesOf
  <2>4. /\ r.address >= Protected
        /\ r.address < RoutingTable \/ r.address >= UserConfig
        /\ r.address < App \/ r.address >= FirmwareEnd
        /\ r.address < RoutingTable => End(r) <= RoutingTable
        /\ r.address >= UserConfig /\ r.address < App => End(r) <= App
    BY <2>2, Areas, SMT DEF Accepted, StaysInArea, StartInArea
  <2> QED
    BY <2>1, <2>2, <2>3, <2>4, Areas, SMT DEF Reserved
<1> QED
  BY <1>2, <1>3 DEF Allowed

(* What the ground asks for, and core 0 accepts, is allowed.               *)
LEMMA GroundAllowed ==
  ASSUME NEW r \in Requests, GroundAccepted(r), InsideFlash(r)
  PROVE  Allowed(r)
<1>1. End(r) = r.address + r.length
  BY NoWrap DEF GroundAccepted
<1>2. InFlash(r)
  <2>1. Aligned(r) /\ r.length > 0 /\ r.address + r.length <= FlashEnd
    BY <1>1 DEF GroundAccepted, InsideFlash
  <2> QED
    BY <2>1 DEF InFlash
<1>3. PagesOf(r) \cap Reserved = {}
  <2>1. r.address \in Nat /\ r.address >= FirmwareEnd
    BY Fields, Areas, SMT DEF GroundAccepted, BehindFirmware
  <2>2. \A p \in PagesOf(r) : p \in Int /\ p >= FirmwareEnd
    BY <1>1, <2>1, Fields, Areas, SMT DEF PagesOf
  <2> QED
    BY <2>2, Areas, SMT DEF Reserved
<1> QED
  BY <1>2, <1>3 DEF Allowed

(* The pages of one flash operation are pages of the job, and as many as   *)
(* are still to be done at most.                                           *)
LEMMA TargetInJob ==
  ASSUME core0 \in Working, Safe
  PROVE  /\ Target \subseteq PagesOf(job)
         /\ Cardinality(Target) \in Nat
         /\ pos + Cardinality(Target) <= job.length
         /\ job.kind = "erase" => (pos + Cardinality(Target)) % SectorPages = 0
         /\ job.kind = "write" => pos + Cardinality(Target) = job.length
<1>1. /\ InFlash(job) /\ job \in Requests /\ pos \in Nat /\ pos < job.length
      /\ IF job.kind = "erase" THEN pos % SectorPages = 0 ELSE pos = 0
  <2>1. Allowed(job) /\ pos \in Nat /\ pos < job.length
        /\ IF job.kind = "erase" THEN pos % SectorPages = 0 ELSE pos = 0
    BY DEF Safe, JobOK
  <2>2. InFlash(job) /\ job \in Requests
    BY <2>1 DEF Allowed, InFlash
  <2> QED
    BY <2>1, <2>2
<1>2. job.address \in Nat /\ job.length \in Nat /\ job.kind \in {"erase", "write"}
  BY <1>1, Fields, Areas, SMT
<1>3. End(job) = job.address + job.length
  BY <1>1, InRange
<1>4. CASE job.kind = "erase"
  <2>1. pos + SectorPages <= job.length /\ (pos + SectorPages) % SectorPages = 0
    BY <1>1, <1>2, <1>4, SectorStep, Areas DEF InFlash, Aligned
  <2>2. Target = job.address + pos .. job.address + pos + SectorPages - 1
    BY <1>4 DEF Target
  <2>3. Cardinality(Target) = SectorPages
    <3>1. job.address + pos \in Int
      BY <1>1, <1>2, SMT
    <3> QED
      BY <3>1, <2>2, Areas, IntervalSize
  <2>4. Target \subseteq PagesOf(job)
    BY <1>1, <1>2, <1>3, <2>1, <2>2, Areas, SMT DEF PagesOf
  <2> QED
    BY <1>4, <2>1, <2>3, <2>4, Areas
<1>5. CASE job.kind = "write"
  <2>1. Target = PagesOf(job)
    BY <1>5 DEF Target
  <2>2. Cardinality(Target) = job.length
    <3>1. PagesOf(job) = job.address .. job.address + job.length - 1
      BY <1>2, <1>3, SMT DEF PagesOf
    <3>2. job.address \in Int
      BY <1>2, SMT
    <3>3. Cardinality(job.address .. job.address + job.length - 1) = job.length
      BY <1>2, <3>2, IntervalSize
    <3> QED
      BY <2>1, <3>1, <3>3
  <2>3. pos = 0
    BY <1>1, <1>5
  <2> QED
    BY <1>2, <1>5, <2>1, <2>2, <2>3
<1> QED
  BY <1>2, <1>4, <1>5

(* An allowed request passes the checks of core 0 too, and its pages are   *)
(* those from its address.                                                 *)
LEMMA AllowedPlausible ==
  ASSUME NEW r, Allowed(r)
  PROVE  /\ Plausible(r)
         /\ PagesOf(r) = r.address .. r.address + r.length - 1
         /\ PagesOf(r) \subseteq Page
<1>1. r \in Requests /\ InFlash(r)
  BY DEF Allowed, InFlash
<1>2. End(r) = r.address + r.length
  BY <1>1, InRange
<1>3. /\ PagesOf(r) = r.address .. r.address + r.length - 1
      /\ PagesOf(r) \subseteq Page
  BY <1>1, <1>2, Fields, Areas, SMT DEF InFlash, PagesOf
<1>4. r.address \in PagesOf(r)
  BY <1>1, <1>2, Fields, Areas, SMT DEF InFlash, PagesOf
<1>5. r.address >= Protected
  BY <1>1, <1>4, Fields, Areas, SMT DEF Allowed, Reserved
<1> QED
  BY <1>1, <1>2, <1>3, <1>5, Fields, Areas, SMT DEF Plausible, InFlash

-----------------------------------------------------------------------------
(* Init establishes it.                                                    *)
LEMMA InitSafe == Init => Safe
<1> SUFFICES ASSUME Init PROVE Safe
  OBVIOUS
<1>1. flash \in [Page -> Data \cup {Blank, Torn}]
  BY CoreFlashAssumption DEF CoreFlashAssumption, Init
<1>2. served \in [Page -> Nat]
  BY DEF Init, None
<1>3. TypeOK
  <2>1. pos \in 0 .. IF job = Empty THEN 0 ELSE job.length
    BY DEF Init
  <2> QED
    BY <1>1, <1>2, <2>1 DEF Init, TypeOK
<1>4. Held /\ JobOK /\ ServedInv
  BY DEF Init, Held, JobOK, ServedInv, Working
<1> QED
  BY <1>3, <1>4 DEF Safe

(* Core 1.                                                                 *)
LEMMA Core1Safe ==
  ASSUME Safe, Core1
  PROVE  Safe'
<1> USE DEF core0Vars, core1Vars
<1>1. CASE VictimInit
  BY <1>1 DEF VictimInit, Safe, TypeOK, Held, JobOK, ServedInv, Working
<1>2. CASE Return
  BY <1>2 DEF Return, Safe, TypeOK, Held, JobOK, ServedInv, Working
<1>3. CASE EnterLockout
  BY <1>3 DEF EnterLockout, Safe, TypeOK, Held, JobOK, ServedInv, Working
<1>4. CASE LeaveLockout
  BY <1>4 DEF LeaveLockout, Safe, TypeOK, Held, JobOK, ServedInv, Working
<1> QED
  BY <1>1, <1>2, <1>3, <1>4 DEF Core1

LEMMA CallSafe ==
  ASSUME Safe, Call
  PROVE  Safe'
<1> USE DEF core0Vars, core1Vars
<1>1. PICK r \in Requests :
        IF Accepted(r)
          THEN /\ mailbox' = r /\ called' = r
               /\ core1' = "waiting" /\ result' = "none"
          ELSE /\ called' = Empty
               /\ result' = "failed"
               /\ UNCHANGED <<mailbox, core1>>
  BY DEF Call
<1>2. /\ core1 = "running" /\ served' = None
      /\ UNCHANGED <<flash, locked, core0Vars>>
  BY DEF Call
<1>3. None \in [Page -> Nat]
  BY DEF None
<1>4. TypeOK'
  BY <1>1, <1>2, <1>3 DEF Safe, TypeOK
<1>5. Held'
  BY <1>2 DEF Safe, Held
<1>6. Accepted(r) => Allowed(r) /\ r # Empty
  BY AcceptedAllowed, Fields
<1>7. JobOK'
  BY <1>1, <1>2, <1>6 DEF Safe, JobOK
<1>8. ServedInv'
  BY <1>1, <1>2, <1>6 DEF Safe, ServedInv
<1> QED
  BY <1>4, <1>5, <1>7, <1>8 DEF Safe

(* Core 0.                                                                 *)
LEMMA TakeSafe ==
  ASSUME Safe, TakeRequest
  PROVE  Safe'
<1> USE DEF TakeRequest, core1Vars
<1>1. TypeOK'
  BY DEF Safe, TypeOK
<1>2. Held'
  BY DEF Safe, Held
<1>3. JobOK'
  BY DEF Safe, JobOK, Working, Allowed, InFlash
<1>4. ServedInv'
  BY DEF Safe, ServedInv
<1> QED
  BY <1>1, <1>2, <1>3, <1>4 DEF Safe

LEMMA ReadSafe ==
  ASSUME Safe, ReadMailbox
  PROVE  Safe'
<1> USE DEF core1Vars
<1>1. mailbox # Empty /\ Allowed(mailbox) /\ Plausible(mailbox)
  BY AllowedPlausible DEF ReadMailbox, Safe, ServedInv, JobOK
<1>2. /\ core0 = "locking" /\ locked /\ job' = mailbox /\ pos' = 0
      /\ core0' = "working"
      /\ UNCHANGED <<flash, locked, mailbox, lockout, core1Vars, served>>
  BY <1>1 DEF ReadMailbox
<1>3. mailbox \in Requests /\ mailbox.length > 0 /\ mailbox.length \in Nat
      /\ mailbox.address \in Nat
  BY <1>1, Fields, Areas, SMT DEF Allowed, InFlash
<1>4. TypeOK'
  BY <1>2, <1>3 DEF Safe, TypeOK
<1>5. Held'
  BY <1>2 DEF Safe, Held
<1>6. JobOK'
  BY <1>1, <1>2, <1>3, Areas, SMT DEF Safe, JobOK
<1>7. Done(mailbox, 0) = None
  BY <1>3, SMT DEF Done, None
<1>8. ServedInv'
  BY <1>1, <1>2, <1>7 DEF Safe, ServedInv
<1> QED
  BY <1>4, <1>5, <1>6, <1>8 DEF Safe

LEMMA GroundCommandSafe ==
  ASSUME Safe, GroundCommand
  PROVE  Safe'
<1> USE DEF core1Vars
<1>1. PICK r \in Requests : GroundAccepted(r) /\ InsideFlash(r) /\ job' = r
  BY DEF GroundCommand
<1>2. /\ core0 = "polling" /\ pos' = 0 /\ core0' = "groundnext"
      /\ UNCHANGED <<flash, locked, mailbox, lockout, core1Vars, served>>
  BY DEF GroundCommand
<1>3. Allowed(r)
  BY <1>1, GroundAllowed
<1>4. r \in Requests /\ r # Empty /\ r.length \in Nat /\ r.length > 0
  BY <1>1, <1>3, Fields, Areas, SMT DEF Allowed, InFlash
<1>5. TypeOK'
  <2>1. pos' \in 0 .. IF job' = Empty THEN 0 ELSE job'.length
    BY <1>1, <1>2, <1>4, SMT
  <2> QED
    BY <1>1, <1>2, <1>4, <2>1 DEF Safe, TypeOK
<1>6. Held'
  BY <1>2 DEF Safe, Held
<1>7. JobOK'
  BY <1>1, <1>2, <1>3, <1>4, Areas, SMT DEF Safe, JobOK
<1>8. ServedInv'
  BY <1>2 DEF Safe, ServedInv
<1> QED
  BY <1>5, <1>6, <1>7, <1>8 DEF Safe

LEMMA GroundLockSafe ==
  ASSUME Safe, GroundLock
  PROVE  Safe'
<1> USE DEF core1Vars
<1>1. /\ core0 = "groundnext"
      /\ lockout' \in BOOLEAN
      /\ core0' = IF lockout' THEN "groundlocking" ELSE "groundworking"
      /\ UNCHANGED <<flash, locked, mailbox, job, pos, core1Vars, served>>
  BY DEF GroundLock
<1>2. TypeOK' /\ Held'
  BY <1>1 DEF Safe, TypeOK, Held
<1>3. JobOK'
  BY <1>1 DEF Safe, JobOK, Working, Allowed, InFlash
<1>4. ServedInv'
  BY <1>1 DEF Safe, ServedInv
<1> QED
  BY <1>2, <1>3, <1>4 DEF Safe

LEMMA GroundLockedSafe ==
  ASSUME Safe, GroundLocked
  PROVE  Safe'
<1> USE DEF core1Vars
<1>1. /\ core0 = "groundlocking" /\ core0' = "groundworking" /\ locked
      /\ UNCHANGED <<flash, locked, mailbox, lockout, job, pos, core1Vars, served>>
  BY DEF GroundLocked
<1>2. TypeOK' /\ Held'
  BY <1>1 DEF Safe, TypeOK, Held
<1>3. JobOK'
  BY <1>1 DEF Safe, JobOK, Working, Allowed, InFlash
<1>4. ServedInv'
  BY <1>1 DEF Safe, ServedInv
<1> QED
  BY <1>2, <1>3, <1>4 DEF Safe

LEMMA StartFlashSafe ==
  ASSUME Safe, StartFlash
  PROVE  Safe'
<1> USE DEF core1Vars
<1>1. /\ core0 \in {"working", "groundworking"}
      /\ core0' = IF core0 = "working" THEN "busy" ELSE "groundbusy"
      /\ UNCHANGED <<flash, locked, mailbox, lockout, job, pos, core1Vars, served>>
  BY DEF StartFlash
<1>2. TypeOK' /\ Held'
  BY <1>1 DEF Safe, TypeOK, Held
<1>3. JobOK'
  BY <1>1 DEF Safe, JobOK, Working, Allowed, InFlash
<1>4. ServedInv'
  BY <1>1 DEF Safe, ServedInv
<1> QED
  BY <1>2, <1>3, <1>4 DEF Safe

(* The end of a flash operation: what has been done of the job, and what   *)
(* the flash then holds.                                                   *)
LEMMA EndFlashSafe ==
  ASSUME Safe, EndFlash
  PROVE  Safe'
<1> USE DEF core1Vars
<1> DEFINE n == Cardinality(Target)
<1>1. /\ core0 \in {"busy", "groundbusy"} /\ core0 \in Working
      /\ pos' = pos + n
      /\ core0' = CASE core0 = "busy" -> IF pos + n < job.length THEN "working" ELSE "clearing"
                    [] OTHER -> IF pos + n < job.length THEN "groundending" ELSE "ending"
      /\ UNCHANGED <<locked, mailbox, lockout, job, core1Vars>>
  BY DEF EndFlash, Busy, MoreToDo, Working
<1>2. /\ Allowed(job) /\ job \in Requests /\ job # Empty
      /\ job.kind \in {"erase", "write"}
      /\ job.length \in Nat /\ job.address \in Nat /\ pos \in Nat
      /\ IF job.kind = "erase" THEN pos % SectorPages = 0 ELSE pos = 0
  BY <1>1, Fields, Areas, SMT DEF Safe, JobOK, Allowed, InFlash
<1>3. /\ Target \subseteq PagesOf(job)
      /\ n \in Nat
      /\ pos + n <= job.length
      /\ job.kind = "erase" => (pos + n) % SectorPages = 0
      /\ job.kind = "write" => pos + n = job.length
  BY <1>1, TargetInJob
<1>4. Target = job.address + pos .. job.address + (pos + n) - 1
  <2>1. CASE job.kind = "erase"
    <3>1. Target = job.address + pos .. job.address + pos + SectorPages - 1
      BY <2>1 DEF Target
    <3>2. job.address + pos \in Int
      BY <1>2, SMT
    <3>3. n = SectorPages
      BY <3>1, <3>2, Areas, IntervalSize
    <3> HIDE DEF n
    <3> QED
      BY <1>2, <3>1, <3>3, Areas, SMT
  <2>2. CASE job.kind = "write"
    <3>1. Target = job.address .. job.address + job.length - 1
      BY <1>2, <2>2, AllowedPlausible DEF Target
    <3>2. pos = 0 /\ pos + n = job.length
      BY <1>2, <1>3, <2>2
    <3> HIDE DEF n
    <3> QED
      BY <1>2, <3>1, <3>2, SMT
  <2> QED
    BY <1>2, <2>1, <2>2
<1>5. /\ flash' = [p \in Page |-> IF p \in Target THEN ContentAfter(p) ELSE flash[p]]
      /\ served' = IF core0 = "groundbusy" THEN served
           ELSE [p \in Page |-> served[p] + (IF p \in Target THEN 1 ELSE 0)]
  BY DEF EndFlash
<1> HIDE DEF n
<1>6. flash' \in [Page -> Data \cup {Blank, Torn}]
  <2>1. \A p \in Page : ContentAfter(p) \in Data \cup {Blank, Torn}
    BY <1>2, Fields DEF ContentAfter, Safe, TypeOK
  <2> QED
    BY <1>5, <2>1 DEF Safe, TypeOK
<1>7. served' \in [Page -> Nat]
  BY <1>5 DEF Safe, TypeOK
<1>8. TypeOK'
  <2>1. pos' \in 0 .. IF job' = Empty THEN 0 ELSE job'.length
    BY <1>1, <1>2, <1>3, SMT
  <2> QED
    BY <1>1, <1>6, <1>7, <2>1 DEF Safe, TypeOK
<1>9. Held'
  BY <1>1 DEF Safe, Held
<1>10. JobOK'
  <2>1. mailbox' # Empty => Allowed(mailbox')
    BY <1>1 DEF Safe, JobOK
  <2>2. core0' \in Working => pos + n < job.length
    BY <1>1 DEF Working
  <2>3. job.kind # "erase" => ~ (pos + n < job.length)
    BY <1>2, <1>3, SMT
  <2> QED
    BY <1>1, <1>2, <1>3, <2>1, <2>2, <2>3, SMT DEF JobOK
<1>11. ServedInv'
  <2>1. CASE core0 = "groundbusy"
    BY <1>1, <1>5, <2>1 DEF Safe, ServedInv
  <2>2. CASE core0 = "busy"
    <3>1. /\ job = mailbox /\ mailbox # Empty /\ served = Done(job, pos)
          /\ core1 = "waiting" /\ called = mailbox
      BY <2>2 DEF Safe, ServedInv
    <3>2. served' = Done(job, pos + n)
      BY <1>2, <1>3, <1>4, <1>5, <2>2, <3>1, SMT DEF Done
    <3>3. ~ (pos + n < job.length) => pos + n = job.length
      BY <1>2, <1>3, SMT
    <3> QED
      BY <1>1, <2>2, <3>1, <3>2, <3>3 DEF Safe, ServedInv
  <2> QED
    BY <1>1, <2>1, <2>2
<1> QED
  BY <1>8, <1>9, <1>10, <1>11 DEF Safe

LEMMA ClearSafe ==
  ASSUME Safe, ClearRequest
  PROVE  Safe'
<1> USE DEF core1Vars
<1>1. /\ core0 = "clearing" /\ core0' = "ending" /\ mailbox' = Empty
      /\ UNCHANGED <<flash, locked, lockout, job, pos, core1Vars, served>>
  BY DEF ClearRequest, Cleared
<1>2. TypeOK' /\ Held'
  BY <1>1 DEF Safe, TypeOK, Held
<1>3. JobOK'
  BY <1>1 DEF JobOK, Working
<1>4. ServedInv'
  BY <1>1 DEF Safe, ServedInv
<1> QED
  BY <1>2, <1>3, <1>4 DEF Safe

LEMMA EndLockoutSafe ==
  ASSUME Safe, EndLockout
  PROVE  Safe'
<1> USE DEF core1Vars
<1>1. /\ core0 \in {"ending", "groundending"}
      /\ IF core0 = "ending"
           THEN core0' = "polling" /\ job' = Empty /\ pos' = 0
           ELSE core0' = "groundnext" /\ UNCHANGED <<job, pos>>
      /\ lockout' = FALSE
      /\ UNCHANGED <<flash, locked, mailbox, core1Vars, served>>
  BY DEF EndLockout, Ending, Ended
<1>2. TypeOK'
  <2>1. CASE core0 = "ending"
    <3>1. pos' \in 0 .. IF job' = Empty THEN 0 ELSE job'.length
      BY <1>1, <2>1, SMT
    <3> QED
      BY <1>1, <2>1, <3>1 DEF Safe, TypeOK
  <2>2. CASE core0 = "groundending"
    BY <1>1, <2>2 DEF Safe, TypeOK
  <2> QED
    BY <1>1, <2>1, <2>2
<1>3. Held'
  BY <1>1 DEF Safe, Held
<1>4. JobOK'
  BY <1>1 DEF Safe, JobOK, Working, Allowed, InFlash
<1>5. ServedInv'
  BY <1>1 DEF Safe, ServedInv
<1> QED
  BY <1>2, <1>3, <1>4, <1>5 DEF Safe

(* A reset loses everything but the flash.                                 *)
LEMMA ResetSafe ==
  ASSUME Safe, WatchdogReset
  PROVE  Safe'
<1>1. /\ core0' = "polling" /\ core1' = "launched" /\ mailbox' = Empty
      /\ job' = Empty /\ called' = Empty /\ pos' = 0 /\ served' = None
      /\ locked' = FALSE /\ lockout' = FALSE /\ result' = "none"
  BY DEF WatchdogReset
<1>2. flash' \in [Page -> Data \cup {Blank, Torn}]
  BY DEF WatchdogReset, Safe, TypeOK
<1>3. None \in [Page -> Nat]
  BY DEF None
<1>4. TypeOK'
  <2>1. pos' \in 0 .. IF job' = Empty THEN 0 ELSE job'.length
    BY <1>1, SMT
  <2> QED
    BY <1>1, <1>2, <1>3, <2>1 DEF TypeOK
<1>5. Held' /\ JobOK' /\ ServedInv'
  BY <1>1 DEF Held, JobOK, ServedInv, Working
<1> QED
  BY <1>4, <1>5 DEF Safe

LEMMA NextSafe == Safe /\ [Next]_vars => Safe'
<1> SUFFICES ASSUME Safe, [Next]_vars PROVE Safe'
  OBVIOUS
<1>1. CASE Next
  BY <1>1, Core1Safe, CallSafe, TakeSafe, ReadSafe, GroundCommandSafe, GroundLockSafe,
     GroundLockedSafe,
     StartFlashSafe, EndFlashSafe, ClearSafe, EndLockoutSafe, ResetSafe
     DEF Next, Core0
<1>2. CASE UNCHANGED vars
  BY <1>2 DEF vars, core0Vars, core1Vars, Safe, TypeOK, Held, JobOK, ServedInv
<1> QED
  BY <1>1, <1>2

LEMMA AlwaysSafe == Spec => []Safe
BY InitSafe, NextSafe, PTL DEF Spec

-----------------------------------------------------------------------------
(* Every variable keeps to the values the code can give it.                *)
THEOREM TypeCorrect == Spec => []TypeOK
<1>1. Safe => TypeOK
  BY DEF Safe
<1> QED
  BY <1>1, AlwaysSafe, PTL

(* Core 1 does not run while the flash changes on its own request, or for  *)
(* the ground once it can be locked out.                                   *)
THEOREM HeldWhileBusy == Spec => []RequestUnderLockout
<1>1. Safe => RequestUnderLockout
  BY DEF Safe, Held, RequestUnderLockout, Busy
<1> QED
  BY <1>1, AlwaysSafe, PTL

(* When the call of core 1 is answered, every page it named and no other   *)
(* has been changed for it, once.                                          *)
THEOREM EachServedOnce == Spec => []ServedOnce
<1>1. Safe => ServedOnce
  <2> SUFFICES ASSUME Safe, core1 = "waiting", mailbox = Empty, NEW p \in Page
               PROVE  served[p] = IF p \in PagesOf(called) THEN 1 ELSE 0
    BY DEF ServedOnce
  <2>1. Allowed(called) /\ served = Done(called, called.length)
    BY DEF Safe, ServedInv
  <2> QED
    BY <2>1, AllowedPlausible DEF Done
<1> QED
  BY <1>1, AlwaysSafe, PTL

(* Whatever core 1 asks for through the mailbox, and whatever range that   *)
(* does not end behind the flash the ground names to the two pqpf_firmware *)
(* functions, the bootloader, the routing table and the firmware being run *)
(* are not changed.                                                        *)
THEOREM ReservedKept == Spec => ReservedUntouched
<1>1. Safe /\ [Next]_vars => [\A p \in Reserved : flash'[p] = flash[p]]_vars
  <2> SUFFICES ASSUME Safe, Next, NEW p \in Reserved
               PROVE  flash'[p] = flash[p]
    OBVIOUS
  <2>1. p \in Page
    BY Areas, SMT DEF Reserved
  <2>2. core0 \in Working => p \notin Target
    BY TargetInJob DEF Safe, JobOK, Allowed
  <2>3. CASE EndFlash
    BY <2>1, <2>2, <2>3 DEF EndFlash, Busy, Working
  <2>4. CASE WatchdogReset
    BY <2>1, <2>2, <2>4 DEF WatchdogReset, Busy, Working
  <2>5. CASE flash' = flash
    BY <2>5
  <2> QED
    BY <2>3, <2>4, <2>5 DEF Next, Core1, Core0, VictimInit, Return, EnterLockout,
       LeaveLockout, TakeRequest, ReadMailbox, GroundLock, GroundLocked,
       StartFlash, ClearRequest, EndLockout, Call, GroundCommand
<1> QED
  BY <1>1, AlwaysSafe, PTL DEF Spec, ReservedUntouched

=============================================================================
