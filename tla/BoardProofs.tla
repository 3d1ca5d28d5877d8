---------------------------- MODULE BoardProofs -----------------------------
(***************************************************************************)
(* The board: what holds of it for every flash geometry, every set of      *)
(* images, every bound on commands and mishaps, and every content the      *)
(* flash may have when it is deployed (Bootloader).                        *)
(*                                                                         *)
(* The uploads to it (Upload): an upload does to the board only what       *)
(* Bootloader lets happen to it: the packets of the tool are commands of   *)
(* the bootloader, and everything else leaves the board alone.  So the     *)
(* invariants of the board hold under any number of uploads, of any        *)
(* images, with any packets lost.                                          *)
(*                                                                         *)
(* The tool in turn takes an answer for the one it waits for.  That the    *)
(* header comes last and the promise of Install is kept rests on one       *)
(* condition, NothingLeftOver: no run meets, behind its first ping, an     *)
(* erase or a write of an earlier one.  It holds when one packet or reply  *)
(* is lost or late; within a run any number may be.  And a run fails only  *)
(* for a cause, as long as fewer are lost or late than the tool has latch  *)
(* requests to spare.                                                      *)
(***************************************************************************)
EXTENDS Upload, TLAPS

(* The command under way stays inside the flash.                           *)
OpIn(o) ==
  /\ o.kind = "none" => o = NoOp
  /\ o.kind = "firmware" => o.pos \in 1 .. o.end
  /\ o.kind \in {"all", "section"} => o.pos < o.end
  /\ o.kind = "clone" => /\ o.pos \in 1 .. o.end
                         /\ o.end <= o.from
                         /\ o.from + o.end <= NPages
  /\ o.kind = "write" => o.pos \in Page /\ o.end = o.pos + 1

OpOK == OpIn(op)

(* A command of the application, of which everything still to be done      *)
(* lies behind the image that runs.                                        *)
Behind(o) ==
  /\ o.kind \in {"none", "section", "write"}
  /\ o.kind = "section" => o.pos * SectorPages >= Size[running]
  /\ o.kind = "write" => o.pos >= Size[running]

RunningInv ==
  /\ RunningImageIntact
  /\ mode \in {"reset", "handover"} => op.kind = "none"
  /\ mode = "app" => Behind(op)

Safe == TypeOK /\ OpOK /\ RunningInv

-----------------------------------------------------------------------------
(* The flash operators keep every page a page.                             *)
LEMMA ErasedType ==
  ASSUME NEW f \in [Page -> Content], NEW s
  PROVE  Erased(f, s) \in [Page -> Content]
BY DEF Erased, Content

LEMMA ProgrammedType ==
  ASSUME NEW f \in [Page -> Content], NEW p \in Page, NEW c \in Content
  PROVE  Programmed(f, p, c) \in [Page -> Content]
BY DEF Programmed

LEMMA OverwrittenType ==
  ASSUME NEW f \in [Page -> Content], NEW p \in Page, NEW c \in Content
  PROVE  Overwritten(f, p, c) \in [Page -> Content]
BY DEF Overwritten, Content

LEMMA CutShortType ==
  ASSUME NEW f \in [Page -> Content], NEW g \in [Page -> Content], NEW D
  PROVE  CutShort(f, g, D) \subseteq [Page -> Content]
BY DEF CutShort, Content

(* Page numbers are natural numbers below NPages, and page 0 is one.       *)
LEMMA Pages ==
  /\ NPages \in Nat
  /\ Page \subseteq Nat
  /\ 0 \in Page
  /\ CloneStart \in Nat
  /\ \A p \in Nat : p < NPages => p \in Page
<1>1. NSectors * SectorPages \in Nat \ {0}
  BY FlashAssumption, SMT
<1> QED BY <1>1, FlashAssumption, BootloaderAssumption DEF Page, NPages

(* An image takes at least one sector.                                     *)
LEMMA SectorsAtLeastOne ==
  ASSUME NEW n \in Nat, n >= 1
  PROVE  SectorsFor(n) \in Nat /\ SectorsFor(n) >= 1
BY FlashAssumption, SMT DEF SectorsFor

(* The flash after the next step of the command under way.                 *)
LEMMA FlashAfterType ==
  ASSUME TypeOK, OpOK
  PROVE  FlashAfter \in [Page -> Content]
<1> USE Pages
<1>1. CASE op.kind \in {"firmware", "all", "section"}
  BY <1>1, ErasedType DEF FlashAfter, TypeOK
<1>2. CASE op.kind = "clone"
  <2>1. ClonePage \in Page /\ op.from + ClonePage \in Page
    BY <1>2 DEF TypeOK, OpType, OpOK, OpIn, ClonePage, Page
  <2>2. flash[op.from + ClonePage] \in Content
    BY <2>1 DEF TypeOK
  <2> QED BY <1>2, <2>1, <2>2, ProgrammedType DEF FlashAfter, TypeOK
<1>3. CASE op.kind = "write"
  BY <1>3, ProgrammedType DEF FlashAfter, TypeOK, OpType, OpOK, OpIn
<1>4. CASE op.kind = "none"
  BY <1>4 DEF FlashAfter, TypeOK
<1> QED BY <1>1, <1>2, <1>3, <1>4 DEF TypeOK, OpType, Kinds

-----------------------------------------------------------------------------
(* Resets, booting and commands preserve Safe; one lemma per action.       *)
LEMMA NoOpType == NoOp \in OpType
BY DEF NoOp, OpType, Kinds, Content

LEMMA EraseOpIs ==
  ASSUME NEW kind \in Kinds, NEW first \in Nat, NEW end \in Nat,
         NEW o, o = EraseOp(kind, first, end)
  PROVE  /\ o \in OpType
         /\ o.kind = kind /\ o.pos = first /\ o.end = end
<1>1. o = [kind |-> kind, pos |-> first, end |-> end, from |-> first,
           data |-> Blank, ok |-> TRUE]
  BY DEF EraseOp, NoOp
<1> QED BY <1>1 DEF OpType, Content

LEMMA CloneOpIs ==
  ASSUME NEW blocks \in Nat, NEW src \in Nat,
         NEW o, o = CloneOp(blocks, src)
  PROVE  /\ o \in OpType
         /\ o.kind = "clone" /\ o.pos = 1 /\ o.end = blocks /\ o.from = src
<1>1. o = [kind |-> "clone", pos |-> 1, end |-> blocks, from |-> src,
           data |-> Blank, ok |-> TRUE]
  BY DEF CloneOp, NoOp
<1> QED BY <1>1 DEF OpType, Kinds, Content

LEMMA WriteOpIs ==
  ASSUME NEW p \in Nat, NEW c \in Content,
         NEW o, o = WriteOp(p, c)
  PROVE  /\ o \in OpType
         /\ o.kind = "write" /\ o.pos = p /\ o.end = p + 1
<1>1. o = [kind |-> "write", pos |-> p, end |-> p + 1, from |-> 0,
           data |-> c, ok |-> TRUE]
  BY DEF WriteOp, NoOp
<1> QED BY <1>1 DEF OpType, Kinds, Content

LEMMA ResetSafe ==
  ASSUME Safe, NEW why \in Causes \cup {Unreported}, Reset(why),
         flash' \in [Page -> Content],
         latchReg' \in Codes, asked' \in Codes, scratch0' \in Causes,
         commands' \in 0 .. MaxCommands, mishaps' \in 0 .. MaxMishaps
  PROVE  Safe'
<1>1. TypeOK'
  BY Pages, NoOpType DEF Reset, TypeOK, Modes, Bootloading, Codes, Causes
<1>2. OpOK'
  BY DEF Reset, OpOK, OpIn, NoOp
<1>3. RunningInv'
  BY DEF Reset, RunningInv, RunningImageIntact, NoOp
<1> QED BY <1>1, <1>2, <1>3 DEF Safe

LEMMA PowerCutSafe == ASSUME Safe, PowerCut PROVE Safe'
<1>1. flash' \in [Page -> Content]
  BY FlashAfterType, CutShortType DEF PowerCut, Safe, TypeOK
<1>2. /\ latchReg' \in Codes /\ asked' \in Codes /\ scratch0' \in Causes
      /\ commands' \in 0 .. MaxCommands /\ mishaps' \in 0 .. MaxMishaps
      /\ Reset("power")
  BY BootloaderAssumption DEF PowerCut, Mishap, Safe, TypeOK, Codes, Causes
<1> QED BY <1>1, <1>2, ResetSafe DEF Causes

LEMMA WatchdogResetSafe == ASSUME Safe, WatchdogReset PROVE Safe'
<1> DEFINE why == IF mode = "handover" THEN Unreported ELSE "crash"
<1>1. /\ flash' \in [Page -> Content]
      /\ latchReg' \in Codes /\ asked' \in Codes /\ scratch0' \in Causes
      /\ commands' \in 0 .. MaxCommands /\ mishaps' \in 0 .. MaxMishaps
  BY BootloaderAssumption DEF WatchdogReset, Mishap, Safe, TypeOK, Codes
<1>2. Reset(why)
  BY DEF WatchdogReset, Mishap
<1>3. why \in Causes \cup {Unreported}
  BY DEF Causes
<1> HIDE DEF why
<1> QED BY <1>1, <1>2, <1>3, ResetSafe

LEMMA HardFaultSafe == ASSUME Safe, HardFault PROVE Safe'
<1>1. PICK core \in FaultsOf(mode) : Mishap(core) /\ scratch0' = core
  BY DEF HardFault
<1>2. core \in Causes
  BY DEF FaultsOf, Causes
<1>3. /\ flash' \in [Page -> Content]
      /\ latchReg' \in Codes /\ asked' \in Codes /\ scratch0' \in Causes
      /\ commands' \in 0 .. MaxCommands /\ mishaps' \in 0 .. MaxMishaps
      /\ Reset(core)
  BY <1>1, <1>2, BootloaderAssumption DEF HardFault, Mishap, Safe, TypeOK, Codes
<1> QED BY <1>2, <1>3, ResetSafe

(* The erase of an update is a command in range.                           *)
LEMMA EraseForUpdateOK ==
  ASSUME NEW blocks \in Nat, op' = EraseForUpdate(blocks)
  PROVE  op' \in OpType /\ OpOK'
<1>1. CASE SectorsFor(blocks) \in 1 .. NSectors
  <2>1. op' = EraseOp("section", 0, SectorsFor(blocks))
    BY <1>1 DEF EraseForUpdate
  <2>2. SectorsFor(blocks) \in Nat /\ 0 < SectorsFor(blocks)
    BY <1>1, FlashAssumption
  <2>3. "section" \in Kinds
    BY DEF Kinds
  <2> QED BY <2>1, <2>2, <2>3, EraseOpIs DEF OpOK, OpIn
<1>2. CASE SectorsFor(blocks) \notin 1 .. NSectors
  BY <1>2, NoOpType DEF EraseForUpdate, OpOK, OpIn, NoOp
<1> QED BY <1>1, <1>2

LEMMA BootSafe == ASSUME Safe, Boot PROVE Safe'
<1>1. /\ latched' \in Codes /\ latchReg' \in Codes
      /\ bootWord' \in Causes /\ scratch0' \in Causes
  BY DEF Boot, ReadRegisters, Safe, TypeOK, Codes, Causes
<1>2. UNCHANGED <<flash, reply, running, asked, cause, commands, mishaps>>
  BY DEF Boot, history
<1>3. CASE mode' = "idle" /\ UNCHANGED <<blockCount, op>>
  <2>1. TypeOK'
    BY <1>1, <1>2, <1>3 DEF Safe, TypeOK, Modes, Bootloading
  <2>2. OpOK' /\ RunningInv'
    BY <1>3 DEF Safe, OpOK, RunningInv, RunningImageIntact
  <2> QED BY <2>1, <2>2 DEF Safe
<1>4. CASE mode' = "erasing" /\ \E im \in Image : /\ blockCount' = Size[im]
                                                 /\ op' = EraseForUpdate(Size[im])
  <2>1. PICK im \in Image : blockCount' = Size[im] /\ op' = EraseForUpdate(Size[im])
    BY <1>4
  <2>2. Size[im] \in 0 .. NPages
    BY Pages, FlashAssumption
  <2>3. op' \in OpType /\ OpOK'
    BY <2>1, <2>2, EraseForUpdateOK
  <2>4. TypeOK'
    BY <1>1, <1>2, <1>4, <2>1, <2>2, <2>3 DEF Safe, TypeOK, Modes, Bootloading
  <2>5. RunningInv'
    BY <1>4 DEF RunningInv, RunningImageIntact
  <2> QED BY <2>3, <2>4, <2>5 DEF Safe
<1> QED BY <1>3, <1>4 DEF Boot

LEMMA UpdateCloneSafe == ASSUME Safe, UpdateClone PROVE Safe'
<1>1. UNCHANGED <<flash, blockCount, latchReg, latched, scratch0, bootWord,
                  reply, running, asked, cause, commands, mishaps>>
  BY DEF UpdateClone, regs, history
<1>2. op' \in OpType /\ OpOK'
  <2>1. CASE CloneAllowed(blockCount, CloneStart) /\ op' = CloneOp(blockCount, CloneStart)
    <3>1. blockCount \in Nat /\ CloneStart \in Nat
      BY Pages DEF Safe, TypeOK
    <3> QED BY <2>1, <3>1, CloneOpIs DEF CloneAllowed, OpOK, OpIn
  <2>2. CASE op' = NoOp
    BY <2>2, NoOpType DEF OpOK, OpIn, NoOp
  <2> QED BY <2>1, <2>2 DEF UpdateClone
<1>3. TypeOK'
  BY <1>1, <1>2 DEF UpdateClone, Safe, TypeOK, Modes, Bootloading
<1>4. RunningInv'
  BY DEF UpdateClone, RunningInv, RunningImageIntact
<1> QED BY <1>2, <1>3, <1>4 DEF Safe

LEMMA UpdateRebootSafe == ASSUME Safe, UpdateReboot PROVE Safe'
<1>1. /\ flash' \in [Page -> Content]
      /\ latchReg' \in Codes /\ asked' \in Codes /\ scratch0' \in Causes
      /\ commands' \in 0 .. MaxCommands /\ mishaps' \in 0 .. MaxMishaps
      /\ Reset("reboot")
  BY DEF UpdateReboot, Reboot, Safe, TypeOK, Codes, Causes
<1> QED BY <1>1, ResetSafe DEF Causes

LEMMA StartFirmwareSafe == ASSUME Safe, StartFirmware PROVE Safe'
<1> USE DEF StartFirmware, HandCauseOver, Safe
<1>1. TypeOK'
  BY DEF TypeOK, Modes, Codes, Causes
<1>2. OpOK' /\ RunningInv'
  BY DEF OpOK, OpIn, Behind, RunningInv, RunningImageIntact, CompleteAt, NoOp
<1> QED BY <1>1, <1>2

LEMMA AppInitSafe == ASSUME Safe, AppInit PROVE Safe'
<1> USE DEF AppInit, ReadRegisters, Safe, history
<1>1. TypeOK'
  BY DEF TypeOK, Modes, Codes, Causes
<1>2. OpOK' /\ RunningInv'
  BY DEF OpOK, OpIn, Behind, RunningInv, RunningImageIntact, CompleteAt, NoOp
<1> QED BY <1>1, <1>2

-----------------------------------------------------------------------------
(* The header of a complete image names that image and no other, so the    *)
(* guards of the application compare with the end of the running image.    *)
LEMMA RunningEnd ==
  ASSUME running \in Image, CompleteAt(flash, 0, running)
  PROVE  FirmwareEnd = Size[running]
<1>1. HeaderOf(flash, 0, running)
  BY Pages, FlashAssumption DEF CompleteAt, HeaderOf
<1>2. \A im \in Image : HeaderOf(flash, 0, im) => im = running
  BY <1>1 DEF HeaderOf, PageOf
<1>3. (CHOOSE im \in Image : HeaderOf(flash, 0, im)) = running
  BY <1>1, <1>2
<1> QED BY <1>1, <1>3 DEF FirmwareEnd, HeaderSane, HeaderSize

(* Every command counts itself and comes when no other is under way.       *)
LEMMA ServeType ==
  ASSUME TypeOK, NEW modes, Serve(modes)
  PROVE  /\ commands' \in 0 .. MaxCommands
         /\ mishaps' \in 0 .. MaxMishaps
         /\ mode \in modes
         /\ op.kind = "none"
BY BootloaderAssumption DEF Serve, TypeOK

LEMMA RefuseSafe ==
  ASSUME Safe, Refuse,
         commands' \in 0 .. MaxCommands, mishaps' \in 0 .. MaxMishaps
  PROVE  Safe'
<1> USE DEF Refuse, regs, history, Safe
<1>1. TypeOK'
  BY DEF TypeOK
<1>2. OpOK' /\ RunningInv'
  BY DEF OpOK, OpIn, Behind, RunningInv, RunningImageIntact, CompleteAt
<1> QED BY <1>1, <1>2

LEMMA StartSafe ==
  ASSUME Safe, NEW o \in OpType, Start(o), OpIn(o),
         mode = "idle" \/ (mode = "app" /\ Behind(o)),
         commands' \in 0 .. MaxCommands, mishaps' \in 0 .. MaxMishaps
  PROVE  Safe'
<1> USE DEF Start, regs, history, Safe
<1>1. TypeOK'
  BY DEF TypeOK
<1>2. OpOK'
  BY DEF OpOK
<1>3. RunningInv'
  BY DEF Behind, RunningInv, RunningImageIntact, CompleteAt
<1> QED BY <1>1, <1>2, <1>3

LEMMA EraseFirmwareSafe == ASSUME Safe, EraseFirmware PROVE Safe'
<1>1. /\ commands' \in 0 .. MaxCommands /\ mishaps' \in 0 .. MaxMishaps
  BY ServeType DEF EraseFirmware, Safe
<1>2. CASE Refuse
  BY <1>1, <1>2, RefuseSafe
<1>3. CASE mode = "idle" /\ HeaderSane(flash, 0) /\
           Start(EraseOp("firmware", 1, SectorsFor(HeaderSize(flash, 0))))
  <2> DEFINE n == SectorsFor(HeaderSize(flash, 0))
             o == EraseOp("firmware", 1, n)
  <2>1. HeaderSize(flash, 0) \in Nat /\ HeaderSize(flash, 0) >= 2
    BY <1>3, Pages, FlashAssumption DEF HeaderSane, HeaderSize
  <2>2. n \in Nat /\ n >= 1
    BY <2>1, SectorsAtLeastOne
  <2>3. o \in OpType /\ o.kind = "firmware" /\ o.pos = 1 /\ o.end = n
    BY <2>2, EraseOpIs DEF Kinds
  <2>4. OpIn(o)
    BY <2>2, <2>3 DEF OpIn
  <2> QED BY <1>1, <1>3, <2>3, <2>4, StartSafe
<1> QED BY <1>2, <1>3 DEF EraseFirmware

LEMMA EraseAllSafe == ASSUME Safe, EraseAll PROVE Safe'
<1>1. /\ commands' \in 0 .. MaxCommands /\ mishaps' \in 0 .. MaxMishaps
  BY ServeType DEF EraseAll, Safe
<1>2. CASE Refuse
  BY <1>1, <1>2, RefuseSafe
<1>3. CASE mode = "idle" /\ Start(EraseOp("all", 0, NSectors))
  <2> DEFINE o == EraseOp("all", 0, NSectors)
  <2>1. o \in OpType /\ o.kind = "all" /\ o.pos = 0 /\ o.end = NSectors
    BY EraseOpIs, FlashAssumption DEF Kinds
  <2>2. OpIn(o)
    BY <2>1, FlashAssumption DEF OpIn
  <2> QED BY <1>1, <1>3, <2>1, <2>2, StartSafe
<1> QED BY <1>2, <1>3 DEF EraseAll

LEMMA EraseSectionSafe == ASSUME Safe, EraseSection PROVE Safe'
<1>1. /\ commands' \in 0 .. MaxCommands /\ mishaps' \in 0 .. MaxMishaps
      /\ mode \in {"idle", "app"}
  BY ServeType DEF EraseSection, Safe
<1>2. CASE Refuse
  BY <1>1, <1>2, RefuseSafe
<1>3. ASSUME NEW first \in Sector, NEW last \in 1 .. NSectors, first < last,
             mode = "idle" \/ first * SectorPages >= FirmwareEnd,
             Start(EraseOp("section", first, last))
      PROVE  Safe'
  <2> DEFINE o == EraseOp("section", first, last)
  <2>1. o \in OpType /\ o.kind = "section" /\ o.pos = first /\ o.end = last
    BY EraseOpIs, FlashAssumption DEF Kinds, Sector
  <2>2. OpIn(o)
    BY <1>3, <2>1 DEF OpIn
  <2>3. mode = "idle" \/ (mode = "app" /\ Behind(o))
    BY <1>1, <1>3, <2>1, RunningEnd DEF Safe, RunningInv, RunningImageIntact, Behind
  <2> QED BY <1>1, <1>3, <2>1, <2>2, <2>3, StartSafe
<1> QED BY <1>2, <1>3 DEF EraseSection

LEMMA FirmwareWriteSafe == ASSUME Safe, FirmwareWrite PROVE Safe'
<1>1. /\ commands' \in 0 .. MaxCommands /\ mishaps' \in 0 .. MaxMishaps
      /\ mode \in {"idle", "app"}
  BY ServeType DEF FirmwareWrite, WritePage, Safe
<1>2. CASE Refuse
  BY <1>1, <1>2, RefuseSafe
<1>3. ASSUME NEW u \in Uploads, mode = "idle" \/ u[1] >= FirmwareEnd,
             Start(WriteOp(u[1], u[2]))
      PROVE  Safe'
  <2> DEFINE o == WriteOp(u[1], u[2])
  <2>1. u[1] \in Page /\ u[2] \in Content
    BY BootloaderAssumption DEF Content
  <2>2. o \in OpType /\ o.kind = "write" /\ o.pos = u[1] /\ o.end = u[1] + 1
    <3> DEFINE p == u[1]
               c == u[2]
    <3>1. p \in Nat /\ c \in Content /\ o = WriteOp(p, c)
      BY <2>1, Pages
    <3> HIDE DEF p, c, o
    <3>2. o \in OpType /\ o.kind = "write" /\ o.pos = p /\ o.end = p + 1
      BY <3>1, WriteOpIs
    <3> QED BY <3>2 DEF p, c
  <2>3. OpIn(o)
    BY <2>1, <2>2 DEF OpIn
  <2>4. mode = "idle" \/ (mode = "app" /\ Behind(o))
    BY <1>1, <1>3, <2>2, RunningEnd DEF Safe, RunningInv, RunningImageIntact, Behind
  <2> QED BY <1>1, <1>3, <2>2, <2>3, <2>4, StartSafe
<1> QED BY <1>2, <1>3 DEF FirmwareWrite, WritePage

LEMMA CloneLocalSafe == ASSUME Safe, CloneLocal PROVE Safe'
<1>1. /\ commands' \in 0 .. MaxCommands /\ mishaps' \in 0 .. MaxMishaps
  BY ServeType DEF CloneLocal, Safe
<1>2. CASE Refuse
  BY <1>1, <1>2, RefuseSafe
<1>3. ASSUME NEW blocks \in 1 .. NPages, NEW src \in Page, mode = "idle",
             CloneAllowed(blocks, src), Start(CloneOp(blocks, src))
      PROVE  Safe'
  <2> DEFINE o == CloneOp(blocks, src)
  <2>1. blocks \in Nat /\ src \in Nat
    BY Pages
  <2>2. o \in OpType /\ o.kind = "clone" /\ o.pos = 1 /\ o.end = blocks /\ o.from = src
    BY <2>1, CloneOpIs
  <2>3. OpIn(o)
    BY <1>3, <2>1, <2>2 DEF OpIn, CloneAllowed
  <2> QED BY <1>1, <1>3, <2>2, <2>3, StartSafe
<1> QED BY <1>2, <1>3 DEF CloneLocal

LEMMA RebootCommandSafe == ASSUME Safe, RebootCommand PROVE Safe'
<1>1. PICK code \in Codes : Reboot(code)
  BY DEF RebootCommand, RebootWith
<1>2. /\ flash' \in [Page -> Content]
      /\ latchReg' \in Codes /\ asked' \in Codes /\ scratch0' \in Causes
      /\ commands' \in 0 .. MaxCommands /\ mishaps' \in 0 .. MaxMishaps
      /\ Reset("reboot")
  BY <1>1, ServeType DEF RebootCommand, RebootWith, Reboot, Safe, TypeOK, Causes
<1> QED BY <1>2, ResetSafe DEF Causes

LEMMA Core1WriteSafe == ASSUME Safe, Core1Write PROVE Safe'
<1>1. /\ commands' \in 0 .. MaxCommands /\ mishaps' \in 0 .. MaxMishaps
      /\ mode = "app"
  BY ServeType DEF Core1Write, Safe
<1>2. PICK u \in Uploads : /\ u[1] >= FirmwareEnd
                           /\ flash' = Overwritten(flash, u[1], u[2])
  BY DEF Core1Write
<1>3. u[1] \in Page /\ u[2] \in Content
  BY BootloaderAssumption DEF Content
<1>4. UNCHANGED <<mode, op, blockCount, latchReg, latched, scratch0, bootWord,
                  reply, running, asked, cause>>
  BY DEF Core1Write, regs, history
<1>5. TypeOK'
  BY <1>1, <1>2, <1>3, <1>4, OverwrittenType DEF Safe, TypeOK
<1>6. OpOK'
  BY <1>4 DEF Safe, OpOK, OpIn
<1>7. RunningInv'
  <2>1. running \in Image /\ CompleteAt(flash, 0, running) /\ FirmwareEnd = Size[running]
    BY <1>1, RunningEnd DEF Safe, RunningInv, RunningImageIntact
  <2>2. \A i \in 0 .. Size[running] - 1 : flash'[i] = flash[i]
    BY <1>2, <1>3, <2>1, Pages, FlashAssumption DEF Overwritten, Safe, TypeOK
  <2>3. CompleteAt(flash', 0, running)
    BY <2>1, <2>2, FlashAssumption DEF CompleteAt
  <2> QED BY <1>4, <2>1, <2>3 DEF Safe, RunningInv, RunningImageIntact, Behind
<1> QED BY <1>5, <1>6, <1>7 DEF Safe

-----------------------------------------------------------------------------
(* Pages of a sector that starts behind page n are behind page n, and so   *)
(* are those of the next sector.                                           *)
LEMMA SectorBehind ==
  ASSUME NEW s \in Nat, NEW n \in Nat, s * SectorPages >= n
  PROVE  /\ \A p \in PagesOf(s) : p >= n
         /\ (s + 1) * SectorPages >= n
<1>1. s * SectorPages \in Nat /\ (s + 1) * SectorPages = s * SectorPages + SectorPages
  BY FlashAssumption, SMT
<1> QED BY <1>1, FlashAssumption DEF PagesOf

(* The steps of a command of the application leave the running image alone. *)
LEMMA StepBehind ==
  ASSUME Safe, mode = "app", FlashChange
  PROVE  \A i \in 0 .. Size[running] - 1 : flash'[i] = flash[i]
<1>1. /\ Size[running] \in Nat
      /\ 0 .. Size[running] - 1 \subseteq Page
      /\ op.pos \in Nat
  BY Pages, FlashAssumption DEF Safe, RunningInv, RunningImageIntact, CompleteAt,
       Page, TypeOK, OpType
<1>2. CASE op.kind = "none"
  BY <1>2 DEF FlashChange, FlashAfter, InFlight, Target, Skipped
<1>3. CASE op.kind = "section"
  <2>1. \A i \in 0 .. Size[running] - 1 : i \notin PagesOf(op.pos)
    BY <1>1, <1>3, SectorBehind DEF Safe, RunningInv, Behind
  <2>2. NextSector = op.pos
    BY <1>3 DEF NextSector
  <2>3. \A i \in Page : i \notin PagesOf(op.pos) => flash'[i] = flash[i]
    BY <1>3, <2>2 DEF FlashChange, FlashAfter, InFlight, Target, Erased
  <2> QED BY <1>1, <2>1, <2>3
<1>4. CASE op.kind = "write"
  <2>1. \A i \in 0 .. Size[running] - 1 : i # op.pos
    BY <1>1, <1>4 DEF Safe, RunningInv, Behind
  <2>2. \A i \in Page : i # op.pos => flash'[i] = flash[i]
    BY <1>4 DEF FlashChange, FlashAfter, InFlight, Target, Programmed, Safe, TypeOK
  <2> QED BY <1>1, <2>1, <2>2
<1> QED BY <1>2, <1>3, <1>4 DEF Safe, RunningInv, Behind

LEMMA AdvanceType ==
  ASSUME NEW o \in OpType, NEW b \in BOOLEAN,
         NEW r, r = [o EXCEPT !.pos = @ + 1, !.ok = b]
  PROVE  r \in OpType
<1>1. r = [kind |-> o.kind, pos |-> o.pos + 1, end |-> o.end, from |-> o.from,
           data |-> o.data, ok |-> b]
  BY DEF OpType
<1> QED BY <1>1 DEF OpType

LEMMA FlashStepSafe == ASSUME Safe, FlashStep PROVE Safe'
<1>1. UNCHANGED <<mode, blockCount, latchReg, latched, scratch0, bootWord,
                  running, asked, cause, commands>>
  BY DEF FlashStep, regs, history
<1>2. flash' \in [Page -> Content] /\ mishaps' \in 0 .. MaxMishaps
  BY FlashAfterType, BootloaderAssumption DEF FlashStep, FlashChange, Safe, TypeOK, Content
<1>3. \/ op' = NoOp
      \/ /\ op' = [op EXCEPT !.pos = @ + 1, !.ok = Success]
         /\ ~ LastStep
  BY DEF FlashStep
<1>4. reply' \in {"none", "ok", "fail"}
  BY DEF FlashStep, Safe, TypeOK
<1>5. /\ op' \in OpType /\ OpOK'
      /\ mode = "app" => Behind(op)'
  <2>1. CASE op' = NoOp
    BY <2>1, NoOpType DEF OpOK, OpIn, NoOp, Behind
  <2>2. CASE op' = [op EXCEPT !.pos = @ + 1, !.ok = Success] /\ ~ LastStep
    <3>1. /\ op'.kind = op.kind /\ op'.pos = op.pos + 1 /\ op'.end = op.end
          /\ op'.from = op.from
      BY <2>2 DEF Safe, TypeOK, OpType
    <3>2. Success \in BOOLEAN
      BY DEF Success
    <3>3. op' \in OpType
      BY <2>2, <3>2, AdvanceType DEF Safe, TypeOK
    <3>4. OpOK'
      BY <2>2, <3>1 DEF FlashStep, LastStep, Safe, TypeOK, OpType, Kinds, OpOK, OpIn
    <3>5. ASSUME mode = "app" PROVE Behind(op)'
      <4>1. op.kind = "section" \/ op.kind = "write"
        BY <3>5 DEF FlashStep, Safe, RunningInv, Behind
      <4>2. Size[running] \in Nat /\ running' = running
        BY <1>1, <3>5, Pages, FlashAssumption DEF Safe, RunningInv, RunningImageIntact
      <4>3. CASE op.kind = "section"
        <5>1. (op.pos + 1) * SectorPages >= Size[running]
          BY <3>5, <4>2, <4>3, SectorBehind DEF Safe, RunningInv, Behind, TypeOK, OpType
        <5> QED BY <3>1, <4>2, <4>3, <5>1 DEF Behind
      <4>4. CASE op.kind = "write"
        BY <3>1, <3>5, <4>2, <4>4 DEF Safe, RunningInv, Behind, TypeOK, OpType
      <4> QED BY <4>1, <4>3, <4>4
    <3> QED BY <3>3, <3>4, <3>5
  <2> QED BY <1>3, <2>1, <2>2
<1>6. TypeOK'
  BY <1>1, <1>2, <1>4, <1>5 DEF Safe, TypeOK
<1>7. RunningInv'
  <2>1. mode \notin {"reset", "handover"}
    BY DEF FlashStep, Safe, RunningInv
  <2>2. CASE mode = "app"
    <3>1. \A i \in 0 .. Size[running] - 1 : flash'[i] = flash[i]
      BY <2>2, StepBehind DEF FlashStep
    <3>2. running' \in Image /\ CompleteAt(flash', 0, running')
      BY <1>1, <2>2, <3>1, FlashAssumption DEF Safe, RunningInv, RunningImageIntact, CompleteAt
    <3> QED BY <1>1, <1>5, <2>2, <3>2 DEF RunningInv, RunningImageIntact
  <2>3. CASE mode # "app"
    BY <1>1, <2>1, <2>3 DEF RunningInv, RunningImageIntact
  <2> QED BY <2>2, <2>3
<1> QED BY <1>5, <1>6, <1>7 DEF Safe

-----------------------------------------------------------------------------
(* A board is delivered safe: nothing runs and nothing is under way.       *)
LEMMA InitSafe == ASSUME Init PROVE Safe
<1>1. TypeOK
  BY Pages, NoOpType, BootloaderAssumption
  DEF Init, TypeOK, Modes, Bootloading, Codes, Causes
<1>2. OpOK /\ RunningInv
  BY DEF Init, OpOK, OpIn, NoOp, RunningInv, RunningImageIntact
<1> QED BY <1>1, <1>2 DEF Safe

LEMMA StutterSafe == ASSUME Safe, UNCHANGED vars PROVE Safe'
<1> USE DEF vars, regs, history, Safe
<1>1. TypeOK'
  BY DEF TypeOK
<1>2. OpOK' /\ RunningInv'
  BY DEF OpOK, OpIn, Behind, RunningInv, RunningImageIntact, CompleteAt
<1> QED BY <1>1, <1>2

LEMMA NextSafe == ASSUME Safe, [Next]_vars PROVE Safe'
<1>1. CASE Program
  BY <1>1, BootSafe, UpdateCloneSafe, UpdateRebootSafe, StartFirmwareSafe,
     AppInitSafe, FlashStepSafe DEF Program, Autostart, LatchTimeout
<1>2. CASE Command
  BY <1>2, EraseFirmwareSafe, EraseAllSafe, EraseSectionSafe, FirmwareWriteSafe,
     CloneLocalSafe, RebootCommandSafe, Core1WriteSafe DEF Command
<1>3. CASE PowerCut \/ WatchdogReset \/ HardFault
  BY <1>3, PowerCutSafe, WatchdogResetSafe, HardFaultSafe
<1> QED BY <1>1, <1>2, <1>3, StutterSafe DEF Next

LEMMA AlwaysSafe == Spec => []Safe
<1>1. Init => Safe
  BY InitSafe
<1>2. Safe /\ [Next]_vars => Safe'
  BY NextSafe
<1> QED BY <1>1, <1>2, PTL DEF Spec

(* Whatever is written, erased, reset or cut short, in any order, every    *)
(* variable of the board keeps to its values.                              *)
THEOREM TypeCorrect == Spec => []TypeOK
<1>1. Safe => TypeOK
  BY DEF Safe
<1> QED BY <1>1, AlwaysSafe, PTL

(* The application that runs is a complete image, and no command it        *)
(* accepts, no hang and no power cut changes a page of it while it runs.   *)
THEOREM RunningIntact == Spec => []RunningImageIntact
<1>1. Safe => RunningImageIntact
  BY DEF Safe, RunningInv
<1> QED BY <1>1, AlwaysSafe, PTL

-----------------------------------------------------------------------------
(***************************************************************************)
(* What a command has done so far, and what an update may still change.    *)
(***************************************************************************)
EraseKinds == {"firmware", "all", "section"}

(* Every step that o has behind it did its work, unless o.ok says not.     *)
DoneBy(o, f) ==
  /\ o.kind \in EraseKinds => o.end <= NSectors
  /\ o.kind = "firmware" /\ o.ok => \A s \in 1 .. o.pos - 1 : SectorBlank(f, s)
  /\ o.kind \in {"all", "section"} /\ o.ok =>
       \A s \in o.from .. o.pos - 1 : SectorBlank(f, s)
  /\ o.kind = "clone" /\ o.ok => \A i \in 1 .. o.pos - 1 : f[i] = f[o.from + i]

(* The clone being installed is complete, and what is left to erase and to *)
(* program for it lies below it.                                           *)
SourceInv ==
  mode \in {"erasing", "cloning"} /\ Fits(blockCount) =>
    /\ \E im \in Image : Size[im] = blockCount /\ ValidClone(im)
    /\ mode = "erasing" /\ op.kind # "none" =>
         op.kind = "section" /\ op.end * SectorPages <= CloneStart
    /\ mode = "cloning" /\ op.kind # "none" =>
         op.kind = "clone" /\ op.end <= CloneStart

Progress == DoneBy(op, flash) /\ SourceInv

(* Sectors have no page in common, and those of the flash are in it.       *)
LEMMA SectorsApart ==
  ASSUME NEW s \in Nat, NEW t \in Nat
  PROVE  /\ s < t => (s + 1) * SectorPages <= t * SectorPages
         /\ s # t => \A p \in PagesOf(s) : p \notin PagesOf(t)
         /\ s < NSectors => PagesOf(s) \subseteq Page
<1>1. /\ s * SectorPages \in Nat /\ t * SectorPages \in Nat
      /\ (s + 1) * SectorPages = s * SectorPages + SectorPages
      /\ (t + 1) * SectorPages = t * SectorPages + SectorPages
  BY FlashAssumption, SMT
<1>2. s < t => (s + 1) * SectorPages <= t * SectorPages
  BY FlashAssumption, SMT
<1>3. t < s => (t + 1) * SectorPages <= s * SectorPages
  BY FlashAssumption, SMT
<1>4. s # t => \A p \in PagesOf(s) : p \notin PagesOf(t)
  BY <1>1, <1>2, <1>3, FlashAssumption DEF PagesOf
<1>5. s < NSectors => (s + 1) * SectorPages <= NSectors * SectorPages
  BY FlashAssumption, SMT
<1>6. s < NSectors => PagesOf(s) \subseteq Page
  BY <1>1, <1>5, Pages, FlashAssumption DEF PagesOf, Page, NPages
<1> QED BY <1>2, <1>4, <1>6

LEMMA SectorsInFlash ==
  ASSUME NEW n \in Nat, n <= NPages
  PROVE  SectorsFor(n) \in Nat /\ SectorsFor(n) <= NSectors
<1> DEFINE m == n + SectorPages - 1
           d == m \div SectorPages
<1>1. m \in Nat /\ m < (NSectors + 1) * SectorPages
  <2>1. NSectors * SectorPages \in Nat
        /\ (NSectors + 1) * SectorPages = NSectors * SectorPages + SectorPages
    BY FlashAssumption, SMT
  <2> QED BY <2>1, FlashAssumption DEF NPages
<1>2. d \in Nat /\ SectorPages * d <= m
  BY <1>1, FlashAssumption, SMT
<1>3. SectorPages * d < (NSectors + 1) * SectorPages
  <2>1. SectorPages * d \in Nat /\ (NSectors + 1) * SectorPages \in Nat
    BY <1>2, FlashAssumption, SMT
  <2> HIDE DEF d, m
  <2> QED BY <1>1, <1>2, <2>1
<1> HIDE DEF d
<1>4. d < NSectors + 1
  BY <1>2, <1>3, FlashAssumption, SMT
<1> QED BY <1>2, <1>4, FlashAssumption DEF SectorsFor, d

(* A step, also one cut short, changes the pages of its target only.       *)
LEMMA OnlyTarget ==
  ASSUME Safe, FlashStep \/ PowerCut, NEW p \in Page, p \notin Target
  PROVE  flash'[p] = flash[p]
<1>1. FlashAfter[p] = flash[p]
  BY DEF FlashAfter, Target, Erased, Programmed, Safe, TypeOK, OpType, Kinds
<1>2. p \notin InFlight
  BY DEF InFlight
<1>3. CASE FlashStep
  BY <1>1, <1>2, <1>3 DEF FlashStep, FlashChange
<1>4. CASE PowerCut
  BY <1>1, <1>2, <1>4 DEF PowerCut, CutShort
<1> QED BY <1>3, <1>4

LEMMA FreshOp ==
  ASSUME op' = NoOp, mode' \notin {"erasing", "cloning"}
  PROVE  Progress'
BY DEF Progress, DoneBy, SourceInv, NoOp, EraseKinds

LEMMA QuietOp ==
  ASSUME Progress, UNCHANGED <<flash, op>>,
         UNCHANGED <<mode, blockCount>> \/ mode' \notin {"erasing", "cloning"}
  PROVE  Progress'
BY DEF Progress, DoneBy, SourceInv, ValidClone, CompleteAt, SectorBlank

LEMMA StartProgress ==
  ASSUME Safe, NEW o, Start(o), DoneBy(o, flash), mode \in {"idle", "app"}
  PROVE  Progress'
BY DEF Start, Progress, DoneBy, SourceInv, SectorBlank

(* A command has nothing behind it when it begins.                         *)
LEMMA NothingDone ==
  ASSUME NEW f, NEW o \in OpType,
         \/ o.kind = "firmware" /\ o.pos = 1 /\ o.end <= NSectors
         \/ o.kind \in {"all", "section"} /\ o.pos = o.from /\ o.end <= NSectors
         \/ o.kind = "clone" /\ o.pos = 1
         \/ o.kind \in {"write", "none"}
  PROVE  DoneBy(o, f)
BY DEF DoneBy, OpType, EraseKinds

LEMMA EraseBegins ==
  ASSUME NEW kind \in Kinds, NEW first \in Nat, NEW end \in Nat, end <= NSectors,
         (kind = "firmware" /\ first = 1) \/ kind \in {"all", "section"},
         NEW o, o = EraseOp(kind, first, end), NEW f
  PROVE  DoneBy(o, f)
<1>1. o = [kind |-> kind, pos |-> first, end |-> end, from |-> first,
           data |-> Blank, ok |-> TRUE]
  BY DEF EraseOp, NoOp
<1>2. o \in OpType
  BY EraseOpIs
<1> QED BY <1>1, <1>2, NothingDone

LEMMA CommandProgress == ASSUME Safe, Progress, Command PROVE Progress'
<1> USE DEF Serve
<1>1. CASE Refuse
  BY <1>1, QuietOp DEF Refuse
<1>2. ASSUME EraseFirmware, ~ Refuse PROVE Progress'
  <2> DEFINE n == HeaderSize(flash, 0)
  <2>1. mode = "idle" /\ HeaderSane(flash, 0)
        /\ Start(EraseOp("firmware", 1, SectorsFor(n)))
    BY <1>2 DEF EraseFirmware
  <2>2. n \in Nat /\ n <= NPages
    BY <2>1, Pages, FlashAssumption DEF HeaderSane, HeaderSize
  <2> HIDE DEF n
  <2>3. DoneBy(EraseOp("firmware", 1, SectorsFor(n)), flash)
    BY <2>2, SectorsInFlash, EraseBegins DEF Kinds
  <2> QED BY <2>1, <2>3, StartProgress
<1>3. ASSUME EraseAll, ~ Refuse PROVE Progress'
  <2>1. mode = "idle" /\ Start(EraseOp("all", 0, NSectors))
    BY <1>3 DEF EraseAll
  <2>2. DoneBy(EraseOp("all", 0, NSectors), flash)
    BY EraseBegins, FlashAssumption DEF Kinds
  <2> QED BY <2>1, <2>2, StartProgress
<1>4. ASSUME EraseSection, ~ Refuse PROVE Progress'
  <2>1. PICK first \in Sector, last \in 1 .. NSectors :
           Start(EraseOp("section", first, last))
    BY <1>4 DEF EraseSection
  <2>2. DoneBy(EraseOp("section", first, last), flash)
    BY EraseBegins, FlashAssumption DEF Kinds, Sector
  <2>3. mode \in {"idle", "app"}
    BY <1>4 DEF EraseSection
  <2> QED BY <2>1, <2>2, <2>3, StartProgress
<1>5. ASSUME FirmwareWrite, ~ Refuse PROVE Progress'
  <2>1. PICK u \in Uploads : Start(WriteOp(u[1], u[2]))
    BY <1>5 DEF FirmwareWrite, WritePage
  <2> DEFINE p == u[1]
             c == u[2]
             o == WriteOp(p, c)
  <2>2. p \in Nat /\ c \in Content
    BY BootloaderAssumption, Pages DEF Content
  <2> HIDE DEF p, c
  <2>3. o \in OpType /\ o.kind = "write"
    BY <2>2, WriteOpIs
  <2>4. DoneBy(o, flash)
    BY <2>3, NothingDone
  <2>5. mode \in {"idle", "app"}
    BY <1>5 DEF FirmwareWrite, WritePage
  <2> QED BY <2>1, <2>4, <2>5, StartProgress DEF p, c
<1>6. ASSUME CloneLocal, ~ Refuse PROVE Progress'
  <2>1. PICK blocks \in 1 .. NPages, src \in Page : Start(CloneOp(blocks, src))
    BY <1>6 DEF CloneLocal
  <2> DEFINE o == CloneOp(blocks, src)
  <2>2. o \in OpType /\ o.kind = "clone" /\ o.pos = 1
    BY CloneOpIs, Pages
  <2>3. DoneBy(o, flash)
    BY <2>2, NothingDone
  <2>4. mode \in {"idle", "app"}
    BY <1>6 DEF CloneLocal
  <2> QED BY <2>1, <2>3, <2>4, StartProgress
<1>7. CASE RebootCommand
  BY <1>7, FreshOp DEF RebootCommand, RebootWith, Reboot, Reset
<1>8. CASE Core1Write
  <2>1. op' = op /\ op.kind = "none" /\ mode' = "app"
    BY <1>8 DEF Core1Write
  <2> QED BY <2>1 DEF Progress, DoneBy, SourceInv, EraseKinds
<1> QED BY <1>1, <1>2, <1>3, <1>4, <1>5, <1>6, <1>7, <1>8 DEF Command

LEMMA BootProgress == ASSUME Safe, Progress, Boot PROVE Progress'
<1>1. CASE mode' = "idle" /\ UNCHANGED op
  BY <1>1, QuietOp DEF Boot
<1>2. CASE \E im \in Image : /\ ValidClone(im) /\ mode' = "erasing"
                             /\ blockCount' = Size[im]
                             /\ op' = EraseForUpdate(Size[im])
  <2>1. PICK im \in Image : /\ ValidClone(im) /\ mode' = "erasing"
                            /\ blockCount' = Size[im]
                            /\ op' = EraseForUpdate(Size[im])
    BY <1>2
  <2> DEFINE n == SectorsFor(Size[im])
  <2>2. n \in Nat /\ n <= NSectors
    BY SectorsInFlash, Pages, FlashAssumption
  <2>3. flash' = flash
    BY DEF Boot
  <2>4. ValidClone(im)'
    BY <2>1, <2>3 DEF ValidClone, CompleteAt
  <2>5. CASE op' = NoOp
    BY <2>1, <2>4, <2>5 DEF Progress, DoneBy, SourceInv, NoOp, EraseKinds
  <2>6. CASE op' = EraseOp("section", 0, n)
    <3>1. op'.kind = "section" /\ op'.end = n
      BY <2>2, <2>6, EraseOpIs DEF Kinds
    <3>2. DoneBy(op', flash')
      BY <2>2, <2>6, EraseBegins DEF Kinds
    <3>3. SourceInv'
      BY <2>1, <2>4, <3>1 DEF SourceInv, Fits
    <3> QED BY <3>2, <3>3 DEF Progress
  <2> QED BY <2>1, <2>5, <2>6 DEF EraseForUpdate
<1> QED BY <1>1, <1>2 DEF Boot

LEMMA UpdateCloneProgress == ASSUME Safe, Progress, UpdateClone PROVE Progress'
<1>1. UNCHANGED <<flash, blockCount>> /\ mode = "erasing" /\ mode' = "cloning"
  BY DEF UpdateClone
<1>2. Fits(blockCount') => \E im \in Image : Size[im] = blockCount' /\ ValidClone(im)'
  BY <1>1 DEF Progress, SourceInv, ValidClone, CompleteAt, Fits
<1>3. CASE op' = NoOp
  BY <1>1, <1>2, <1>3 DEF Progress, DoneBy, SourceInv, NoOp, EraseKinds
<1>4. CASE op' = CloneOp(blockCount, CloneStart) /\ CloneAllowed(blockCount, CloneStart)
  <2>1. /\ op' \in OpType /\ op'.kind = "clone" /\ op'.pos = 1
        /\ op'.end = blockCount /\ blockCount <= CloneStart
    BY <1>4, CloneOpIs, Pages DEF Safe, TypeOK, CloneAllowed
  <2>2. DoneBy(op', flash')
    BY <2>1, NothingDone
  <2>3. SourceInv'
    BY <1>1, <1>2, <2>1 DEF SourceInv, Fits
  <2> QED BY <2>2, <2>3 DEF Progress
<1> QED BY <1>3, <1>4 DEF UpdateClone

(* The steps of an update end below the clone.                             *)
LEMMA CloneUntouched ==
  ASSUME Safe, Progress, FlashStep, mode \in {"erasing", "cloning"}, Fits(blockCount)
  PROVE  \E im \in Image : Size[im] = blockCount /\ ValidClone(im)'
<1>1. PICK im \in Image : Size[im] = blockCount /\ ValidClone(im)
  BY DEF Progress, SourceInv
<1>2. op.pos \in Nat /\ op.end \in Nat /\ CloneStart \in Nat /\ CloneStart > 0
  BY Pages, BootloaderAssumption DEF Safe, TypeOK, OpType
<1>3. \A p \in Page : p >= CloneStart => p \notin Target
  <2>1. CASE mode = "erasing"
    <3>1. /\ op.kind = "section" /\ op.pos < op.end
          /\ op.end * SectorPages <= CloneStart
      BY <2>1 DEF Progress, SourceInv, FlashStep, Safe, OpOK, OpIn
    <3>2. (op.pos + 1) * SectorPages <= op.end * SectorPages
      BY <1>2, <3>1, SectorsApart
    <3>3. /\ op.pos * SectorPages \in Nat /\ op.end * SectorPages \in Nat
          /\ (op.pos + 1) * SectorPages \in Nat
      BY <1>2, FlashAssumption, SMT
    <3>4. \A p \in PagesOf(op.pos) : p < CloneStart
      BY <1>2, <3>1, <3>2, <3>3 DEF PagesOf
    <3>5. Target = PagesOf(op.pos)
      BY <3>1 DEF Target, NextSector
    <3> QED BY <1>2, <3>4, <3>5, Pages
  <2>2. CASE mode = "cloning"
    <3>1. /\ op.kind = "clone" /\ op.pos \in 1 .. op.end /\ op.end <= CloneStart
      BY <2>2 DEF Progress, SourceInv, FlashStep, Safe, OpOK, OpIn
    <3>2. Target = {ClonePage} /\ ClonePage < CloneStart
      BY <1>2, <3>1 DEF Target, ClonePage
    <3>3. ClonePage \in Nat
      BY <1>2 DEF ClonePage
    <3> QED BY <1>2, <3>2, <3>3, Pages
  <2> QED BY <2>1, <2>2
<1>4. \A p \in Page : p >= CloneStart => flash'[p] = flash[p]
  BY <1>3, OnlyTarget
<1>5. \A i \in 0 .. Size[im] - 1 : CloneStart + i \in Page /\ CloneStart + i >= CloneStart
  BY <1>1, <1>2, Pages, FlashAssumption DEF ValidClone, CompleteAt
<1>6. ValidClone(im)'
  BY <1>1, <1>4, <1>5 DEF ValidClone, CompleteAt
<1> QED BY <1>1, <1>6

(* What a successful step adds, and that it takes nothing back.            *)
LEMMA SectorStep ==
  ASSUME Safe, Progress, FlashStep, op.kind \in EraseKinds
  PROVE  /\ Success => SectorBlank(flash', NextSector)
         /\ \A s \in Nat : s < NSectors /\ s # NextSector /\ SectorBlank(flash, s)
                          => SectorBlank(flash', s)
<1>1. NextSector \in Nat
  BY DEF NextSector, Safe, TypeOK, OpType
<1>2. Target = PagesOf(NextSector)
  BY DEF Target, EraseKinds
<1>3. Success => SectorBlank(flash', NextSector)
  BY DEF Success, Verified, EraseKinds
<1>4. ASSUME NEW s \in Nat, s < NSectors, s # NextSector, SectorBlank(flash, s)
      PROVE  SectorBlank(flash', s)
  <2>1. \A p \in PagesOf(s) : p \in Page /\ p \notin Target
    BY <1>1, <1>2, <1>4, SectorsApart
  <2> QED BY <1>4, <2>1, OnlyTarget DEF SectorBlank
<1> QED BY <1>3, <1>4

LEMMA CloneStep ==
  ASSUME Safe, Progress, FlashStep, op.kind = "clone"
  PROVE  /\ Success => flash'[ClonePage] = flash'[op.from + ClonePage]
         /\ \A i \in 0 .. op.end - 1 : i # ClonePage /\ flash[i] = flash[op.from + i]
                                       => flash'[i] = flash'[op.from + i]
<1>1. /\ op.pos \in 1 .. op.end /\ op.end <= op.from /\ op.from + op.end <= NPages
      /\ op.pos \in Nat /\ op.end \in Nat /\ op.from \in Nat
  BY DEF Safe, OpOK, OpIn, TypeOK, OpType
<1>2. ClonePage \in 0 .. op.end - 1
  BY <1>1 DEF ClonePage
<1>3. Target = {ClonePage}
  BY DEF Target
<1>4. \A i \in 0 .. op.end - 1 : /\ i \in Page /\ op.from + i \in Page
                                 /\ op.from + i # ClonePage
  BY <1>1, <1>2, Pages
<1>5. \A i \in 0 .. op.end - 1 : /\ flash'[op.from + i] = flash[op.from + i]
                                 /\ i # ClonePage => flash'[i] = flash[i]
  BY <1>3, <1>4, OnlyTarget
<1>6. Success => flash'[ClonePage] = flash[op.from + ClonePage]
  BY DEF Success, Verified
<1> QED BY <1>2, <1>5, <1>6

LEMMA FlashStepProgress == ASSUME Safe, Progress, FlashStep PROVE Progress'
<1>1. UNCHANGED <<mode, blockCount>>
  BY DEF FlashStep
<1>2. CASE op' = NoOp
  <2>1. DoneBy(op', flash')
    BY <1>2 DEF DoneBy, NoOp, EraseKinds
  <2>2. SourceInv'
    BY <1>1, <1>2, CloneUntouched DEF SourceInv, Fits, NoOp
  <2> QED BY <2>1, <2>2 DEF Progress
<1>3. CASE ~ LastStep /\ op' = [op EXCEPT !.pos = @ + 1, !.ok = Success]
  <2>1. /\ op'.kind = op.kind /\ op'.pos = op.pos + 1 /\ op'.end = op.end
        /\ op'.from = op.from /\ op'.ok = Success
        /\ op.pos \in Nat /\ op.end \in Nat /\ op.from \in Nat /\ op.kind # "none"
    BY <1>3 DEF FlashStep, Safe, TypeOK, OpType
  <2>2. SourceInv'
    BY <1>1, <2>1, CloneUntouched DEF Progress, SourceInv, Fits
  <2>3. Success => op.ok
    BY DEF Success
  <2>4. CASE op.kind = "firmware"
    <3>1. op.pos \in 1 .. op.end /\ op.pos # op.end /\ op.end <= NSectors /\ NextSector = op.pos
      BY <1>3, <2>4 DEF LastStep, NextSector, Safe, OpOK, OpIn, Progress, DoneBy, EraseKinds
    <3>2. ASSUME Success, NEW s \in 1 .. op.pos PROVE SectorBlank(flash', s)
      <4>1. s \in Nat /\ s < NSectors
        BY <2>1, <3>1, FlashAssumption
      <4>2. s # op.pos => SectorBlank(flash, s)
        BY <2>1, <2>3, <2>4, <3>2 DEF Progress, DoneBy
      <4> QED BY <2>4, <3>1, <3>2, <4>1, <4>2, SectorStep DEF EraseKinds
    <3>3. DoneBy(op', flash')
      BY <2>1, <2>4, <3>1, <3>2 DEF DoneBy
    <3> QED BY <2>2, <3>3 DEF Progress
  <2>5. CASE op.kind \in {"all", "section"}
    <3>1. op.pos < op.end /\ op.end <= NSectors /\ NextSector = op.pos
      BY <2>5 DEF NextSector, Safe, OpOK, OpIn, Progress, DoneBy, EraseKinds
    <3>2. ASSUME Success, NEW s \in op.from .. op.pos PROVE SectorBlank(flash', s)
      <4>1. s \in Nat /\ s < NSectors
        BY <2>1, <3>1, FlashAssumption
      <4>2. s # op.pos => SectorBlank(flash, s)
        BY <2>1, <2>3, <2>5, <3>2 DEF Progress, DoneBy
      <4> QED BY <2>5, <3>1, <3>2, <4>1, <4>2, SectorStep DEF EraseKinds
    <3>3. DoneBy(op', flash')
      BY <2>1, <2>5, <3>1, <3>2 DEF DoneBy
    <3> QED BY <2>2, <3>3 DEF Progress
  <2>6. CASE op.kind = "clone"
    <3>1. op.pos \in 1 .. op.end /\ op.pos # op.end /\ ClonePage = op.pos
      BY <1>3, <2>6 DEF LastStep, ClonePage, Safe, OpOK, OpIn
    <3>2. ASSUME Success, NEW i \in 1 .. op.pos PROVE flash'[i] = flash'[op.from + i]
      <4>1. i \in 0 .. op.end - 1
        BY <2>1, <3>1
      <4>2. i # op.pos => flash[i] = flash[op.from + i]
        BY <2>1, <2>3, <2>6, <3>2 DEF Progress, DoneBy
      <4> QED BY <2>6, <3>1, <3>2, <4>1, <4>2, CloneStep
    <3>3. DoneBy(op', flash')
      BY <2>1, <2>6, <3>1, <3>2 DEF DoneBy, EraseKinds
    <3> QED BY <2>2, <3>3 DEF Progress
  <2>7. CASE op.kind = "write"
    BY <2>1, <2>2, <2>7 DEF Progress, DoneBy, EraseKinds
  <2> QED BY <2>1, <2>4, <2>5, <2>6, <2>7 DEF Safe, TypeOK, OpType, Kinds
<1> QED BY <1>2, <1>3 DEF FlashStep

LEMMA NextProgress == ASSUME Safe, Progress, [Next]_vars PROVE Progress'
<1>1. CASE UpdateReboot \/ PowerCut \/ WatchdogReset \/ HardFault
  BY <1>1, FreshOp DEF UpdateReboot, Reboot, PowerCut, WatchdogReset, HardFault, Mishap, Reset
<1>2. CASE Autostart \/ LatchTimeout \/ AppInit
  BY <1>2, QuietOp DEF Autostart, LatchTimeout, StartFirmware, AppInit
<1>3. CASE UNCHANGED vars
  BY <1>3, QuietOp DEF vars
<1>4. CASE Boot \/ UpdateClone \/ FlashStep
  BY <1>4, BootProgress, UpdateCloneProgress, FlashStepProgress
<1>5. CASE Command
  BY <1>5, CommandProgress
<1> QED BY <1>1, <1>2, <1>3, <1>4, <1>5 DEF Next, Program

LEMMA AlwaysProgress == Spec => [](Safe /\ Progress)
<1>1. Init => Safe /\ Progress
  BY InitSafe DEF Init, Progress, DoneBy, SourceInv, NoOp, EraseKinds
<1>2. Safe /\ Progress /\ [Next]_vars => Safe' /\ Progress'
  BY NextSafe, NextProgress
<1> QED BY <1>1, <1>2, PTL DEF Spec

(* Wherever an update is cut short, the clone it installs is complete, and *)
(* the board can start again from it.                                      *)
THEOREM SourceRetained == Spec => []UpdateSourceRetained
<1>1. Progress => UpdateSourceRetained
  BY DEF Progress, SourceInv, UpdateSourceRetained
<1> QED BY <1>1, AlwaysProgress, PTL

(* Only the last step of pqpf_firmware_erase touches the first sector.     *)
THEOREM HeaderErasedLast == Spec => EraseKeepsHeader
<1> DEFINE A == op.kind = "firmware" /\ op.ok /\ flash'[0] # flash[0]
                => \A s \in 1 .. op.end - 1 : SectorBlank(flash, s)
<1>1. ASSUME Safe, Progress, [Next]_vars, op.kind = "firmware", op.ok,
             flash'[0] # flash[0]
      PROVE  \A s \in 1 .. op.end - 1 : SectorBlank(flash, s)
  <2>1. op.pos \in 1 .. op.end /\ op.end \in Nat
    BY <1>1 DEF Safe, OpOK, OpIn, TypeOK, OpType
  <2>2. FlashStep \/ PowerCut
    BY <1>1 DEF Next, Program, Command, vars, Boot, UpdateClone, UpdateReboot, Autostart,
       LatchTimeout, StartFirmware, AppInit, WatchdogReset, HardFault, EraseFirmware,
       EraseAll, EraseSection, FirmwareWrite, WritePage, CloneLocal, RebootCommand,
       RebootWith, Core1Write, Serve
  <2>3. 0 \in Target
    BY <1>1, <2>2, OnlyTarget, Pages
  <2>4. 0 \in PagesOf(NextSector)
    BY <1>1, <2>3 DEF Target
  <2>5. op.pos = op.end
    <3>1. SUFFICES ASSUME op.pos # op.end PROVE FALSE
      OBVIOUS
    <3>2. NextSector = op.pos
      BY <1>1, <3>1 DEF NextSector
    <3>3. op.pos * SectorPages > 0
      BY <2>1, FlashAssumption, SMT
    <3> QED BY <2>1, <2>4, <3>2, <3>3, FlashAssumption DEF PagesOf
  <2> QED BY <1>1, <2>1, <2>5 DEF Progress, DoneBy
<1>2. Safe /\ Progress /\ [Next]_vars => [A]_vars
  BY <1>1
<1>3. EraseKeepsHeader <=> [][A]_vars
  BY DEF EraseKeepsHeader
<1> QED BY <1>2, <1>3, AlwaysProgress, PTL DEF Spec

(* A command that reports success did each of its steps.                   *)
LEMMA LastStepDone ==
  ASSUME Safe, Progress, FlashStep, LastStep, Success
  PROVE  Accomplished(op, flash')
<1>1. op.ok /\ op.pos \in Nat /\ op.end \in Nat /\ op.from \in Nat /\ op.kind # "none"
  BY DEF Success, FlashStep, Safe, TypeOK, OpType
<1>2. CASE op.kind = "firmware"
  <2>1. op.pos = op.end /\ op.end <= NSectors /\ op.end >= 1 /\ NextSector = 0
    BY <1>2 DEF LastStep, NextSector, Progress, DoneBy, EraseKinds, Safe, OpOK, OpIn
  <2>2. ASSUME NEW s \in 0 .. op.end - 1 PROVE SectorBlank(flash', s)
    <3>1. s \in Nat /\ s < NSectors
      BY <1>1, <2>1, FlashAssumption
    <3>2. s # 0 => SectorBlank(flash, s)
      BY <1>1, <1>2, <2>1 DEF Progress, DoneBy
    <3> QED BY <1>2, <2>1, <3>1, <3>2, SectorStep DEF EraseKinds
  <2> QED BY <1>2, <2>2 DEF Accomplished
<1>3. CASE op.kind \in {"all", "section"}
  <2>1. op.pos = op.end - 1 /\ op.end <= NSectors /\ NextSector = op.pos
    BY <1>3 DEF LastStep, NextSector, Progress, DoneBy, EraseKinds
  <2>2. ASSUME NEW s \in op.from .. op.end - 1 PROVE SectorBlank(flash', s)
    <3>1. s \in Nat /\ s < NSectors
      BY <1>1, <2>1, FlashAssumption
    <3>2. s # op.pos => SectorBlank(flash, s)
      BY <1>1, <1>3, <2>1 DEF Progress, DoneBy
    <3> QED BY <1>3, <2>1, <3>1, <3>2, SectorStep DEF EraseKinds
  <2> QED BY <1>3, <2>2 DEF Accomplished
<1>4. CASE op.kind = "clone"
  <2>1. op.pos = op.end /\ ClonePage = 0 /\ op.end >= 1
    BY <1>4 DEF LastStep, ClonePage, Safe, OpOK, OpIn
  <2>2. ASSUME NEW i \in 0 .. op.end - 1 PROVE flash'[i] = flash'[op.from + i]
    <3>1. i # 0 => flash[i] = flash[op.from + i]
      BY <1>1, <1>4, <2>1 DEF Progress, DoneBy
    <3> QED BY <1>4, <2>1, <3>1, CloneStep
  <2> QED BY <1>4, <2>2 DEF Accomplished
<1>5. CASE op.kind = "write"
  BY <1>5 DEF Success, Verified, Accomplished
<1> QED BY <1>1, <1>2, <1>3, <1>4, <1>5 DEF Safe, TypeOK, OpType, Kinds

(* No command reports success for work that a failed step, or the last one *)
(* alone, has left undone.                                                 *)
THEOREM SuccessIsHonest == Spec => ReplyHonest
<1> DEFINE A == op.kind # "none" /\ op' = NoOp /\ reply' = "ok"
                => Accomplished(op, flash')
<1>1. ASSUME Safe, Progress, [Next]_vars, op.kind # "none", op' = NoOp, reply' = "ok"
      PROVE  Accomplished(op, flash')
  <2>1. FlashStep
    <3>1. ~ Command /\ ~ UNCHANGED vars
      BY <1>1 DEF Command, vars, EraseFirmware, EraseAll, EraseSection, FirmwareWrite,
         WritePage, CloneLocal, RebootCommand, RebootWith, Core1Write, Serve, NoOp
    <3>2. ~ (PowerCut \/ WatchdogReset \/ HardFault \/ UpdateReboot)
      BY <1>1 DEF PowerCut, WatchdogReset, HardFault, UpdateReboot, Reboot, Mishap, Reset
    <3>3. ~ (Boot \/ UpdateClone \/ Autostart \/ LatchTimeout \/ AppInit)
      BY <1>1 DEF Safe, RunningInv, Boot, UpdateClone, Autostart, LatchTimeout,
         StartFirmware, AppInit
    <3> QED BY <1>1, <3>1, <3>2, <3>3 DEF Next, Program
  <2>2. LastStep /\ Success
    <3>1. ASSUME ~ LastStep PROVE op'.kind = op.kind
      <4>1. op' = [op EXCEPT !.pos = @ + 1, !.ok = Success]
        BY <2>1, <3>1 DEF FlashStep
      <4> QED BY <1>1, <4>1 DEF Safe, TypeOK, OpType
    <3>2. LastStep
      BY <1>1, <3>1 DEF NoOp
    <3> QED BY <1>1, <2>1, <3>2 DEF FlashStep
  <2> QED BY <1>1, <2>1, <2>2, LastStepDone
<1>2. Safe /\ Progress /\ [Next]_vars => [A]_vars
  BY <1>1
<1>3. ReplyHonest <=> [][A]_vars
  BY DEF ReplyHonest
<1> QED BY <1>2, <1>3, AlwaysProgress, PTL DEF Spec

-----------------------------------------------------------------------------
(***************************************************************************)
(* The watchdog scratch registers of a board, which carry the latch and    *)
(* the cause of a reset from one program to the next: what the bootloader  *)
(* and the application read in them, whatever the flash holds and for any  *)
(* number of commands, resets and faults.                                  *)
(***************************************************************************)

Updating == {"erasing", "cloning", "idle"}    \* the bootloader after pqp_init

(* The latch code is in the registers until the bootloader reads it, and   *)
(* only there; after that only in latched_code.                            *)
LatchInv ==
  /\ mode = "reset" => latchReg = asked
  /\ mode \in Updating => latchReg = "none" /\ latched = asked
  /\ mode \in {"handover", "app"} => latchReg = "none"

(* The cause is in scratch[0] on the way to a pqp_init and in boot_word    *)
(* after it, when scratch[0] says what a hang would be reported as.        *)
CauseInv ==
  /\ mode \in {"reset", "handover"} /\ cause # Unreported => scratch0 = cause
  /\ mode \in Updating \cup {"app"} =>
       /\ scratch0 = "crash"
       /\ cause # Unreported => bootWord = cause

RegisterInv == mode \in Modes /\ LatchInv /\ CauseInv

LEMMA InitRegisters == Init => RegisterInv
BY DEF Init, RegisterInv, LatchInv, CauseInv, Updating, Modes, Bootloading

-----------------------------------------------------------------------------
(* The resets: what was pending is still in the registers, or was asked    *)
(* for by nobody.                                                          *)
LEMMA RebootRegisters ==
  ASSUME NEW code, Reboot(code)
  PROVE  RegisterInv'
BY DEF Reboot, Reset, RegisterInv, LatchInv, CauseInv, Updating, Modes, Bootloading

LEMMA PowerCutRegisters == ASSUME PowerCut PROVE RegisterInv'
BY DEF PowerCut, Mishap, Reset, RegisterInv, LatchInv, CauseInv, Updating,
       Modes, Bootloading

(* A reset that keeps the registers leaves no code in them that was not    *)
(* there for the boot to come.                                             *)
LEMMA PendingLatch ==
  ASSUME RegisterInv, NEW why, why # "power", Mishap(why), UNCHANGED latchReg
  PROVE  mode' = "reset" /\ latchReg' = asked' /\ cause' = why
BY DEF RegisterInv, LatchInv, Mishap, Reset, Updating, Modes, Bootloading

LEMMA WatchdogRegisters ==
  ASSUME RegisterInv, WatchdogReset
  PROVE  RegisterInv'
<1> DEFINE why == IF mode = "handover" THEN Unreported ELSE "crash"
<1>1. why # "power" /\ Mishap(why) /\ UNCHANGED <<latchReg, scratch0>>
  BY DEF WatchdogReset, Unreported
<1>2. why # Unreported => scratch0 = why
  BY DEF WatchdogReset, RegisterInv, CauseInv, Updating, Modes, Bootloading
<1> HIDE DEF why
<1>3. mode' = "reset" /\ latchReg' = asked' /\ cause' = why
  BY <1>1, PendingLatch
<1>4. QED
  BY <1>1, <1>2, <1>3
     DEF RegisterInv, LatchInv, CauseInv, Updating, Modes, Bootloading

LEMMA HardFaultRegisters ==
  ASSUME RegisterInv, HardFault
  PROVE  RegisterInv'
<1>1. PICK core \in FaultsOf(mode) : Mishap(core) /\ scratch0' = core
  BY DEF HardFault
<1>2. core # "power" /\ UNCHANGED latchReg
  BY DEF HardFault, FaultsOf
<1>3. mode' = "reset" /\ latchReg' = asked' /\ cause' = core
  BY <1>1, <1>2, PendingLatch
<1>4. QED
  BY <1>1, <1>3
     DEF RegisterInv, LatchInv, CauseInv, Updating, Modes, Bootloading

-----------------------------------------------------------------------------
(* The steps that read the registers, or write them for the application.   *)
LEMMA BootRegisters ==
  ASSUME RegisterInv, Boot
  PROVE  RegisterInv'
<1>1. mode = "reset" /\ mode' \in Updating /\ ReadRegisters /\ UNCHANGED history
  BY DEF Boot, Updating
<1>2. QED
  BY <1>1 DEF ReadRegisters, history, RegisterInv, LatchInv, CauseInv, Updating,
              Modes, Bootloading

LEMMA StartFirmwareRegisters ==
  ASSUME RegisterInv, StartFirmware
  PROVE  RegisterInv'
BY DEF StartFirmware, HandCauseOver, RegisterInv, LatchInv, CauseInv, Updating,
       Modes, Bootloading

LEMMA AppInitRegisters ==
  ASSUME RegisterInv, AppInit
  PROVE  RegisterInv'
BY DEF AppInit, ReadRegisters, history, RegisterInv, LatchInv, CauseInv,
       Updating, Modes, Bootloading

-----------------------------------------------------------------------------
(* Every other step works on the flash alone.                              *)
LEMMA QuietRegisters ==
  ASSUME RegisterInv, UNCHANGED <<regs, asked, cause>>,
         mode' = mode \/ (mode = "erasing" /\ mode' = "cloning")
  PROVE  RegisterInv'
BY DEF regs, RegisterInv, LatchInv, CauseInv, Updating, Modes, Bootloading

LEMMA CommandRegisters ==
  ASSUME RegisterInv, Command
  PROVE  RegisterInv'
<1>1. ASSUME NEW o, Start(o) PROVE RegisterInv'
  BY <1>1, QuietRegisters DEF Start, history
<1>2. CASE Refuse
  BY <1>2, QuietRegisters DEF Refuse, history
<1>3. CASE EraseFirmware
  BY <1>1, <1>2, <1>3 DEF EraseFirmware
<1>4. CASE EraseAll
  BY <1>1, <1>2, <1>4 DEF EraseAll
<1>5. CASE EraseSection
  BY <1>1, <1>2, <1>5 DEF EraseSection
<1>6. CASE FirmwareWrite
  BY <1>1, <1>2, <1>6 DEF FirmwareWrite, WritePage
<1>7. CASE CloneLocal
  BY <1>1, <1>2, <1>7 DEF CloneLocal
<1>8. CASE RebootCommand
  BY <1>8, RebootRegisters DEF RebootCommand, RebootWith
<1>9. CASE Core1Write
  BY <1>9, QuietRegisters DEF Core1Write, history
<1>10. QED
  BY <1>3, <1>4, <1>5, <1>6, <1>7, <1>8, <1>9 DEF Command

LEMMA ProgramRegisters ==
  ASSUME RegisterInv, Program
  PROVE  RegisterInv'
<1>1. CASE Boot
  BY <1>1, BootRegisters
<1>2. CASE UpdateClone
  BY <1>2, QuietRegisters DEF UpdateClone, history
<1>3. CASE UpdateReboot
  BY <1>3, RebootRegisters DEF UpdateReboot
<1>4. CASE Autostart \/ LatchTimeout
  BY <1>4, StartFirmwareRegisters DEF Autostart, LatchTimeout
<1>5. CASE AppInit
  BY <1>5, AppInitRegisters
<1>6. CASE FlashStep
  BY <1>6, QuietRegisters DEF FlashStep, history
<1>7. QED
  BY <1>1, <1>2, <1>3, <1>4, <1>5, <1>6 DEF Program

LEMMA NextRegisters == RegisterInv /\ [Next]_vars => RegisterInv'
<1> SUFFICES ASSUME RegisterInv, [Next]_vars PROVE RegisterInv'
  OBVIOUS
<1>1. CASE UNCHANGED vars
  BY <1>1, QuietRegisters DEF vars, history
<1>2. QED
  BY <1>1, ProgramRegisters, CommandRegisters, PowerCutRegisters,
     WatchdogRegisters, HardFaultRegisters DEF Next

THEOREM RegistersAlways == Spec => []RegisterInv
<1>1. QED
  BY InitRegisters, NextRegisters, PTL DEF Spec

(* A latch is obeyed by the boot that follows the reboot it came with: a   *)
(* fault before it is read does not lose it, and no later boot sees it.    *)
THEOREM LatchOnce == Spec => []LatchObeyedOnce
<1>1. RegisterInv => LatchObeyedOnce
  BY DEF RegisterInv, LatchInv, LatchObeyedOnce, Updating
<1>2. QED
  BY <1>1, RegistersAlways, PTL

(* The cause of the last reset reaches the report of the bootloader and,   *)
(* across the hand-over of scratch[0], that of the application.            *)
THEOREM CauseKept == Spec => []CauseReported
<1>1. RegisterInv => CauseReported
  BY DEF RegisterInv, CauseInv, CauseReported, Updating
<1>2. QED
  BY <1>1, RegistersAlways, PTL

-----------------------------------------------------------------------------
(***************************************************************************)
(* The uploads.                                                            *)
(***************************************************************************)
(* What a packet may carry, and where the tool may be: a write carries a   *)
(* page of an image to its place.                                          *)
PacketType ==
  [kind : {"ping", "latch", "checksum", "all", "firmware", "write"},
   page : Page, data : Content]
GoodPacket ==
  { m \in PacketType : m.kind = "write" => <<m.page, m.data>> \in Uploads }

BeforeWriting == {"ping", "latch", "wait", "checksum", "decide", "erase"}
Place ==
  /\ pc \in Asking \cup Ended \cup {"decide"}
  /\ pc \notin Ended => wanted \in Image
  /\ pc \in BeforeWriting => block = 1
  /\ pc = "write" => block \in 1 .. Size[wanted] - 1
  /\ waiting => pc \in Asking
SessionInv == requests \in Seq(GoodPacket) /\ Place

LEMMA Sizes ==
  ASSUME NEW im \in Image
  PROVE  /\ Size[im] \in Nat /\ Size[im] >= 2
         /\ 0 .. Size[im] - 1 \subseteq Page
         /\ \A i \in 0 .. Size[im] - 1 : <<i, PageOf(im, i)>> \in Uploads
BY FlashAssumption, UploadAssumption, Pages DEF NPages, Page

LEMMA InitSession == UploadInit => SessionInv
BY DEF UploadInit, SessionInv, Place, Ended, BeforeWriting

-----------------------------------------------------------------------------
(* The tool.                                                               *)
LEMMA RequestGood ==
  ASSUME SessionInv, pc \in Asking
  PROVE  Request \in GoodPacket
<1>1. /\ 0 \in Page /\ Blank \in Content
  BY Pages, FlashAssumption DEF Content, Page, NPages
<1>2. ASSUME NEW p \in Page, NEW c \in Content, <<p, c>> \in Uploads
      PROVE  Packet("write", p, c) \in GoodPacket
  BY <1>2 DEF Packet, PacketType, GoodPacket
<1>3. wanted \in Image
  BY DEF SessionInv, Place, Asking, Ended
<1>4. ASSUME NEW i \in 0 .. Size[wanted] - 1
      PROVE  /\ i \in Page
             /\ PageOf(wanted, i) \in Content
             /\ <<i, PageOf(wanted, i)>> \in Uploads
  BY <1>3, Sizes DEF Content, ImagePage, PageOf
<1>5. CASE pc = "write"
  <2>1. block \in 0 .. Size[wanted] - 1
    BY <1>3, <1>5, Sizes DEF SessionInv, Place
  <2> QED BY <1>2, <1>4, <1>5, <2>1 DEF Request
<1>6. CASE pc = "header"
  <2>1. 0 \in 0 .. Size[wanted] - 1
    BY <1>3, Sizes
  <2> QED BY <1>2, <1>4, <1>6, <2>1 DEF Request
<1>7. CASE pc \notin {"write", "header"}
  BY <1>1, <1>7 DEF Request, Packet, PacketType, GoodPacket, Asking
<1> QED BY <1>5, <1>6, <1>7

(* What leaves the session where it is.                                    *)
LEMMA SamePlace ==
  ASSUME Place, UNCHANGED tool
  PROVE  Place'
BY DEF Place, tool

(* A packet less, or one more, and every packet is still a good one.       *)
LEMMA Packets ==
  ASSUME requests \in Seq(GoodPacket)
  PROVE  /\ requests # <<>> => /\ Tail(requests) \in Seq(GoodPacket)
                              /\ Head(requests) \in GoodPacket
         /\ \A m \in GoodPacket : Append(requests, m) \in Seq(GoodPacket)
         /\ <<>> \in Seq(GoodPacket)
OBVIOUS

(* Where a bad reply, or none, leads to.                                   *)
LEMMA BadStep ==
  ASSUME Place, pc \in Asking, Bad, waiting' = FALSE, UNCHANGED <<wanted, block>>
  PROVE  Place'
<1>1. pc' \in {"latch", "wait", "checksum", "decide", "failed"}
  <2>1. CASE pc = "latch"
    BY <2>1 DEF Bad, AskAgain, GoTo
  <2>2. CASE pc = "wait"
    BY <2>2 DEF Bad, AskAgain, GoTo
  <2>3. CASE pc = "checksum"
    BY <2>3 DEF Bad, AskAgain, GoTo
  <2>4. CASE pc \notin {"latch", "wait", "checksum"}
    BY <2>4 DEF Bad, GoTo
  <2> QED BY <2>1, <2>2, <2>3, <2>4
<1>2. pc' # "failed" => pc \in BeforeWriting
  <2>1. CASE pc \in {"latch", "wait", "checksum"}
    BY <2>1 DEF BeforeWriting
  <2>2. CASE pc \notin {"latch", "wait", "checksum"}
    BY <2>2 DEF Bad, GoTo
  <2> QED BY <2>1, <2>2
<1> QED BY <1>1, <1>2 DEF Place, Asking, Ended, BeforeWriting

(* Where a good one leads to.                                              *)
LEMMA ProceedStep ==
  ASSUME Place, pc \in Asking, NEW r, Proceed(r), waiting' = FALSE,
         UNCHANGED wanted,
         block' = IF pc = "write" THEN block + 1 ELSE block
  PROVE  Place'
<1> USE DEF GoTo
<1>1. wanted \in Image /\ Size[wanted] \in Nat /\ Size[wanted] >= 2
  BY Sizes DEF Place, Asking, Ended
<1>2. CASE pc \in {"ping", "latch", "wait", "checksum"}
  <2>1. pc' \in {"latch", "wait", "checksum", "decide", "failed"}
    <3>1. CASE pc = "ping"
      BY <3>1 DEF Proceed
    <3>2. CASE pc = "latch"
      BY <3>2 DEF Proceed
    <3>3. CASE pc = "wait"
      BY <3>3 DEF Proceed, AskAgain
    <3>4. CASE pc = "checksum"
      BY <3>4 DEF Proceed
    <3> QED BY <1>2, <3>1, <3>2, <3>3, <3>4
  <2> QED BY <1>2, <2>1 DEF Place, Asking, Ended, BeforeWriting
<1>3. CASE pc = "erase"
  <2>1. pc' \in {"stopped", "write"}
    BY <1>3 DEF Proceed, AfterErase
  <2>2. block' = 1
    BY <1>3 DEF Place, BeforeWriting
  <2> QED BY <1>1, <2>1, <2>2 DEF Place, Asking, Ended, BeforeWriting
<1>4. CASE pc = "write"
  <2>1. pc' = IF block = Size[wanted] - 1 THEN "header" ELSE "write"
    BY <1>4 DEF Proceed, AfterWrite, LastBlock
  <2> QED BY <1>1, <1>4, <2>1 DEF Place, Asking, Ended, BeforeWriting
<1>5. CASE pc \in {"header", "final"}
  <2>1. pc' \in {"final", "done"}
    BY <1>5 DEF Proceed
  <2> QED BY <1>1, <2>1 DEF Place, Asking, Ended, BeforeWriting
<1> QED BY <1>2, <1>3, <1>4, <1>5 DEF Asking

LEMMA GroundKeeps ==
  ASSUME SessionInv, Ground
  PROVE  SessionInv'
<1>1. CASE Invoke
  BY <1>1 DEF SessionInv, Place, Invoke, network, Asking, Ended, BeforeWriting
<1>2. CASE SendRequest
  <2>1. requests' \in Seq(GoodPacket)
    BY <1>2, RequestGood, Packets DEF SendRequest, SessionInv
  <2> QED BY <1>2, <2>1 DEF SendRequest, SessionInv, Place
<1>3. CASE ReceiveReply
  <2>1. pc \in Asking /\ Place /\ waiting' = FALSE /\ UNCHANGED <<wanted, requests>>
    BY <1>3 DEF ReceiveReply, SessionInv, Place
  <2>2. CASE Good(Head(replies))
    BY <1>3, <2>1, <2>2, ProceedStep DEF ReceiveReply, SessionInv
  <2>3. CASE ~ Good(Head(replies))
    BY <1>3, <2>1, <2>3, BadStep DEF ReceiveReply, SessionInv
  <2> QED BY <2>2, <2>3
<1>4. CASE ReceiveTimeout
  BY <1>4, BadStep DEF ReceiveTimeout, SessionInv, Place
<1>5. CASE Decide
  <2>1. pc' \in {"erase", "stopped", "write", "failed"}
    BY <1>5 DEF Decide, GoTo
  <2>2. wanted \in Image /\ block = 1 /\ ~ waiting
    BY <1>5 DEF Decide, SessionInv, Place, Asking, Ended, BeforeWriting
  <2> QED BY <1>5, <2>1, <2>2, Sizes
          DEF Decide, network, SessionInv, Place, Asking, Ended, BeforeWriting
<1> QED BY <1>1, <1>2, <1>3, <1>4, <1>5 DEF Ground

-----------------------------------------------------------------------------
(* The board, and what goes wrong: they take packets away at most.         *)
LEMMA TakenFrom ==
  ASSUME SessionInv, requests # <<>>, requests' = Tail(requests), UNCHANGED tool
  PROVE  SessionInv'
BY SamePlace, Packets DEF SessionInv

LEMMA LeftAlone ==
  ASSUME SessionInv, UNCHANGED <<requests, tool>>
  PROVE  SessionInv'
BY SamePlace DEF SessionInv

LEMMA DeviceKeeps ==
  ASSUME SessionInv, Device
  PROVE  SessionInv'
<1> USE DEF Idle, Take
<1>1. CASE Ping \/ Latch \/ Checksum \/ Erase \/ Write
  <2>1. requests # <<>> /\ requests' = Tail(requests) /\ UNCHANGED tool
    BY <1>1 DEF Ping, Latch, Checksum, Erase, Write
  <2> QED BY <2>1, TakenFrom
<1>2. CASE FlashWork \/ Booting
  <2>1. UNCHANGED <<requests, tool>>
    BY <1>2 DEF FlashWork, Booting
  <2> QED BY <2>1, LeftAlone
<1> QED BY <1>1, <1>2 DEF Device

LEMMA TroubleKeeps ==
  ASSUME SessionInv, Trouble
  PROVE  SessionInv'
<1>1. CASE LostInBoot \/ LoseRequest
  <2>1. requests # <<>> /\ requests' = Tail(requests) /\ UNCHANGED tool
    BY <1>1 DEF LostInBoot, LoseRequest
  <2> QED BY <2>1, TakenFrom
<1>2. CASE LoseReply
  BY <1>2, LeftAlone DEF LoseReply
<1>3. CASE BoardFails
  <2>1. UNCHANGED tool /\ requests' \in {requests, <<>>}
    BY <1>3 DEF BoardFails
  <2> QED BY <2>1, SamePlace, Packets DEF SessionInv
<1> QED BY <1>1, <1>2, <1>3 DEF Trouble

LEMMA SessionKeeps == SessionInv /\ [UploadNext]_uvars => SessionInv'
<1>1. ASSUME SessionInv, UNCHANGED uvars PROVE SessionInv'
  BY <1>1, LeftAlone DEF uvars, network
<1> QED BY <1>1, GroundKeeps, DeviceKeeps, TroubleKeeps DEF UploadNext

(* Every step of an upload is a step of the board, or leaves it alone.     *)
LEMMA BoardStep == SessionInv /\ [UploadNext]_uvars => [Next]_vars
<1> SUFFICES ASSUME SessionInv, [UploadNext]_uvars PROVE [Next]_vars
  OBVIOUS
<1>1. CASE Ground
  BY <1>1 DEF Ground, Invoke, SendRequest, ReceiveReply, ReceiveTimeout, Decide, board
<1>2. CASE Ping \/ Checksum
  BY <1>2 DEF Ping, Checksum, board
<1>3. CASE Latch
  <2>1. RebootCommand
    BY <1>3 DEF Latch, RebootCommand, Codes
  <2> QED BY <2>1 DEF Next, Command
<1>4. CASE Erase
  BY <1>4 DEF Erase, Next, Command
<1>5. CASE Write
  <2> DEFINE m == Head(requests)
  <2>1. <<m.page, m.data>> \in Uploads
    BY <1>5, Packets DEF Write, Take, SessionInv, GoodPacket
  <2>2. FirmwareWrite
    BY <1>5, <2>1 DEF Write, FirmwareWrite
  <2> QED BY <2>2 DEF Next, Command
<1>6. CASE FlashWork \/ Booting
  BY <1>6 DEF FlashWork, Booting, Next, Program
<1>7. CASE LostInBoot \/ LoseRequest \/ LoseReply
  BY <1>7 DEF LostInBoot, LoseRequest, LoseReply, board
<1>8. CASE BoardFails
  BY <1>8 DEF BoardFails, Next
<1>9. CASE UNCHANGED uvars
  BY <1>9 DEF uvars, board
<1> QED BY <1>1, <1>2, <1>3, <1>4, <1>5, <1>6, <1>7, <1>8, <1>9
        DEF UploadNext, Device, Trouble

-----------------------------------------------------------------------------
LEMMA AlwaysSession == UploadSpec => []SessionInv
BY InitSession, SessionKeeps, PTL DEF UploadSpec

(* A board under an upload behaves as a board under some sequence of the   *)
(* commands of Bootloader: the session adds nothing it could do.           *)
THEOREM BoardUnderUpload == UploadSpec => BoardObeyed
<1>1. UploadInit => Init
  BY DEF UploadInit
<1> QED BY <1>1, BoardStep, AlwaysSession, PTL DEF UploadSpec, BoardObeyed

(* So the image that runs is complete and stays it while an upload goes    *)
(* on, whichever packets are lost, late, or sent to a running application. *)
THEOREM RunningIntactUnderUpload == UploadSpec => []RunningImageIntact
<1>1. Safe => RunningImageIntact
  BY DEF Safe, RunningInv
<1> QED BY <1>1, InitSafe, NextSafe, BoardUnderUpload, PTL DEF BoardObeyed

(* And the latch that the tool asks for holds the boot it was meant for.   *)
THEOREM LatchOnceUnderUpload == UploadSpec => []LatchObeyedOnce
<1>1. RegisterInv => LatchObeyedOnce
  BY DEF RegisterInv, LatchInv, LatchObeyedOnce, Updating
<1> QED BY <1>1, InitRegisters, NextRegisters, BoardUnderUpload, PTL DEF BoardObeyed

-----------------------------------------------------------------------------

(* The commands that change the flash, and their answers; what is on its   *)
(* way of them, at the four places where it can be.                        *)
Changing == {"firmware", "all", "write"}
Quiet(s) == \A i \in 1 .. Len(s) : s[i].kind \notin Changing
QuietFront(s) == \A i \in 1 .. Len(s) - 1 : s[i].kind \notin Changing

Nowhere == Quiet(requests) /\ op.kind = "none" /\ Quiet(replies)
Coming(q) ==
  /\ requests # <<>> /\ QuietFront(requests)
  /\ requests[Len(requests)] = q
  /\ op.kind = "none" /\ Quiet(replies)
Doing(q) ==
  /\ requests = <<>>
  /\ op.kind = q.kind
  /\ op.kind = "write" => op.pos = q.page /\ op.data = q.data
  /\ Quiet(replies)
Answered(q) ==
  /\ requests = <<>> /\ op.kind = "none"
  /\ replies # <<>> /\ QuietFront(replies)
  /\ replies[Len(replies)].kind = q.kind
  /\ q.kind = "write" /\ replies[Len(replies)].ok => flash[q.page] = q.data
Somewhere(q) == Coming(q) \/ Doing(q) \/ Answered(q)

AnswerType ==
  [kind : {"ping"}, bootloader : BOOLEAN, longUp : BOOLEAN]
    \cup [kind : {"latch"}]
    \cup [kind : {"checksum"}, length : {"erased", "set"}, images : SUBSET Image]
    \cup [kind : Changing, ok : BOOLEAN]

(* An upload only ever asks for the latch, so no update from the clone     *)
(* area begins.                                                            *)
NoUpdate ==
  /\ mode \notin {"erasing", "cloning"}
  /\ latchReg # "update"
  /\ op.kind \in {"none", "firmware", "all", "write"}
Known == Safe /\ Progress /\ SessionInv /\ replies \in Seq(AnswerType) /\ NoUpdate

-----------------------------------------------------------------------------
LEMMA QuietSeqs ==
  ASSUME NEW S, NEW s \in Seq(S)
  PROVE  /\ Quiet(<<>>)
         /\ s # <<>> /\ Quiet(s) => Quiet(Tail(s)) /\ Head(s).kind \notin Changing
         /\ \A x \in S : Quiet(s) /\ x.kind \notin Changing => Quiet(Append(s, x))
<1>1. Quiet(<<>>)
  BY DEF Quiet
<1>2. ASSUME s # <<>>, Quiet(s) PROVE Quiet(Tail(s)) /\ Head(s).kind \notin Changing
  <2>1. Head(s) = s[1] /\ Len(s) \in Nat /\ Len(s) >= 1 /\ Len(Tail(s)) = Len(s) - 1
    BY <1>2
  <2>2. \A i \in 1 .. Len(Tail(s)) : Tail(s)[i] = s[i + 1] /\ i + 1 \in 1 .. Len(s)
    BY <1>2
  <2> QED BY <1>2, <2>1, <2>2 DEF Quiet
<1>3. ASSUME NEW x \in S, Quiet(s), x.kind \notin Changing PROVE Quiet(Append(s, x))
  <2>1. Len(Append(s, x)) = Len(s) + 1 /\ Append(s, x)[Len(s) + 1] = x
    OBVIOUS
  <2>2. \A i \in 1 .. Len(s) : Append(s, x)[i] = s[i]
    OBVIOUS
  <2> QED BY <1>3, <2>1, <2>2 DEF Quiet
<1> QED BY <1>1, <1>2, <1>3

LEMMA EmptySeqs == ASSUME NEW S, NEW s \in Seq(S), Len(s) = 0 PROVE s = <<>>
OBVIOUS

LEMMA FrontSeqs ==
  ASSUME NEW S, NEW s \in Seq(S)
  PROVE  /\ s # <<>> /\ QuietFront(s)
              => \/ /\ Tail(s) = <<>> /\ Head(s) = s[Len(s)]
                 \/ /\ Tail(s) # <<>> /\ Tail(s)[Len(Tail(s))] = s[Len(s)]
                    /\ QuietFront(Tail(s)) /\ Head(s).kind \notin Changing
         /\ \A x \in S : Quiet(s) => /\ QuietFront(Append(s, x)) /\ Append(s, x) # <<>>
                                     /\ Append(s, x)[Len(Append(s, x))] = x
<1>1. ASSUME s # <<>>, QuietFront(s)
      PROVE  \/ /\ Tail(s) = <<>> /\ Head(s) = s[Len(s)]
             \/ /\ Tail(s) # <<>> /\ Tail(s)[Len(Tail(s))] = s[Len(s)]
                /\ QuietFront(Tail(s)) /\ Head(s).kind \notin Changing
  <2>1. Head(s) = s[1] /\ Len(s) \in Nat /\ Len(s) >= 1 /\ Len(Tail(s)) = Len(s) - 1
    BY <1>1
  <2>2. \A i \in 1 .. Len(Tail(s)) : Tail(s)[i] = s[i + 1] /\ i + 1 \in 1 .. Len(s)
    BY <1>1
  <2>t. Tail(s) \in Seq(S)
    BY <1>1
  <2>3. CASE Len(s) = 1
    <3>1. Len(Tail(s)) = 0
      BY <2>1, <2>3
    <3>2. Tail(s) = <<>>
      BY <3>1, <2>t, EmptySeqs
    <3> QED BY <2>1, <2>3, <3>2
  <2>4. CASE Len(s) >= 2
    <3>1. Len(Tail(s)) \in 1 .. Len(Tail(s)) /\ 1 \in 1 .. Len(s) - 1 /\ Tail(s) # <<>>
      <4>1. Len(Tail(s)) \in Nat /\ Len(Tail(s)) >= 1
        BY <2>1, <2>4
      <4>2. Tail(s) # <<>>
        <5>1. Len(<<>>) = 0
          OBVIOUS
        <5>2. Len(Tail(s)) # 0
          BY <4>1
        <5> QED BY <5>1, <5>2, Zenon
      <4> QED BY <4>1, <4>2, <2>1, <2>4
    <3>2. \A i \in 1 .. Len(Tail(s)) - 1 : i + 1 \in 1 .. Len(s) - 1 /\ Tail(s)[i] = s[i + 1]
      BY <2>1, <2>2
    <3>3. QuietFront(Tail(s))
      BY <1>1, <3>2 DEF QuietFront
    <3>4. Tail(s)[Len(Tail(s))] = s[Len(s)]
      BY <2>1, <2>2, <3>1
    <3>5. Head(s).kind \notin Changing
      BY <1>1, <2>1, <3>1 DEF QuietFront
    <3> QED BY <3>1, <3>3, <3>4, <3>5
  <2> QED BY <2>1, <2>3, <2>4
<1>2. ASSUME NEW x \in S, Quiet(s)
      PROVE  /\ QuietFront(Append(s, x)) /\ Append(s, x) # <<>>
             /\ Append(s, x)[Len(Append(s, x))] = x
  <2>1. Len(Append(s, x)) = Len(s) + 1 /\ Append(s, x)[Len(s) + 1] = x
    OBVIOUS
  <2>2. \A i \in 1 .. Len(s) : Append(s, x)[i] = s[i]
    OBVIOUS
  <2>3. Append(s, x) # <<>> /\ Len(s) \in Nat
    BY <2>1
  <2> QED BY <1>2, <2>1, <2>2, <2>3 DEF Quiet, QuietFront
<1> QED BY <1>1, <1>2

-----------------------------------------------------------------------------
(* What a step of the board, or of what goes wrong, does to requests, the  *)
(* command under way and replies: it answers a question, starts or refuses *)
(* a command, works on one, or drops something.                            *)
ServesQuiet ==
  /\ requests # <<>> /\ Head(requests).kind \notin Changing
  /\ requests' = Tail(requests)
  /\ op.kind = "none" /\ op'.kind = "none"
  /\ \E r \in AnswerType : r.kind \notin Changing /\ replies' = Append(replies, r)
Starts ==
  /\ requests # <<>> /\ Head(requests).kind \in Changing
  /\ requests' = Tail(requests)
  /\ op.kind = "none"
  /\ LET q == Head(requests) IN
       \/ /\ UNCHANGED replies
          /\ op'.kind = q.kind
          /\ q.kind = "write" => op'.pos = q.page /\ op'.data = q.data
       \/ /\ op'.kind = "none"
          /\ replies' = Append(replies, [kind |-> q.kind, ok |-> FALSE])
Works ==
  /\ op.kind \in Changing
  /\ UNCHANGED requests
  /\ \/ /\ UNCHANGED replies
        /\ op'.kind = op.kind /\ op.kind # "write"
     \/ /\ op'.kind = "none"
        /\ \E b \in BOOLEAN :
             /\ replies' = Append(replies, [kind |-> op.kind, ok |-> b])
             /\ op.kind = "write" /\ b => flash'[op.pos] = op.data
Drops ==
  /\ \/ UNCHANGED requests
     \/ requests' = <<>>
     \/ requests # <<>> /\ requests' = Tail(requests)
  /\ \/ UNCHANGED replies
     \/ replies # <<>> /\ replies' = Tail(replies)
  /\ op'.kind = "none" \/ UNCHANGED op

LEMMA NoneIsNone == NoOp.kind = "none"
BY DEF NoOp

LEMMA PingForm == ASSUME Known, Ping PROVE ServesQuiet
<1>1. /\ requests # <<>> /\ Head(requests).kind = "ping" /\ requests' = Tail(requests)
      /\ op.kind = "none" /\ op' = op
  BY DEF Ping, Take, Served, board, vars
<1>2. PICK long \in BOOLEAN :
        replies' = Append(replies, [kind |-> "ping", bootloader |-> mode = "idle", longUp |-> long])
  BY DEF Ping, Answer
<1>3. (mode = "idle") \in BOOLEAN
  OBVIOUS
<1>4. [kind |-> "ping", bootloader |-> mode = "idle", longUp |-> long] \in AnswerType
  BY <1>3 DEF AnswerType
<1> QED BY <1>1, <1>2, <1>4 DEF ServesQuiet, Changing

LEMMA LatchForm == ASSUME Known, Latch PROVE ServesQuiet
<1>1. /\ requests # <<>> /\ Head(requests).kind = "latch" /\ requests' = Tail(requests)
      /\ op.kind = "none" /\ op' = NoOp
      /\ replies' = Append(replies, [kind |-> "latch"])
  BY DEF Latch, Take, RebootWith, Serve, Reboot, Reset, Answer
<1>2. [kind |-> "latch"] \in AnswerType
  BY DEF AnswerType
<1> QED BY <1>1, <1>2, NoneIsNone DEF ServesQuiet, Changing

LEMMA ChecksumForm == ASSUME Known, Checksum PROVE ServesQuiet
<1>1. /\ requests # <<>> /\ Head(requests).kind = "checksum" /\ requests' = Tail(requests)
      /\ op.kind = "none" /\ op' = op
  BY DEF Checksum, Take, Served, board, vars
<1>2. PICK length \in Lengths :
        replies' = Append(replies, [kind |-> "checksum", length |-> length,
                                    images |-> { im \in Image : CompleteAt(flash, 0, im) }])
  BY DEF Checksum, Answer
<1>3. length \in {"erased", "set"}
  BY DEF Lengths
<1>4. [kind |-> "checksum", length |-> length,
       images |-> { im \in Image : CompleteAt(flash, 0, im) }] \in AnswerType
  BY <1>3 DEF AnswerType
<1> QED BY <1>1, <1>2, <1>4 DEF ServesQuiet, Changing

LEMMA StartForm ==
  ASSUME Known, NEW kind \in Changing, Take(kind), NEW o, o.kind = kind,
         kind = "write" => o.pos = Head(requests).page /\ o.data = Head(requests).data,
         op.kind = "none", Start(o) \/ Refuse, AnswerIfOver(kind)
  PROVE  Starts
<1>1. requests # <<>> /\ Head(requests).kind = kind /\ requests' = Tail(requests)
  BY DEF Take
<1>2. CASE Start(o)
  BY <1>1, <1>2 DEF Start, AnswerIfOver, Starts
<1>3. CASE Refuse
  BY <1>1, <1>3 DEF Refuse, AnswerIfOver, Answer, Starts
<1> QED BY <1>2, <1>3

LEMMA EraseForm == ASSUME Known, Erase PROVE Starts
<1>1. CASE Take("firmware") /\ EraseFirmware /\ AnswerIfOver("firmware")
  <2> DEFINE o == EraseOp("firmware", 1, SectorsFor(HeaderSize(flash, 0)))
  <2>1. o.kind = "firmware"
    BY DEF EraseOp, NoOp
  <2>2. op.kind = "none" /\ (Start(o) \/ Refuse)
    BY <1>1 DEF EraseFirmware, Serve
  <2> HIDE DEF o
  <2> QED BY <1>1, <2>1, <2>2, StartForm DEF Changing
<1>2. CASE Take("all") /\ EraseAll /\ AnswerIfOver("all")
  <2> DEFINE o == EraseOp("all", 0, NSectors)
  <2>1. o.kind = "all"
    BY DEF EraseOp, NoOp
  <2>2. op.kind = "none" /\ (Start(o) \/ Refuse)
    BY <1>2 DEF EraseAll, Serve
  <2> HIDE DEF o
  <2> QED BY <1>2, <2>1, <2>2, StartForm DEF Changing
<1> QED BY <1>1, <1>2 DEF Erase

LEMMA WriteForm == ASSUME Known, Write PROVE Starts
<1> DEFINE q == Head(requests)
           o == WriteOp(q.page, q.data)
<1>1. o.kind = "write" /\ o.pos = q.page /\ o.data = q.data
  BY DEF WriteOp, NoOp
<1>2. op.kind = "none" /\ (Start(o) \/ Refuse) /\ Take("write") /\ AnswerIfOver("write")
  BY DEF Write, WritePage, Serve
<1> HIDE DEF o
<1> QED BY <1>1, <1>2, StartForm DEF Changing

LEMMA WorkForm == ASSUME Known, FlashWork PROVE Works
<1>1. op.kind \in Changing /\ UNCHANGED requests /\ FlashStep
  BY DEF FlashWork, FlashStep, Known, NoUpdate, Changing
<1>2. CASE LastStep
  <2>1. op' = NoOp /\ reply' = (IF Success THEN "ok" ELSE "fail")
    BY <1>1, <1>2 DEF FlashStep
  <2>2. replies' = Append(replies, [kind |-> op.kind, ok |-> reply' = "ok"])
    BY <2>1 DEF FlashWork, AnswerIfOver, Answer
  <2>3. op.kind = "write" /\ reply' = "ok" => flash'[op.pos] = op.data
    BY <2>1 DEF Success, Verified
  <2>4. (reply' = "ok") \in BOOLEAN
    OBVIOUS
  <2> QED BY <1>1, <2>1, <2>2, <2>3, <2>4, NoneIsNone DEF Works
<1>3. CASE ~ LastStep
  <2>1. op' = [op EXCEPT !.pos = @ + 1, !.ok = Success]
    BY <1>1, <1>3 DEF FlashStep
  <2>2. op'.kind = op.kind
    BY <2>1 DEF Known, Safe, TypeOK, OpType
  <2>3. op' # NoOp
    BY <1>1, <2>2, NoneIsNone DEF Changing
  <2>4. op.kind # "write"
    BY <1>3 DEF LastStep, Known, Safe, OpOK, OpIn, TypeOK, OpType
  <2> QED BY <1>1, <2>2, <2>3, <2>4 DEF Works, FlashWork
<1> QED BY <1>2, <1>3

LEMMA BootingForm == ASSUME Known, Booting PROVE Drops /\ UNCHANGED <<flash, op>>
<1>1. UNCHANGED <<requests, replies>>
  BY DEF Booting
<1>2. UNCHANGED <<flash, op>>
  BY DEF Booting, Boot, Autostart, LatchTimeout, StartFirmware, AppInit, Known, NoUpdate
<1> QED BY <1>1, <1>2 DEF Drops

LEMMA TroubleForm == ASSUME Known, Trouble PROVE Drops
<1>1. CASE LostInBoot \/ LoseRequest \/ LoseReply
  BY <1>1 DEF LostInBoot, LoseRequest, LoseReply, board, vars, Drops
<1>2. CASE BoardFails
  <2>1. op' = NoOp
    BY <1>2 DEF BoardFails, PowerCut, WatchdogReset, HardFault, Mishap, Reset
  <2> QED BY <1>2, <2>1, NoneIsNone DEF BoardFails, Drops
<1> QED BY <1>1, <1>2 DEF Trouble

LEMMA Forms ==
  ASSUME Known, Device \/ Trouble
  PROVE  ServesQuiet \/ Starts \/ Works \/ Drops
BY PingForm, LatchForm, ChecksumForm, EraseForm, WriteForm, WorkForm, BootingForm,
   TroubleForm DEF Device

-----------------------------------------------------------------------------
(* Only the command under way changes pages, and a write changes its own.  *)
LEMMA OnlyWritten ==
  ASSUME Known, UploadNext, NEW p \in Page,
         op.kind = "none" \/ (op.kind = "write" /\ p # op.pos)
  PROVE  flash'[p] = flash[p]
<1>1. CASE Ground
  BY <1>1 DEF Ground, Invoke, SendRequest, ReceiveReply, ReceiveTimeout, Decide, board, vars
<1>2. CASE Ping \/ Checksum \/ Latch
  BY <1>2 DEF Ping, Checksum, Latch, RebootWith, board, vars
<1>3. CASE Erase \/ Write
  BY <1>3 DEF Erase, Write, EraseFirmware, EraseAll, WritePage, Start, Refuse
<1>4. p \notin Target
  BY DEF Target
<1>5. CASE FlashWork
  BY <1>4, <1>5, OnlyTarget DEF FlashWork, Known
<1>6. CASE Booting
  BY <1>6, BootingForm
<1>7. CASE LostInBoot \/ LoseRequest \/ LoseReply
  BY <1>7 DEF LostInBoot, LoseRequest, LoseReply, board, vars
<1>8. CASE BoardFails
  BY <1>4, <1>8, OnlyTarget DEF BoardFails, WatchdogReset, HardFault, Known
<1> QED BY <1>1, <1>2, <1>3, <1>5, <1>6, <1>7, <1>8 DEF UploadNext, Device, Trouble

LEMMA NoUpdateKeeps ==
  ASSUME Known, [UploadNext]_uvars
  PROVE  NoUpdate'
<1>1. CASE Ground \/ UNCHANGED uvars
  BY <1>1 DEF Ground, Invoke, SendRequest, ReceiveReply, ReceiveTimeout, Decide, board, vars,
              regs, uvars, Known, NoUpdate
<1>2. CASE Device \/ Trouble
  <2>1. op'.kind \in {"none", "firmware", "all", "write"}
    <3>1. CASE Starts
      BY <3>1 DEF Starts, Changing
    <3>2. CASE Works
      BY <3>2 DEF Works, Changing
    <3>3. CASE Drops
      BY <3>3 DEF Drops, Known, NoUpdate
    <3> QED BY <1>2, <3>1, <3>2, <3>3, Forms DEF ServesQuiet
  <2>2. mode' \notin {"erasing", "cloning"} /\ latchReg' # "update"
    <3> USE DEF Known, NoUpdate
    <3>1. CASE Ping \/ Checksum \/ Latch
      BY <3>1 DEF Ping, Checksum, Latch, RebootWith, Reboot, Reset, board, vars, regs
    <3>2. CASE Erase \/ Write
      BY <3>2 DEF Erase, Write, EraseFirmware, EraseAll, WritePage, Start, Refuse, regs
    <3>3. CASE FlashWork
      BY <3>3 DEF FlashWork, FlashStep, regs
    <3>4. CASE Booting
      BY <3>4 DEF Booting, Boot, Autostart, LatchTimeout, StartFirmware, AppInit, ReadRegisters
    <3>5. CASE LostInBoot \/ LoseRequest \/ LoseReply
      BY <3>5 DEF LostInBoot, LoseRequest, LoseReply, board, vars, regs
    <3>6. CASE BoardFails
      BY <3>6 DEF BoardFails, PowerCut, WatchdogReset, HardFault, Mishap, Reset
    <3> QED BY <1>2, <3>1, <3>2, <3>3, <3>4, <3>5, <3>6 DEF Device, Trouble
  <2> QED BY <2>1, <2>2 DEF NoUpdate
<1> QED BY <1>1, <1>2 DEF UploadNext

LEMMA AnswersKeep ==
  ASSUME Known, [UploadNext]_uvars
  PROVE  replies' \in Seq(AnswerType)
<1>1. /\ replies \in Seq(AnswerType)
      /\ \A r \in AnswerType : Append(replies, r) \in Seq(AnswerType)
      /\ replies # <<>> => Tail(replies) \in Seq(AnswerType)
  BY DEF Known
<1>2. CASE Ground \/ UNCHANGED uvars
  BY <1>1, <1>2 DEF Ground, Invoke, SendRequest, ReceiveReply, ReceiveTimeout, Decide, network, uvars
<1>3. CASE Device \/ Trouble
  <2>1. \A kind \in Changing, b \in BOOLEAN : [kind |-> kind, ok |-> b] \in AnswerType
    BY DEF AnswerType
  <2>2. CASE ServesQuiet
    BY <1>1, <2>2 DEF ServesQuiet
  <2>3. CASE Starts
    BY <1>1, <2>1, <2>3 DEF Starts
  <2>4. CASE Works
    BY <1>1, <2>1, <2>4 DEF Works
  <2>5. CASE Drops
    BY <1>1, <2>5 DEF Drops
  <2> QED BY <1>3, <2>2, <2>3, <2>4, <2>5, Forms
<1> QED BY <1>2, <1>3 DEF UploadNext

LEMMA KnownKeeps ==
  ASSUME Known, [UploadNext]_uvars
  PROVE  Known'
<1>1. SessionInv' /\ [Next]_vars
  BY SessionKeeps, BoardStep DEF Known
<1>2. Safe' /\ Progress'
  BY <1>1, NextSafe, NextProgress DEF Known
<1> QED BY <1>1, <1>2, NoUpdateKeeps, AnswersKeep DEF Known

LEMMA InitKnown == UploadInit => Known
<1> SUFFICES ASSUME UploadInit PROVE Known
  OBVIOUS
<1>1. Safe /\ SessionInv
  BY InitSafe, InitSession DEF UploadInit
<1>2. Progress
  BY DEF UploadInit, Init, Progress, DoneBy, SourceInv, NoOp, EraseKinds
<1>3. replies \in Seq(AnswerType) /\ NoUpdate
  BY NoneIsNone DEF UploadInit, Init, NoUpdate
<1> QED BY <1>1, <1>2, <1>3 DEF Known

-----------------------------------------------------------------------------
(* Where the commands that change the flash are, step by step.             *)
LEMMA NowhereKept ==
  ASSUME Known, Device \/ Trouble, Nowhere
  PROVE  Nowhere'
<1> USE DEF Known, SessionInv
<1>1. op.kind = "none" /\ Quiet(requests) /\ Quiet(replies)
  BY DEF Nowhere
<1>2. requests # <<>> => Quiet(Tail(requests)) /\ Head(requests).kind \notin Changing
  BY <1>1, QuietSeqs
<1>3. /\ replies # <<>> => Quiet(Tail(replies))
      /\ \A r \in AnswerType : r.kind \notin Changing => Quiet(Append(replies, r))
      /\ Quiet(<<>>)
  BY <1>1, QuietSeqs
<1>4. CASE ServesQuiet
  BY <1>2, <1>3, <1>4 DEF ServesQuiet, Nowhere
<1>5. ~ Starts
  BY <1>2 DEF Starts
<1>6. ~ Works
  BY <1>1 DEF Works, Changing
<1>7. CASE Drops
  BY <1>1, <1>2, <1>3, <1>7 DEF Drops, Nowhere
<1> QED BY <1>4, <1>5, <1>6, <1>7, Forms

LEMMA ComingKept ==
  ASSUME Known, Device \/ Trouble, NEW q \in GoodPacket, q.kind \in Changing, Coming(q)
  PROVE  (Nowhere \/ Somewhere(q))'
<1>1. /\ requests \in Seq(GoodPacket) /\ replies \in Seq(AnswerType)
      /\ requests # <<>> /\ QuietFront(requests) /\ requests[Len(requests)] = q
      /\ op.kind = "none" /\ Quiet(replies)
  BY DEF Known, SessionInv, Coming
<1>2. \/ Tail(requests) = <<>> /\ Head(requests) = q
      \/ /\ Tail(requests) # <<>> /\ Tail(requests)[Len(Tail(requests))] = q
         /\ QuietFront(Tail(requests)) /\ Head(requests).kind \notin Changing
  BY <1>1, FrontSeqs
<1>3. /\ replies # <<>> => Quiet(Tail(replies))
      /\ \A r \in AnswerType : r.kind \notin Changing => Quiet(Append(replies, r))
      /\ \A r \in AnswerType : /\ QuietFront(Append(replies, r)) /\ Append(replies, r) # <<>>
                               /\ Append(replies, r)[Len(Append(replies, r))] = r
  BY <1>1, QuietSeqs, FrontSeqs
<1>4. Quiet(<<>>)
  BY DEF Quiet
<1>5. CASE ServesQuiet
  BY <1>1, <1>2, <1>3, <1>5 DEF ServesQuiet, Coming, Somewhere
<1>6. CASE Starts
  <2>1. Head(requests) = q /\ requests' = <<>>
    BY <1>2, <1>6 DEF Starts
  <2>2. CASE UNCHANGED replies /\ op'.kind = q.kind /\ (q.kind = "write" => op'.pos = q.page /\ op'.data = q.data)
    BY <1>1, <2>1, <2>2 DEF Doing, Somewhere
  <2>3. CASE op'.kind = "none" /\ replies' = Append(replies, [kind |-> q.kind, ok |-> FALSE])
    <3> DEFINE r == [kind |-> q.kind, ok |-> FALSE]
    <3>1. r \in AnswerType /\ r.kind = q.kind /\ ~ r.ok
      BY DEF AnswerType
    <3> HIDE DEF r
    <3>2. Answered(q)'
      BY <1>3, <2>1, <2>3, <3>1 DEF Answered, r
    <3> QED BY <3>2 DEF Somewhere
  <2> QED BY <1>6, <2>1, <2>2, <2>3 DEF Starts
<1>7. ~ Works
  BY <1>1 DEF Works, Changing
<1>8. CASE Drops
  <2>1. op'.kind = "none" /\ Quiet(replies)'
    BY <1>1, <1>3, <1>8 DEF Drops
  <2>2. CASE UNCHANGED requests
    BY <1>1, <2>1, <2>2 DEF Coming, Somewhere
  <2>3. CASE requests' = <<>>
    BY <1>4, <2>1, <2>3 DEF Nowhere
  <2>4. CASE requests' = Tail(requests)
    BY <1>2, <1>4, <2>1, <2>4 DEF Nowhere, Coming, Somewhere
  <2> QED BY <1>8, <2>2, <2>3, <2>4 DEF Drops
<1> QED BY <1>5, <1>6, <1>7, <1>8, Forms

LEMMA DoingKept ==
  ASSUME Known, Device \/ Trouble, NEW q \in GoodPacket, q.kind \in Changing, Doing(q)
  PROVE  (Nowhere \/ Somewhere(q))'
<1>1. /\ replies \in Seq(AnswerType) /\ requests = <<>>
      /\ op.kind = q.kind /\ (op.kind = "write" => op.pos = q.page /\ op.data = q.data)
      /\ Quiet(replies) /\ op.kind # "none"
  BY DEF Known, Doing, Changing
<1>2. /\ replies # <<>> => Quiet(Tail(replies))
      /\ \A r \in AnswerType : /\ QuietFront(Append(replies, r)) /\ Append(replies, r) # <<>>
                               /\ Append(replies, r)[Len(Append(replies, r))] = r
  BY <1>1, QuietSeqs, FrontSeqs
<1>3. Quiet(<<>>)
  BY DEF Quiet
<1>4. ~ ServesQuiet /\ ~ Starts
  BY <1>1 DEF ServesQuiet, Starts
<1>5. CASE Works
  <2>1. CASE UNCHANGED replies /\ op'.kind = op.kind /\ op.kind # "write"
    BY <1>1, <1>5, <2>1 DEF Works, Doing, Somewhere
  <2>2. ASSUME op'.kind = "none", NEW b \in BOOLEAN,
               replies' = Append(replies, [kind |-> op.kind, ok |-> b]),
               op.kind = "write" /\ b => flash'[op.pos] = op.data
        PROVE  Answered(q)'
    <3> DEFINE r == [kind |-> op.kind, ok |-> b]
    <3>1. r \in AnswerType /\ r.kind = q.kind /\ r.ok = b
      BY <1>1 DEF AnswerType
    <3> HIDE DEF r
    <3> QED BY <1>1, <1>2, <1>5, <2>2, <3>1 DEF Works, Answered, r
  <2> QED BY <1>5, <2>1, <2>2 DEF Works, Somewhere
<1>6. CASE Drops
  <2>1. requests' = <<>> /\ Quiet(replies)'
    BY <1>1, <1>2, <1>6 DEF Drops
  <2>2. CASE op'.kind = "none"
    BY <1>3, <2>1, <2>2 DEF Nowhere
  <2>3. CASE UNCHANGED op
    BY <1>1, <2>1, <2>3 DEF Doing, Somewhere
  <2> QED BY <1>6, <2>2, <2>3 DEF Drops
<1> QED BY <1>4, <1>5, <1>6, Forms

LEMMA AnsweredKept ==
  ASSUME Known, Device \/ Trouble, NEW q \in GoodPacket, q.kind \in Changing, Answered(q)
  PROVE  (Nowhere \/ Somewhere(q))'
<1>1. /\ replies \in Seq(AnswerType) /\ requests = <<>> /\ op.kind = "none"
      /\ replies # <<>> /\ QuietFront(replies)
      /\ replies[Len(replies)].kind = q.kind
      /\ q.kind = "write" /\ replies[Len(replies)].ok => flash[q.page] = q.data
  BY DEF Known, Answered
<1>2. \/ Tail(replies) = <<>>
      \/ /\ Tail(replies) # <<>> /\ Tail(replies)[Len(Tail(replies))] = replies[Len(replies)]
         /\ QuietFront(Tail(replies))
  BY <1>1, FrontSeqs
<1>3. Quiet(<<>>)
  BY DEF Quiet
<1>4. ~ ServesQuiet /\ ~ Starts /\ ~ Works
  BY <1>1 DEF ServesQuiet, Starts, Works, Changing
<1>5. Drops
  BY <1>4, Forms
<1>6. requests' = <<>> /\ op'.kind = "none"
  BY <1>1, <1>5 DEF Drops
<1>7. flash'[q.page] = flash[q.page]
  BY <1>1, OnlyWritten DEF UploadNext, GoodPacket, PacketType
<1>8. CASE UNCHANGED replies
  BY <1>1, <1>6, <1>7, <1>8 DEF Answered, Somewhere
<1>9. CASE replies' = Tail(replies)
  BY <1>1, <1>2, <1>3, <1>6, <1>7, <1>9 DEF Answered, Somewhere, Nowhere
<1> QED BY <1>5, <1>8, <1>9 DEF Drops

LEMMA SomewhereKept ==
  ASSUME Known, Device \/ Trouble, NEW q \in GoodPacket, q.kind \in Changing,
         Nowhere \/ Somewhere(q)
  PROVE  (Nowhere \/ Somewhere(q))'
BY NowhereKept, ComingKept, DoingKept, AnsweredKept DEF Somewhere

-----------------------------------------------------------------------------
(* The session.  Nothing of an earlier one that would change the flash, or *)
(* be taken for the answer of what does, is left when this one goes on     *)
(* from its first ping.                                                    *)
NothingLeftOver == pc = "latch" => Nowhere

InOrder ==
  /\ pc \in {"latch", "wait", "checksum", "decide", "final", "done"} => Nowhere
  /\ pc \in {"erase", "write", "header"} => Nowhere \/ (waiting /\ Somewhere(Request))

(* What is written is there: all pages up to the one being asked for.      *)
Present(im, n) == \A k \in 1 .. n - 1 : flash[k] = PageOf(im, k)
Filled ==
  /\ pc = "write" => Present(wanted, block)
  /\ pc \in {"header", "final", "done"} => Present(wanted, Size[wanted])
  /\ pc \in {"final", "done"} => flash[0] = PageOf(wanted, 0)
Orderly == InOrder /\ Filled /\ (pc = "done" => wanted \in Image)

LEMMA RequestKinds ==
  /\ pc \in {"ping", "latch", "wait", "checksum", "final"} => Request.kind \notin Changing
  /\ pc \in {"erase", "write", "header"} => Request.kind \in Changing
  /\ pc = "erase" => Request.kind # "write"
  /\ pc = "write" => Request = Packet("write", block, PageOf(wanted, block))
  /\ pc = "header" => Request = Packet("write", 0, PageOf(wanted, 0))
BY DEF Request, Packet, Changing

LEMMA OrderlyOutside ==
  ASSUME Known, Orderly, Device \/ Trouble
  PROVE  Orderly'
<1>1. UNCHANGED tool
  BY DEF Device, Trouble, Ping, Latch, Checksum, Erase, Write, FlashWork, Booting, Idle,
         LostInBoot, LoseRequest, LoseReply, BoardFails
<1>2. Request' = Request
  BY <1>1 DEF tool, Request, Packet
<1>3. UploadNext
  BY DEF UploadNext
<1>4. pc \in {"latch", "wait", "checksum", "decide", "final", "done"} => Nowhere'
  BY NowhereKept DEF Orderly, InOrder
<1>5. ASSUME pc \in {"erase", "write", "header"}, Nowhere \/ (waiting /\ Somewhere(Request))
      PROVE  (Nowhere \/ (waiting /\ Somewhere(Request)))'
  <2>1. PICK q \in GoodPacket : q = Request
    BY <1>5, RequestGood DEF Known, Asking
  <2>2. q.kind \in Changing
    BY <1>5, <2>1, RequestKinds
  <2>3. CASE Nowhere
    BY <2>3, NowhereKept
  <2>4. CASE ~ Nowhere
    <3>1. waiting /\ Somewhere(q)
      BY <1>5, <2>1, <2>4
    <3>2. (Nowhere \/ Somewhere(q))'
      BY <2>2, <3>1, SomewhereKept
    <3>3. waiting'
      BY <1>1, <3>1 DEF tool
    <3> QED BY <1>2, <2>1, <3>2, <3>3
  <2> QED BY <2>3, <2>4
<1>6. InOrder'
  BY <1>1, <1>4, <1>5 DEF Orderly, InOrder, tool
<1>7. ASSUME pc \in {"write", "header", "final", "done"}
      PROVE  /\ wanted \in Image
             /\ op.kind = "none"
                 \/ (pc = "write" /\ op.kind = "write" /\ op.pos = block)
                 \/ (pc = "header" /\ op.kind = "write" /\ op.pos = 0)
  <2>1. wanted \in Image
    BY <1>7 DEF Orderly, Known, SessionInv, Place, Ended
  <2>2. CASE pc \in {"final", "done"}
    BY <2>1, <2>2 DEF Orderly, InOrder, Nowhere
  <2>3. CASE pc \in {"write", "header"}
    <3>1. Nowhere \/ Coming(Request) \/ Doing(Request) \/ Answered(Request)
      BY <2>3 DEF Orderly, InOrder, Somewhere
    <3> QED BY <2>1, <2>3, <3>1, RequestKinds DEF Nowhere, Coming, Doing, Answered, Packet
  <2> QED BY <1>7, <2>2, <2>3
<1>8. Filled'
  <2>1. UNCHANGED <<pc, wanted, block>>
    BY <1>1 DEF tool
  <2>2. ASSUME pc \in {"write", "header", "final", "done"}, NEW k \in 1 .. Size[wanted] - 1,
               pc = "write" => k < block
        PROVE  flash'[k] = flash[k]
    <3>1. k \in Page /\ k # 0
      BY <1>7, <2>2, Sizes
    <3>2. op.kind = "none" \/ (op.kind = "write" /\ k # op.pos)
      <4>1. pc = "write" => block \in Nat /\ k < block
        BY <2>2, <1>7, Sizes DEF Known, SessionInv, Place
      <4> QED BY <1>7, <2>2, <3>1, <4>1
    <3> QED BY <1>3, <3>1, <3>2, OnlyWritten
  <2>3. pc = "write" => Present(wanted, block)'
    <3> SUFFICES ASSUME pc = "write", NEW k \in 1 .. block - 1
                 PROVE  flash'[k] = PageOf(wanted, k)
      BY <2>1 DEF Present
    <3>1. block \in 1 .. Size[wanted] - 1 /\ wanted \in Image
      BY DEF Known, SessionInv, Place, Ended
    <3>2. k \in 1 .. Size[wanted] - 1 /\ k < block
      BY <3>1, Sizes
    <3> QED BY <2>2, <3>2 DEF Orderly, Filled, Present
  <2>4. pc \in {"header", "final", "done"} => Present(wanted, Size[wanted])'
    BY <2>1, <2>2 DEF Orderly, Filled, Present
  <2>5. pc \in {"final", "done"} => flash'[0] = flash[0]
    BY <1>3, <1>7, OnlyWritten, Pages
  <2> QED BY <2>1, <2>3, <2>4, <2>5 DEF Orderly, Filled
<1> QED BY <1>1, <1>6, <1>8 DEF Orderly, tool

(* The answer that a run goes on with is the one to what it has asked, and *)
(* then nothing else is on its way.                                        *)
LEMMA RightAnswer ==
  ASSUME Known, InOrder, pc \in {"erase", "write", "header"}, replies # <<>>,
         Good(Head(replies))
  PROVE  /\ Quiet(requests) /\ op.kind = "none" /\ Tail(replies) = <<>>
         /\ pc = "write" => flash[block] = PageOf(wanted, block)
         /\ pc = "header" => flash[0] = PageOf(wanted, 0)
<1> DEFINE r == Head(replies)
<1>1. r.kind = Request.kind /\ r.ok
  BY DEF Good, Request, Packet
<1>2. r.kind \in Changing /\ replies \in Seq(AnswerType)
  BY <1>1, RequestKinds DEF Known
<1>3. ~ Quiet(replies)
  BY <1>2, QuietSeqs
<1>4. Answered(Request)
  BY <1>3 DEF InOrder, Nowhere, Somewhere, Coming, Doing
<1>5. Tail(replies) = <<>> /\ r = replies[Len(replies)]
  BY <1>2, <1>4, FrontSeqs DEF Answered
<1>6. Request.kind = "write" => flash[Request.page] = Request.data
  BY <1>1, <1>4, <1>5 DEF Answered
<1> QED BY <1>4, <1>5, <1>6, RequestKinds DEF Answered, Packet, Quiet

LEMMA OrderlySend ==
  ASSUME Known, Orderly, SendRequest
  PROVE  Orderly'
<1>1. pc \in Asking /\ ~ waiting /\ waiting' /\ requests' = Append(requests, Request)
      /\ UNCHANGED <<flash, op, replies, pc, block, wanted, switches>>
  BY DEF SendRequest, board, vars
<1>2. Request \in GoodPacket /\ Request' = Request
  BY <1>1, RequestGood DEF Known, Request, Packet
<1>3. Filled' /\ (pc' = "done" => wanted' \in Image)
  BY <1>1 DEF Orderly, Filled, Present
<1>4. pc # "ping" => Nowhere
  BY <1>1 DEF Orderly, InOrder, Asking
<1>5. requests \in Seq(GoodPacket)
  BY DEF Known, SessionInv
<1>6. CASE pc \in {"latch", "wait", "checksum", "final"}
  <2>1. Quiet(Append(requests, Request))
    BY <1>2, <1>4, <1>5, <1>6, QuietSeqs, RequestKinds DEF Nowhere
  <2>2. Nowhere'
    BY <1>1, <1>4, <1>6, <2>1 DEF Nowhere
  <2> QED BY <1>1, <1>3, <1>6, <2>2 DEF InOrder, Orderly
<1>7. CASE pc \in {"erase", "write", "header"}
  <2>1. Coming(Request)'
    <3>1. PICK q \in GoodPacket : q = Request
      BY <1>2
    <3>2. /\ QuietFront(Append(requests, q)) /\ Append(requests, q) # <<>>
          /\ Append(requests, q)[Len(Append(requests, q))] = q
      BY <1>4, <1>5, <1>7, FrontSeqs DEF Nowhere
    <3>3. Coming(q)'
      BY <1>1, <1>4, <1>7, <3>1, <3>2 DEF Nowhere, Coming
    <3> QED BY <1>2, <3>1, <3>3
  <2>2. Somewhere(Request)'
    BY <2>1 DEF Somewhere
  <2> QED BY <1>1, <1>3, <1>7, <2>2 DEF InOrder, Orderly
<1>8. CASE pc = "ping"
  BY <1>1, <1>3, <1>8 DEF InOrder, Orderly
<1> QED BY <1>1, <1>6, <1>7, <1>8 DEF Asking

(* Where a session goes when no answer, or a bad one, comes.               *)
LEMMA BadLeads ==
  ASSUME Bad
  PROVE  /\ pc \in {"latch", "wait", "checksum"} => pc' \in {"latch", "wait", "checksum", "decide"}
         /\ pc \notin {"latch", "wait", "checksum"} => pc' = "failed"
BY DEF Bad, AskAgain, GoTo

LEMMA OrderlyReply ==
  ASSUME Known, Orderly, NothingLeftOver', ReceiveReply
  PROVE  Orderly'
<1> DEFINE r == Head(replies)
<1>1. /\ replies # <<>> /\ replies' = Tail(replies) /\ ~ waiting' /\ pc \in Asking
      /\ UNCHANGED <<flash, op, requests, wanted, switches>>
      /\ IF Good(r) THEN Proceed(r) ELSE Bad
      /\ block' = IF pc = "write" /\ Good(r) THEN block + 1 ELSE block
  BY DEF ReceiveReply, board, vars, Known, SessionInv, Place
<1>2. wanted \in Image /\ Size[wanted] \in Nat
  BY <1>1, Sizes DEF Known, SessionInv, Place, Asking, Ended
<1>3. replies \in Seq(AnswerType)
  BY DEF Known
<1>4. CASE pc = "ping"
  <2>1. pc' \in {"latch", "failed"}
    BY <1>1, <1>4 DEF Proceed, Bad, GoTo
  <2> QED BY <2>1 DEF NothingLeftOver, Orderly, InOrder, Filled
<1>5. CASE pc \in {"latch", "wait", "checksum"}
  <2>1. pc' \in {"latch", "wait", "checksum", "decide", "failed"}
    <3>1. CASE Good(r)
      <4>1. CASE pc = "latch"
        BY <1>1, <3>1, <4>1 DEF Proceed, GoTo
      <4>2. CASE pc = "wait"
        BY <1>1, <3>1, <4>2 DEF Proceed, GoTo, AskAgain
      <4>3. CASE pc = "checksum"
        BY <1>1, <3>1, <4>3 DEF Proceed, GoTo
      <4> QED BY <1>5, <4>1, <4>2, <4>3
    <3>2. CASE ~ Good(r)
      BY <1>1, <1>5, <3>2, BadLeads
    <3> QED BY <3>1, <3>2
  <2>2. Nowhere'
    BY <1>1, <1>3, <1>5, QuietSeqs DEF Orderly, InOrder, Nowhere
  <2> QED BY <2>1, <2>2 DEF Orderly, InOrder, Filled
<1>6. CASE pc \in {"erase", "write", "header"} /\ Good(r)
  <2>1. /\ Quiet(requests) /\ op.kind = "none" /\ Tail(replies) = <<>>
        /\ pc = "write" => flash[block] = PageOf(wanted, block)
        /\ pc = "header" => flash[0] = PageOf(wanted, 0)
    BY <1>1, <1>6, RightAnswer DEF Orderly
  <2>2. Nowhere'
    <3>1. Quiet(<<>>)
      BY DEF Quiet
    <3> QED BY <1>1, <2>1, <3>1 DEF Nowhere
  <2>3. CASE pc = "erase"
    <3>1. pc' \in {"stopped", "write"} /\ block' = 1
      BY <1>1, <1>6, <2>3 DEF Proceed, GoTo, AfterErase, Known, SessionInv, Place, BeforeWriting
    <3> QED BY <2>2, <3>1 DEF Orderly, InOrder, Filled, Present
  <2>4. CASE pc = "write"
    <3>1. pc' = (IF block = Size[wanted] - 1 THEN "header" ELSE "write") /\ block' = block + 1
      BY <1>1, <1>6, <2>4 DEF Proceed, GoTo, AfterWrite, LastBlock
    <3>2. block \in 1 .. Size[wanted] - 1 /\ Present(wanted, block)
      BY <2>4 DEF Known, SessionInv, Place, Orderly, Filled
    <3>3. Present(wanted, block + 1)
      <4> SUFFICES ASSUME NEW k \in 1 .. block PROVE flash[k] = PageOf(wanted, k)
        BY <3>2 DEF Present
      <4>1. k = block \/ k \in 1 .. block - 1
        BY <3>2
      <4> QED BY <2>1, <2>4, <3>2, <4>1 DEF Present
    <3>5. PICK n : n = block + 1
      OBVIOUS
    <3>6. Present(wanted, n)'
      BY <1>1, <3>3, <3>5 DEF Present
    <3>7. pc' = "header" => n = Size[wanted]
      BY <1>2, <3>1, <3>2, <3>5
    <3>8. pc' = "header" => Present(wanted, Size[wanted])'
      BY <1>1, <3>6, <3>7 DEF Present
    <3>9. Present(wanted, block)'
      BY <3>1, <3>5, <3>6
    <3> QED BY <2>2, <3>1, <3>8, <3>9 DEF Orderly, InOrder, Filled
  <2>5. CASE pc = "header"
    <3>1. pc' = "final"
      BY <1>1, <1>6, <2>5 DEF Proceed, GoTo
    <3> QED BY <1>1, <2>1, <2>2, <2>5, <3>1 DEF Orderly, InOrder, Filled, Present
  <2> QED BY <1>6, <2>3, <2>4, <2>5
<1>7. CASE pc = "final" /\ Good(r)
  <2>1. pc' = "done"
    BY <1>1, <1>7 DEF Proceed, GoTo
  <2>2. Nowhere'
    BY <1>1, <1>3, <1>7, QuietSeqs DEF Orderly, InOrder, Nowhere
  <2> QED BY <1>1, <1>2, <1>7, <2>1, <2>2 DEF Orderly, InOrder, Filled, Present
<1>8. CASE pc \in {"erase", "write", "header", "final"} /\ ~ Good(r)
  <2>1. pc' = "failed"
    BY <1>1, <1>8, BadLeads
  <2> QED BY <2>1 DEF Orderly, InOrder, Filled
<1> QED BY <1>1, <1>4, <1>5, <1>6, <1>7, <1>8 DEF Asking

LEMMA OrderlyGround ==
  ASSUME Known, Orderly, NothingLeftOver', Ground
  PROVE  Orderly'
<1>1. CASE Invoke
  <2>1. pc' = "ping"
    BY <1>1 DEF Invoke
  <2> QED BY <2>1 DEF Orderly, InOrder, Filled
<1>2. CASE ReceiveTimeout
  <2>1. Bad /\ UNCHANGED <<flash, op, requests, replies, wanted, block>>
    BY <1>2 DEF ReceiveTimeout, board, vars
  <2>2. pc \in {"latch", "wait", "checksum"} => Nowhere'
    BY <2>1 DEF Orderly, InOrder, Nowhere
  <2>3. (pc' \in {"latch", "wait", "checksum", "decide"} /\ Nowhere') \/ pc' = "failed"
    BY <2>1, <2>2, BadLeads
  <2> QED BY <2>3 DEF Orderly, InOrder, Filled
<1>3. CASE Decide
  <2>1. /\ pc = "decide" /\ pc' \in {"erase", "write", "stopped", "failed"}
        /\ UNCHANGED <<flash, op, requests, replies, block>>
    BY <1>3 DEF Decide, GoTo, board, vars, network
  <2>2. Nowhere' /\ block' = 1
    BY <2>1 DEF Orderly, InOrder, Nowhere, Known, SessionInv, Place, BeforeWriting
  <2> QED BY <2>1, <2>2 DEF Orderly, InOrder, Filled, Present
<1> QED BY <1>1, <1>2, <1>3, OrderlySend, OrderlyReply DEF Ground

LEMMA OrderlyKeeps ==
  ASSUME Known, Orderly, NothingLeftOver', [UploadNext]_uvars
  PROVE  Orderly'
<1>1. CASE UNCHANGED uvars
  <2>1. UNCHANGED <<flash, op, requests, replies, pc, waiting, wanted, block, switches>>
    BY <1>1 DEF uvars, board, vars, network, tool
  <2>2. Request' = Request
    BY <2>1 DEF Request, Packet
  <2>3. Nowhere' = Nowhere /\ \A q : Somewhere(q)' = Somewhere(q)
    BY <2>1 DEF Nowhere, Somewhere, Coming, Doing, Answered
  <2>4. InOrder'
    BY <2>1, <2>2, <2>3 DEF Orderly, InOrder
  <2> QED BY <2>1, <2>4 DEF Orderly, Filled, Present
<1> QED BY <1>1, OrderlyGround, OrderlyOutside DEF UploadNext

-----------------------------------------------------------------------------
(* A header on its way, or being written, finds the rest of its image, and *)
(* no command that could change it comes before it.                        *)
IsHeader(m) == m.kind = "write" /\ m.page = 0
Whole(im) == Present(im, Size[im])
HeaderInv ==
  /\ \A i \in 1 .. Len(requests) :
       IsHeader(requests[i]) =>
         /\ op.kind = "none"
         /\ \A j \in 1 .. i - 1 : requests[j].kind \notin Changing
         /\ Whole(requests[i].data[1])
  /\ op.kind = "write" => /\ op.data[1] \in Image
                          /\ op.pos = 0 => Whole(op.data[1])

LEMMA GoodData ==
  ASSUME NEW m \in GoodPacket, m.kind = "write"
  PROVE  m.page \in Page /\ m.data \in ImagePage /\ m.data[1] \in Image
BY BootloaderAssumption DEF GoodPacket, PacketType, ImagePage

LEMMA WholeKept ==
  ASSUME Known, UploadNext, NEW im \in Image, Whole(im),
         op.kind = "none" \/ (op.kind = "write" /\ op.pos = 0)
  PROVE  Whole(im)'
<1> SUFFICES ASSUME NEW k \in 1 .. Size[im] - 1 PROVE flash'[k] = flash[k]
  BY DEF Whole, Present
<1>1. k \in Page /\ k # 0
  BY Sizes
<1> QED BY <1>1, OnlyWritten

LEMMA TailItems ==
  ASSUME NEW S, NEW s \in Seq(S), s # <<>>
  PROVE  /\ Head(s) = s[1] /\ 1 \in 1 .. Len(s) /\ Len(Tail(s)) = Len(s) - 1
         /\ Len(s) \in Nat
         /\ \A i \in 1 .. Len(Tail(s)) : Tail(s)[i] = s[i + 1] /\ i + 1 \in 1 .. Len(s)
OBVIOUS

LEMMA AppendItems ==
  ASSUME NEW S, NEW s \in Seq(S), NEW x \in S
  PROVE  /\ Len(Append(s, x)) = Len(s) + 1 /\ Len(s) \in Nat
         /\ Append(s, x)[Len(s) + 1] = x
         /\ \A i \in 1 .. Len(s) : Append(s, x)[i] = s[i]
OBVIOUS

(* What a packet that carries a header has found.                          *)
HeaderMet(m) == IsHeader(m) => Whole(m.data[1])

LEMMA HeaderOutside ==
  ASSUME Known, HeaderInv, Device \/ Trouble
  PROVE  HeaderInv'
<1>1. requests \in Seq(GoodPacket) /\ UploadNext
  BY DEF Known, SessionInv, UploadNext
<1>2. \A i \in 1 .. Len(requests) : requests[i] \in GoodPacket
  BY <1>1
<1>3. ASSUME NEW i \in 1 .. Len(requests), IsHeader(requests[i]), NEW m, m = requests[i]
      PROVE  /\ HeaderMet(m)' /\ op.kind = "none"
             /\ \A j \in 1 .. i - 1 : requests[j].kind \notin Changing
  <2>1. m \in GoodPacket
    BY <1>2, <1>3
  <2>2. PICK im \in Image : im = m.data[1]
    BY <1>3, <2>1, GoodData DEF IsHeader
  <2>3. Whole(im) /\ op.kind = "none" /\ \A j \in 1 .. i - 1 : requests[j].kind \notin Changing
    BY <1>3, <2>2 DEF HeaderInv
  <2>4. Whole(im)'
    BY <1>1, <2>3, WholeKept
  <2> QED BY <2>2, <2>3, <2>4 DEF HeaderMet
<1>4. ASSUME op.kind = "write", NEW im, im = op.data[1]
      PROVE  im \in Image /\ (op.pos = 0 => Whole(im)')
  <2>1. im \in Image /\ (op.pos = 0 => Whole(im))
    BY <1>4 DEF HeaderInv
  <2> QED BY <1>1, <1>4, <2>1, WholeKept
<1>5. CASE UNCHANGED requests /\ (op'.kind = "none" \/ UNCHANGED op)
  <2>1. ASSUME NEW i \in 1 .. Len(requests'), IsHeader(requests[i])'
        PROVE  /\ Whole(requests[i].data[1])' /\ op'.kind = "none"
               /\ \A j \in 1 .. i - 1 : requests'[j].kind \notin Changing
    <3>1. PICK m : m = requests[i]
      OBVIOUS
    <3>2. requests'[i] = m /\ i \in 1 .. Len(requests) /\ IsHeader(requests[i]) /\ IsHeader(m)'
      BY <1>5, <2>1, <3>1 DEF IsHeader
    <3>3. HeaderMet(m)' /\ op.kind = "none" /\ \A j \in 1 .. i - 1 : requests[j].kind \notin Changing
      BY <1>3, <3>1, <3>2
    <3> QED BY <1>5, <3>2, <3>3 DEF HeaderMet
  <2>2. ASSUME op'.kind = "write"
        PROVE  op'.data[1] \in Image /\ (op'.pos = 0 => Whole(op.data[1])')
    <3>1. PICK im : im = op.data[1]
      OBVIOUS
    <3>2. op' = op /\ op'.data[1] = im /\ op.kind = "write"
      BY <1>5, <2>2, <3>1
    <3> QED BY <1>4, <3>1, <3>2
  <2> QED BY <2>1, <2>2 DEF HeaderInv
<1>6. CASE requests # <<>> /\ requests' = Tail(requests) /\ op.kind = "none"
  <2>1. /\ Head(requests) = requests[1] /\ 1 \in 1 .. Len(requests) /\ Len(requests) \in Nat
        /\ Len(requests') = Len(requests) - 1
        /\ \A i \in 1 .. Len(requests') : requests'[i] = requests[i + 1] /\ i + 1 \in 1 .. Len(requests)
    BY <1>1, <1>6, TailItems
  <2>2. ASSUME NEW i \in 1 .. Len(requests'), IsHeader(requests[i])'
        PROVE  /\ Whole(requests[i].data[1])'
               /\ Head(requests).kind \notin Changing
               /\ \A j \in 1 .. i - 1 : requests'[j].kind \notin Changing
    <3>1. PICK m : m = requests[i + 1]
      OBVIOUS
    <3>2. requests'[i] = m /\ i + 1 \in 1 .. Len(requests) /\ IsHeader(requests[i + 1]) /\ IsHeader(m)'
      BY <2>1, <2>2, <3>1 DEF IsHeader
    <3>3. HeaderMet(m)' /\ \A j \in 1 .. i : requests[j].kind \notin Changing
      BY <1>3, <3>1, <3>2
    <3>4. \A j \in 1 .. i - 1 : requests'[j] = requests[j + 1] /\ j + 1 \in 1 .. i
      BY <2>1
    <3> QED BY <2>1, <3>2, <3>3, <3>4 DEF HeaderMet
  <2>3. CASE op'.kind = "none"
    BY <2>2, <2>3 DEF HeaderInv
  <2>4. CASE Head(requests).kind \in Changing /\ op'.kind = Head(requests).kind
             /\ (op'.kind = "write" => op'.pos = Head(requests).page /\ op'.data = Head(requests).data)
    <3>1. PICK m : m = Head(requests)
      OBVIOUS
    <3>2. m \in GoodPacket /\ (IsHeader(m) => HeaderMet(m)')
      BY <1>2, <1>3, <2>1, <3>1
    <3>3. ASSUME op'.kind = "write"
          PROVE  op'.data[1] \in Image /\ (op'.pos = 0 => Whole(op.data[1])')
      <4>1. m.kind = "write" /\ m.data[1] \in Image /\ op'.data = m.data /\ op'.pos = m.page
        BY <2>4, <3>1, <3>2, <3>3, GoodData
      <4>2. op'.pos = 0 => IsHeader(m) /\ IsHeader(m)'
        BY <4>1 DEF IsHeader
      <4> QED BY <3>2, <4>1, <4>2 DEF HeaderMet
    <3> QED BY <2>2, <2>4, <3>3 DEF HeaderInv
  <2>5. CASE UNCHANGED op
    BY <1>6, <2>3, <2>5
  <2> HIDE DEF HeaderInv
  <2>6. op'.kind = "none" \/ ~ (op'.kind = "none")
    OBVIOUS
  <2> QED BY <1>6, <2>3, <2>4, <2>5, Forms DEF ServesQuiet, Starts, Works, Drops, Changing
<1>7. CASE requests' = <<>> /\ (op'.kind = "none" \/ UNCHANGED op)
  <2>1. ASSUME op'.kind = "write"
        PROVE  op'.data[1] \in Image /\ (op'.pos = 0 => Whole(op.data[1])')
    <3>1. PICK im : im = op.data[1]
      OBVIOUS
    <3>2. op' = op /\ op'.data[1] = im /\ op.kind = "write"
      BY <1>7, <2>1, <3>1
    <3> QED BY <1>4, <3>1, <3>2
  <2>2. \A i \in 1 .. Len(requests') : FALSE
    BY <1>7
  <2> QED BY <2>1, <2>2 DEF HeaderInv
<1>8. CASE op.kind # "none" /\ (op'.kind # "write" \/ UNCHANGED op)
             /\ (UNCHANGED requests \/ (requests # <<>> /\ requests' = Tail(requests)))
  <2>1. \A i \in 1 .. Len(requests) : ~ IsHeader(requests[i])
    BY <1>8 DEF HeaderInv
  <2>2. \A i \in 1 .. Len(requests') : \E k \in 1 .. Len(requests) : requests'[i] = requests[k]
    <3>1. CASE UNCHANGED requests
      BY <3>1
    <3>2. CASE requests # <<>> /\ requests' = Tail(requests)
      BY <1>1, <3>2, TailItems
    <3> QED BY <1>8, <3>1, <3>2
  <2>3. \A i \in 1 .. Len(requests') : ~ IsHeader(requests'[i])
    BY <2>1, <2>2
  <2>4. ASSUME op'.kind = "write"
        PROVE  op'.data[1] \in Image /\ (op'.pos = 0 => Whole(op.data[1])')
    <3>1. PICK im : im = op.data[1]
      OBVIOUS
    <3>2. op' = op /\ op'.data[1] = im /\ op.kind = "write"
      BY <1>8, <2>4, <3>1
    <3> QED BY <1>4, <3>1, <3>2
  <2> QED BY <2>3, <2>4 DEF HeaderInv, IsHeader
<1> HIDE DEF HeaderInv
<1>9. CASE ServesQuiet \/ Starts
  BY <1>6, <1>9 DEF ServesQuiet, Starts
<1>10. CASE Works
  BY <1>5, <1>8, <1>10 DEF Works, Changing
<1>11. CASE Drops
  BY <1>5, <1>6, <1>7, <1>8, <1>11 DEF Drops
<1> QED BY <1>9, <1>10, <1>11, Forms

LEMMA HeaderGround ==
  ASSUME Known, Orderly, HeaderInv, Ground \/ UNCHANGED uvars
  PROVE  HeaderInv'
<1>1. UNCHANGED <<flash, op>>
  BY DEF Ground, Invoke, SendRequest, ReceiveReply, ReceiveTimeout, Decide, board, vars, uvars
<1>2. CASE UNCHANGED requests
  BY <1>1, <1>2 DEF HeaderInv, Whole, Present
<1>3. CASE SendRequest
  <2>1. pc \in Asking /\ ~ waiting /\ requests' = Append(requests, Request)
    BY <1>3 DEF SendRequest
  <2>2. Request \in GoodPacket /\ requests \in Seq(GoodPacket)
    BY <2>1, RequestGood DEF Known, SessionInv
  <2>3. PICK q \in GoodPacket : q = Request
    BY <2>2
  <2>4. /\ Len(requests') = Len(requests) + 1 /\ Len(requests) \in Nat
        /\ requests'[Len(requests) + 1] = q
        /\ \A i \in 1 .. Len(requests) : requests'[i] = requests[i]
    BY <2>1, <2>2, <2>3, AppendItems
  <2>5. ASSUME IsHeader(q)
        PROVE  /\ Whole(q.data[1]) /\ op.kind = "none"
               /\ \A j \in 1 .. Len(requests) : requests[j].kind \notin Changing
    <3>1. q.kind = "write" /\ q.page = 0
      BY <2>5 DEF IsHeader
    <3>2. pc = "header"
      <4>1. pc \in {"write", "header"}
        BY <2>1, <2>3, <3>1, RequestKinds DEF Changing, Asking
      <4>2. pc = "write" => q.page = block /\ block # 0
        BY <2>3, RequestKinds DEF Packet, Known, SessionInv, Place
      <4> QED BY <3>1, <4>1, <4>2
    <3>3. q.data[1] = wanted
      BY <2>3, <3>2, RequestKinds DEF Packet, PageOf
    <3>4. Nowhere /\ Whole(wanted)
      BY <2>1, <3>2 DEF Orderly, InOrder, Filled, Whole
    <3> QED BY <3>3, <3>4 DEF Nowhere, Quiet
  <2>6. ASSUME NEW i \in 1 .. Len(requests'), NEW m, m = requests'[i], IsHeader(m)
        PROVE  /\ Whole(m.data[1])' /\ op'.kind = "none"
               /\ \A j \in 1 .. i - 1 : requests'[j].kind \notin Changing
    <3>1. CASE i \in 1 .. Len(requests)
      <4>1. Whole(m.data[1]) /\ op.kind = "none" /\ \A j \in 1 .. i - 1 : requests[j].kind \notin Changing
        BY <2>4, <2>6, <3>1 DEF HeaderInv
      <4> QED BY <1>1, <2>4, <3>1, <4>1 DEF Whole, Present
    <3>2. CASE i = Len(requests) + 1
      BY <1>1, <2>4, <2>5, <2>6, <3>2 DEF Whole, Present
    <3> QED BY <2>4, <3>1, <3>2
  <2>7. op.kind = "write" => (op.pos = 0 => Whole(op.data[1]))' /\ op'.data[1] \in Image
    BY <1>1 DEF HeaderInv, Whole, Present
  <2> QED BY <1>1, <2>6, <2>7 DEF HeaderInv, IsHeader
<1> QED BY <1>2, <1>3 DEF Ground, Invoke, ReceiveReply, ReceiveTimeout, Decide, network, uvars

LEMMA HeaderKeeps ==
  ASSUME Known, Orderly, HeaderInv, [UploadNext]_uvars
  PROVE  HeaderInv'
BY HeaderOutside, HeaderGround DEF UploadNext

(* What a step of the command under way, also one cut short, makes of a    *)
(* page.                                                                   *)
LEMMA PageAfter ==
  ASSUME Known, FlashStep \/ PowerCut, NEW p \in Page
  PROVE  \/ flash'[p] = flash[p]
         \/ flash'[p] = Torn /\ p \in InFlight
         \/ flash'[p] = FlashAfter[p]
<1>1. CASE FlashStep
  BY <1>1 DEF FlashStep, FlashChange
<1>2. CASE PowerCut
  BY <1>2 DEF PowerCut, CutShort
<1> QED BY <1>1, <1>2

LEMMA WritesData ==
  ASSUME Known, FlashStep \/ PowerCut, op.kind = "write"
  PROVE  /\ op.pos \in Page
         /\ flash'[op.pos] # flash[op.pos] =>
              flash[op.pos] = Blank /\ flash'[op.pos] \in {op.data, Torn}
<1>1. op.pos \in Page /\ flash \in [Page -> Content]
  BY DEF Known, Safe, TypeOK, OpOK, OpIn
<1>2. FlashAfter = Programmed(flash, op.pos, op.data)
  BY DEF FlashAfter
<1>3. CASE Programmable(flash[op.pos], op.data)
  <2>1. FlashAfter[op.pos] = op.data
    BY <1>1, <1>2, <1>3 DEF Programmed
  <2>2. CASE flash[op.pos] = op.data
    <3>1. FlashAfter = flash
      BY <1>1, <1>2, <1>3, <2>2 DEF Programmed
    <3>2. InFlight = {}
      BY <3>1 DEF InFlight
    <3> QED BY <1>1, <3>1, <3>2, PageAfter
  <2>3. CASE flash[op.pos] = Blank
    BY <1>1, <2>1, <2>3, PageAfter
  <2> QED BY <1>3, <2>2, <2>3 DEF Programmable
<1>4. CASE ~ Programmable(flash[op.pos], op.data)
  <2>1. FlashAfter = flash
    BY <1>2, <1>4 DEF Programmed
  <2>2. InFlight = {}
    BY <2>1 DEF InFlight
  <2> QED BY <1>1, <2>1, <2>2, PageAfter
<1> QED BY <1>3, <1>4

LEMMA ErasesOnly ==
  ASSUME Known, FlashStep \/ PowerCut, op.kind \in {"firmware", "all"}, NEW p \in Page
  PROVE  flash'[p] \in {flash[p], Blank, Torn}
<1>1. FlashAfter = Erased(flash, NextSector)
  BY DEF FlashAfter
<1>2. FlashAfter[p] \in {flash[p], Blank}
  BY <1>1 DEF Erased
<1> QED BY <1>2, PageAfter

LEMMA FlashChanges ==
  ASSUME Known, [UploadNext]_uvars
  PROVE  \/ UNCHANGED flash
         \/ op.kind # "none" /\ (FlashStep \/ PowerCut) /\ UNCHANGED <<tool, offered, agreed>>
<1>1. CASE Ground \/ UNCHANGED uvars
  BY <1>1 DEF Ground, Invoke, SendRequest, ReceiveReply, ReceiveTimeout, Decide, board, vars, uvars
<1>2. CASE Ping \/ Checksum \/ Latch
  BY <1>2 DEF Ping, Checksum, Latch, RebootWith, board, vars
<1>3. CASE Erase \/ Write
  BY <1>3 DEF Erase, Write, EraseFirmware, EraseAll, WritePage, Start, Refuse
<1>4. CASE FlashWork
  BY <1>4 DEF FlashWork, FlashStep
<1>5. CASE Booting
  BY <1>5, BootingForm
<1>6. CASE LostInBoot \/ LoseRequest \/ LoseReply
  BY <1>6 DEF LostInBoot, LoseRequest, LoseReply, board, vars
<1>7. CASE BoardFails
  <2>1. CASE PowerCut
    <3>1. UNCHANGED <<tool, offered, agreed>>
      BY <1>7 DEF BoardFails, Excuse
    <3>2. CASE op.kind = "none"
      <4>1. \A p \in Page : flash'[p] = flash[p]
        BY <1>7, <3>2, OnlyWritten DEF UploadNext, Trouble
      <4>2. flash' \in [Page -> Content] /\ flash \in [Page -> Content]
        BY KnownKeeps DEF Known, Safe, TypeOK
      <4> QED BY <4>1, <4>2
    <3> QED BY <2>1, <3>1, <3>2
  <2> QED BY <1>7, <2>1 DEF BoardFails, WatchdogReset, HardFault
<1> QED BY <1>1, <1>2, <1>3, <1>4, <1>5, <1>6, <1>7 DEF UploadNext, Device, Trouble

LEMMA HeaderLastStep ==
  ASSUME Known, HeaderInv, [UploadNext]_uvars, NEW im \in Image,
         HeaderOf(flash', 0, im), ~ HeaderOf(flash, 0, im)
  PROVE  CompleteAt(flash', 0, im)
<1>1. flash'[0] = PageOf(im, 0) /\ flash'[0] # flash[0] /\ 0 \in Page
  BY Pages DEF HeaderOf
<1>2. op.kind # "none" /\ (FlashStep \/ PowerCut) /\ op.kind \in {"firmware", "all", "write"}
  BY <1>1, FlashChanges DEF Known, NoUpdate
<1>3. flash'[0] \notin {Blank, Torn}
  BY <1>1, FlashAssumption, Pages DEF PageOf, ImagePage
<1>4. op.kind = "write"
  BY <1>1, <1>2, <1>3, ErasesOnly
<1>5. op.pos = 0
  <2>1. UploadNext
    BY <1>1 DEF uvars, board, vars
  <2> QED BY <1>1, <1>4, <2>1, OnlyWritten
<1>6. op.data = PageOf(im, 0)
  BY <1>1, <1>2, <1>3, <1>4, <1>5, WritesData
<1>7. Whole(im)
  BY <1>4, <1>5, <1>6 DEF HeaderInv, PageOf
<1>8. Whole(im)'
  BY <1>1, <1>4, <1>5, <1>7, WholeKept DEF uvars, board, vars
<1>9. Size[im] \in Nat /\ 0 + Size[im] <= NPages /\ \A i \in 0 .. Size[im] - 1 : i = 0 \/ i \in 1 .. Size[im] - 1
  BY FlashAssumption, Sizes, Pages
<1> QED BY <1>1, <1>8, <1>9 DEF Whole, Present, CompleteAt

-----------------------------------------------------------------------------
(* What was agreed to and offered, of all that is on its way.              *)
Granted(m) ==
  /\ m.kind \in {"firmware", "all"} => agreed
  /\ m.kind = "write" => m.data[1] \in offered
Consent ==
  /\ \A i \in 1 .. Len(requests) : Granted(requests[i])
  /\ Granted(op)
  /\ pc = "erase" => agreed
  /\ wanted \in offered \cup {NoImage}
  /\ offered \subseteq Image

LEMMA ConsentOutside ==
  ASSUME Known, Consent, Device \/ Trouble
  PROVE  Consent'
<1>1. UNCHANGED <<tool, offered, agreed>>
  BY DEF Device, Trouble, Ping, Latch, Checksum, Erase, Write, FlashWork, Booting, Idle, record,
         LostInBoot, LoseRequest, LoseReply, BoardFails, Excuse, ExcuseUnless
<1>2. requests \in Seq(GoodPacket) /\ op \in OpType
  BY DEF Known, SessionInv, Safe, TypeOK
<1>3. \A m : Granted(m)' <=> Granted(m)
  BY <1>1 DEF Granted
<1>4. \A i \in 1 .. Len(requests) : Granted(requests[i])
  BY DEF Consent
<1>5. requests # <<>> => /\ \A i \in 1 .. Len(Tail(requests)) : Granted(Tail(requests)[i])
                         /\ Granted(Head(requests))
  <2> SUFFICES ASSUME requests # <<>>
               PROVE  /\ \A i \in 1 .. Len(Tail(requests)) : Granted(Tail(requests)[i])
                      /\ Granted(Head(requests))
    OBVIOUS
  <2>1. /\ Head(requests) = requests[1] /\ 1 \in 1 .. Len(requests)
        /\ \A i \in 1 .. Len(Tail(requests)) :
             Tail(requests)[i] = requests[i + 1] /\ i + 1 \in 1 .. Len(requests)
    BY <1>2, TailItems
  <2> HIDE DEF Granted
  <2> QED BY <1>4, <2>1
<1>6. ASSUME UNCHANGED requests \/ requests' = <<>> \/ (requests # <<>> /\ requests' = Tail(requests))
      PROVE  \A i \in 1 .. Len(requests') : Granted(requests'[i])
  <2>1. CASE UNCHANGED requests
    BY <1>4, <2>1
  <2>2. CASE requests' = <<>>
    BY <2>2
  <2>3. CASE requests # <<>> /\ requests' = Tail(requests)
    BY <1>5, <2>3
  <2> QED BY <1>6, <2>1, <2>2, <2>3
<1>7. UNCHANGED requests \/ requests' = <<>> \/ (requests # <<>> /\ requests' = Tail(requests))
  BY Forms DEF ServesQuiet, Starts, Works, Drops
<1>8. Granted(op)'
  <2>1. PICK o : o = op'
    OBVIOUS
  <2>2. Granted(o)
    <3>1. CASE ServesQuiet
      BY <2>1, <3>1 DEF ServesQuiet, Granted
    <3>2. CASE Starts
      <4>1. PICK q : q = Head(requests)
        OBVIOUS
      <4>2. Granted(q)
        BY <1>5, <3>2, <4>1 DEF Starts
      <4> QED BY <2>1, <3>2, <4>1, <4>2 DEF Starts, Granted
    <3>3. CASE Works
      BY <2>1, <3>3 DEF Works, Granted, Consent
    <3>4. CASE Drops
      BY <2>1, <3>4 DEF Drops, Granted, Consent
    <3> QED BY <3>1, <3>2, <3>3, <3>4, Forms
  <2> QED BY <1>1, <2>1, <2>2 DEF Granted
<1>9. \A i \in 1 .. Len(requests') : Granted(requests'[i])
  BY <1>6, <1>7
<1>10. \A i \in 1 .. Len(requests') : Granted(requests[i])'
  BY <1>1, <1>9 DEF Granted
<1> QED BY <1>1, <1>8, <1>10 DEF Consent, tool

LEMMA ConsentGround ==
  ASSUME Known, Consent, Ground \/ UNCHANGED uvars
  PROVE  Consent'
<1>1. UNCHANGED op
  BY DEF Ground, Invoke, SendRequest, ReceiveReply, ReceiveTimeout, Decide, board, vars, uvars
<1>2. (agreed => agreed') /\ offered \subseteq offered'
  BY DEF Ground, Invoke, SendRequest, ReceiveReply, ReceiveTimeout, Decide, Excuse, record, uvars
<1>3. \A m : Granted(m) => (m.kind \in {"firmware", "all"} => agreed')
                           /\ (m.kind = "write" => m.data[1] \in offered')
  BY <1>2 DEF Granted
<1>4. Granted(op)'
  BY <1>1, <1>2 DEF Granted, Consent
<1>5. CASE UNCHANGED requests
  <2>1. \A i \in 1 .. Len(requests') : Granted(requests[i])'
    BY <1>2, <1>5 DEF Granted, Consent
  <2>2. CASE Invoke
    BY <1>4, <2>1, <2>2 DEF Invoke, Consent
  <2>3. CASE ReceiveReply
    <3>1. pc' = "erase" => agreed
      <4>1. pc' # "erase"
        <5>1. CASE Good(Head(replies))
          <6>1. Proceed(Head(replies)) /\ pc \in Asking
            BY <2>3, <5>1 DEF ReceiveReply, Known, SessionInv, Place
          <6> QED BY <6>1 DEF Proceed, GoTo, AskAgain, AfterErase, AfterWrite, Asking
        <5>2. CASE ~ Good(Head(replies))
          BY <2>3, <5>2, BadLeads DEF ReceiveReply
        <5> QED BY <5>1, <5>2
      <4> QED BY <4>1
    <3> QED BY <1>4, <2>1, <2>3, <3>1 DEF ReceiveReply, Consent, record
  <2>4. CASE ReceiveTimeout
    <3>1. pc' # "erase" /\ UNCHANGED <<wanted, offered, agreed>>
      BY <2>4, BadLeads DEF ReceiveTimeout, Excuse, record
    <3> QED BY <1>4, <2>1, <3>1 DEF Consent
  <2>5. CASE Decide
    <3>1. (pc' = "erase" => agreed') /\ UNCHANGED <<wanted, offered>>
      BY <2>5 DEF Decide, GoTo
    <3> QED BY <1>4, <2>1, <3>1 DEF Consent
  <2>6. CASE SendRequest \/ UNCHANGED uvars
    BY <1>4, <2>1, <2>6 DEF SendRequest, uvars, tool, record, Consent
  <2> QED BY <2>2, <2>3, <2>4, <2>5, <2>6 DEF Ground
<1>6. CASE SendRequest
  <2>1. /\ pc \in Asking /\ requests' = Append(requests, Request)
        /\ UNCHANGED <<pc, wanted, offered, agreed>>
    BY <1>6 DEF SendRequest, record
  <2>2. PICK q \in GoodPacket : q = Request
    BY <2>1, RequestGood DEF Known
  <2>3. Granted(q)
    <3>1. q.kind \in {"firmware", "all"} => pc = "erase"
      BY <2>1, <2>2, RequestKinds DEF Changing, Asking, Request, Packet
    <3>2. q.kind = "write" => q.data[1] = wanted /\ wanted \in Image
      BY <2>1, <2>2, RequestKinds
         DEF Changing, Asking, Packet, PageOf, Known, SessionInv, Place, Ended
    <3> QED BY <3>1, <3>2, BootloaderAssumption DEF Granted, Consent
  <2>4. requests \in Seq(GoodPacket)
    BY DEF Known, SessionInv
  <2>5. /\ Len(requests') = Len(requests) + 1 /\ Len(requests) \in Nat
        /\ requests'[Len(requests) + 1] = q
        /\ \A i \in 1 .. Len(requests) : requests'[i] = requests[i]
    BY <2>1, <2>2, <2>4, AppendItems
  <2>6. \A i \in 1 .. Len(requests') : Granted(requests'[i])
    <3> TAKE i \in 1 .. Len(requests')
    <3>1. CASE i \in 1 .. Len(requests)
      BY <2>5, <3>1 DEF Consent
    <3>2. CASE i = Len(requests) + 1
      BY <2>3, <2>5, <3>2
    <3> QED BY <2>5, <3>1, <3>2
  <2>7. \A i \in 1 .. Len(requests') : Granted(requests[i])'
    BY <2>1, <2>6 DEF Granted
  <2> QED BY <1>4, <2>1, <2>7 DEF Consent
<1> QED BY <1>5, <1>6 DEF Ground, Invoke, ReceiveReply, ReceiveTimeout, Decide, network, uvars

LEMMA ConsentKeeps ==
  ASSUME Known, Consent, [UploadNext]_uvars
  PROVE  Consent'
BY ConsentOutside, ConsentGround DEF UploadNext

LEMMA InstalledIs ==
  /\ \A im \in Image : CompleteAt(flash, 0, im) => Installed = im
  /\ ~ ValidFirmware => Installed = NoImage
  /\ Installed \in Image \cup {NoImage}
  /\ Installed \in Image => CompleteAt(flash, 0, Installed)
<1>1. ASSUME NEW im \in Image, NEW other \in Image, CompleteAt(flash, 0, im), CompleteAt(flash, 0, other)
      PROVE  im = other
  <2>1. 0 \in 0 .. Size[im] - 1 /\ 0 \in 0 .. Size[other] - 1
    BY Sizes
  <2>2. flash[0 + 0] = PageOf(im, 0) /\ flash[0 + 0] = PageOf(other, 0)
    BY <1>1, <2>1 DEF CompleteAt
  <2> QED BY <2>2 DEF PageOf
<1>2. CASE ValidFirmware
  <2>1. Installed \in Image /\ CompleteAt(flash, 0, Installed)
    BY <1>2 DEF Installed, ValidFirmware
  <2> QED BY <1>1, <1>2, <2>1
<1>3. CASE ~ ValidFirmware
  <2>1. Installed = NoImage
    BY <1>3 DEF Installed
  <2> QED BY <1>3, <2>1, BootloaderAssumption DEF ValidFirmware
<1> QED BY <1>2, <1>3

(* What is installed goes away only in an erase, appears only as the image *)
(* of a page being written, and never turns into another one.              *)
LEMMA InstalledStep ==
  ASSUME Known, Consent, Orderly, [UploadNext]_uvars, Installed' # Installed
  PROVE  /\ UNCHANGED <<tool, offered, agreed>> /\ pc # "done"
         /\ \/ agreed /\ Installed # NoImage /\ Installed' = NoImage
            \/ Installed = NoImage /\ Installed' \in offered
<1>1. ~ UNCHANGED flash
  BY DEF Installed, ValidFirmware, CompleteAt
<1>2. op.kind # "none" /\ (FlashStep \/ PowerCut) /\ UNCHANGED <<tool, offered, agreed>>
  BY <1>1, FlashChanges
<1>3. pc # "done"
  BY <1>2 DEF Orderly, InOrder, Nowhere
<1>4. Installed' \in Image \cup {NoImage} /\ (Installed' \in Image => CompleteAt(flash', 0, Installed'))
      /\ \A im \in Image : CompleteAt(flash', 0, im) => Installed' = im
  <2>1. InstalledIs'
    BY InstalledIs, PTL
  <2> QED BY <2>1 DEF CompleteAt
<1>5. \A im \in Image : /\ 0 + Size[im] <= NPages /\ Size[im] \in Nat
                        /\ \A i \in 0 .. Size[im] - 1 : i \in Page /\ 0 + i = i
  BY FlashAssumption, Sizes, Pages
<1>6. CASE op.kind \in {"firmware", "all"}
  <2>1. agreed
    BY <1>6 DEF Consent, Granted
  <2>2. ASSUME NEW im \in Image, CompleteAt(flash', 0, im)
        PROVE  CompleteAt(flash, 0, im)
    <3> SUFFICES ASSUME NEW i \in 0 .. Size[im] - 1 PROVE flash[i] = PageOf(im, i)
      BY <1>5 DEF CompleteAt
    <3>1. flash'[i] = PageOf(im, i) /\ i \in Page
      BY <1>5, <2>2 DEF CompleteAt
    <3>2. PageOf(im, i) \notin {Blank, Torn}
      BY <3>1, FlashAssumption DEF PageOf, ImagePage
    <3> QED BY <1>2, <1>6, <3>1, <3>2, ErasesOnly
  <2>3. Installed' \in Image => Installed' = Installed
    BY <1>4, <2>2, InstalledIs
  <2>4. Installed' = NoImage
    BY <1>4, <2>3
  <2> QED BY <1>2, <1>3, <2>1, <2>4
<1>7. CASE op.kind = "write"
  <2>0. UploadNext
    BY <1>1 DEF uvars, board, vars
  <2>1. \A p \in Page : p # op.pos => flash'[p] = flash[p]
    BY <1>7, <2>0, OnlyWritten
  <2>2. /\ op.pos \in Page
        /\ flash'[op.pos] # flash[op.pos] =>
             flash[op.pos] = Blank /\ flash'[op.pos] \in {op.data, Torn}
    BY <1>2, <1>7, WritesData
  <2>3. ASSUME NEW im \in Image, CompleteAt(flash, 0, im)
        PROVE  CompleteAt(flash', 0, im)
    <3> SUFFICES ASSUME NEW i \in 0 .. Size[im] - 1 PROVE flash'[i] = PageOf(im, i)
      BY <1>5 DEF CompleteAt
    <3>1. flash[i] = PageOf(im, i) /\ i \in Page
      BY <1>5, <2>3 DEF CompleteAt
    <3>2. PageOf(im, i) # Blank
      BY <3>1, FlashAssumption DEF PageOf, ImagePage
    <3> QED BY <2>1, <2>2, <3>1, <3>2
  <2>4. Installed = NoImage
    BY <1>4, <2>3, InstalledIs
  <2>5. Installed' \in Image /\ CompleteAt(flash', 0, Installed')
    BY <1>4, <2>4
  <2>6. PICK im \in Image : im = Installed'
    BY <2>5
  <2>7. ~ CompleteAt(flash, 0, im)
    BY <2>4, <2>6, InstalledIs, BootloaderAssumption
  <2>8. PICK i \in 0 .. Size[im] - 1 : flash[i] # PageOf(im, i)
    BY <1>5, <2>7 DEF CompleteAt
  <2>9. flash'[i] = PageOf(im, i) /\ i \in Page
    BY <1>5, <2>5, <2>6 DEF CompleteAt
  <2>10. PageOf(im, i) # Torn
    BY <2>9, FlashAssumption DEF PageOf, ImagePage
  <2>11. op.data = PageOf(im, i)
    BY <2>1, <2>2, <2>8, <2>9, <2>10
  <2>12. im \in offered
    BY <1>7, <2>11 DEF Consent, Granted, PageOf
  <2> QED BY <1>2, <1>3, <2>4, <2>6, <2>12
<1> QED BY <1>2, <1>6, <1>7 DEF Known, NoUpdate

-----------------------------------------------------------------------------
UploadInv == Known /\ Orderly /\ HeaderInv /\ Consent

LEMMA InitUpload == UploadInit => UploadInv
<1> SUFFICES ASSUME UploadInit PROVE UploadInv
  OBVIOUS
<1>1. Known
  BY InitKnown
<1>2. Orderly
  BY DEF UploadInit, Orderly, InOrder, Filled
<1>3. HeaderInv
  BY NoneIsNone DEF UploadInit, Init, HeaderInv
<1>4. Consent
  BY NoneIsNone, InstalledIs DEF UploadInit, Init, Consent, Granted
<1> QED BY <1>1, <1>2, <1>3, <1>4 DEF UploadInv

LEMMA UploadKeeps == UploadInv /\ NothingLeftOver' /\ [UploadNext]_uvars => UploadInv'
BY KnownKeeps, OrderlyKeeps, HeaderKeeps, ConsentKeeps DEF UploadInv

LEMMA AlwaysUpload == UploadSpec /\ []NothingLeftOver => []UploadInv
BY InitUpload, UploadKeeps, PTL DEF UploadSpec

LEMMA DoneInstalled ==
  ASSUME Known, Orderly, pc = "done"
  PROVE  Installed = wanted
<1>1. wanted \in Image /\ flash[0] = PageOf(wanted, 0) /\ Present(wanted, Size[wanted])
  BY DEF Orderly, Filled
<1>2. Size[wanted] \in Nat /\ 0 + Size[wanted] <= NPages
      /\ \A i \in 0 .. Size[wanted] - 1 : i = 0 \/ i \in 1 .. Size[wanted] - 1
  BY <1>1, FlashAssumption, Sizes, Pages
<1> QED BY <1>1, <1>2, InstalledIs DEF Present, CompleteAt

LEMMA AnswerLeads ==
  ASSUME Known, ReceiveReply \/ ReceiveTimeout
  PROVE  pc' # "none"
<1>1. CASE Bad
  BY <1>1, BadLeads
<1>2. CASE ReceiveReply /\ Proceed(Head(replies))
  <2>1. pc \in Asking
    BY <1>2 DEF ReceiveReply, Known, SessionInv, Place
  <2>2. CASE pc \in {"ping", "latch", "checksum", "header", "final"}
    BY <1>2, <2>2 DEF Proceed, GoTo
  <2>3. CASE pc = "wait"
    BY <1>2, <2>3 DEF Proceed, GoTo, AskAgain
  <2>4. CASE pc \in {"erase", "write"}
    BY <1>2, <2>4 DEF Proceed, GoTo, AfterErase, AfterWrite
  <2> QED BY <2>1, <2>2, <2>3, <2>4 DEF Asking
<1> QED BY <1>1, <1>2 DEF ReceiveReply, ReceiveTimeout

LEMMA PromiseStep ==
  ASSUME UploadInv, UploadInv', [UploadNext]_uvars
  PROVE  [Promise!Next]_(Promise!vars)
<1> USE DEF UploadInv
<1>1. CASE Installed' # Installed
  <2>1. /\ UNCHANGED <<tool, offered, agreed>> /\ pc # "done"
        /\ \/ agreed /\ Installed # NoImage /\ Installed' = NoImage
           \/ Installed = NoImage /\ Installed' \in offered
    BY <1>1, InstalledStep
  <2>2. UNCHANGED Outcome /\ UNCHANGED wanted /\ Outcome # "done"
    BY <2>1 DEF Outcome, tool
  <2> QED BY <2>1, <2>2 DEF Promise!Next, Promise!Withdraw, Promise!Appear
<1>2. CASE UNCHANGED Installed /\ UNCHANGED <<pc, wanted, offered, agreed>>
  BY <1>2 DEF Promise!vars, Outcome
<1>3. CASE Invoke
  <2>1. UNCHANGED <<Installed, agreed>>
    BY <1>3 DEF Invoke, board, vars, Installed, ValidFirmware, CompleteAt
  <2>2. Outcome # "open" /\ Outcome' = "open"
    BY <1>3 DEF Invoke, Outcome, Ended
  <2>3. wanted' \in Image /\ offered' = offered \cup {wanted'}
    BY <1>3 DEF Invoke
  <2> QED BY <2>1, <2>2, <2>3 DEF Promise!Next, Promise!Begin
<1>4. ASSUME UNCHANGED Installed, UNCHANGED <<wanted, offered, agreed>>,
             pc \notin Ended, pc' # "none"
      PROVE  Promise!Finish \/ UNCHANGED Promise!vars
  <2>1. Outcome = "open"
    BY <1>4 DEF Outcome
  <2>2. CASE pc' \notin Ended
    <3>1. Outcome' = "open"
      BY <2>2 DEF Outcome
    <3> QED BY <1>4, <2>1, <3>1 DEF Promise!vars
  <2>3. CASE pc' \in Ended
    <3>1. Outcome' = pc'
      BY <2>3 DEF Outcome
    <3>2. pc' = "done" => Installed' = wanted'
      <4>1. (pc = "done" /\ Known /\ Orderly => Installed = wanted)'
        BY DoneInstalled, PTL
      <4> QED BY <4>1
    <3> QED BY <1>4, <2>1, <2>3, <3>1, <3>2 DEF Promise!Finish, Ended
  <2> QED BY <2>2, <2>3
<1>5. CASE Decide
  <2>1. UNCHANGED Installed /\ UNCHANGED <<wanted, offered>> /\ pc \notin Ended
    BY <1>5 DEF Decide, board, vars, Installed, ValidFirmware, CompleteAt, Ended
  <2>2. CASE agreed' # agreed
    <3>1. agreed' = TRUE /\ pc' = "erase"
      BY <1>5, <2>2 DEF Decide, GoTo
    <3>2. Outcome = "open" /\ Outcome' = "open"
      BY <2>1, <3>1 DEF Outcome, Ended
    <3> QED BY <2>1, <3>1, <3>2 DEF Promise!Next, Promise!Agree
  <2>3. CASE UNCHANGED agreed
    <3>1. pc' # "none"
      BY <1>5 DEF Decide, GoTo
    <3> QED BY <1>4, <2>1, <2>3, <3>1 DEF Promise!Next
  <2> QED BY <2>2, <2>3
<1>6. CASE ReceiveReply \/ ReceiveTimeout
  <2>1. UNCHANGED Installed /\ UNCHANGED <<wanted, offered, agreed>>
    BY <1>6 DEF ReceiveReply, ReceiveTimeout, board, vars, record, Excuse, Installed,
                ValidFirmware, CompleteAt
  <2>2. pc \notin Ended
    BY <1>6 DEF ReceiveReply, ReceiveTimeout, Known, SessionInv, Place, Asking, Ended
  <2>3. pc' # "none"
    BY <1>6, AnswerLeads
  <2> QED BY <1>4, <2>1, <2>2, <2>3 DEF Promise!Next
<1>7. CASE UNCHANGED Installed /\ (SendRequest \/ Device \/ Trouble \/ UNCHANGED uvars)
  <2>1. UNCHANGED <<pc, wanted, offered, agreed>>
    BY <1>7 DEF SendRequest, Device, Trouble, Ping, Latch, Checksum, Erase, Write, FlashWork,
                Booting, Idle, LostInBoot, LoseRequest, LoseReply, BoardFails, Excuse,
                ExcuseUnless, tool, record, uvars
  <2> QED BY <1>2, <1>7, <2>1
<1> QED BY <1>1, <1>3, <1>5, <1>6, <1>7 DEF UploadNext, Ground

(* A header that gets to the board finds the whole image there, as long as *)
(* no run meets, behind its first ping, an erase or a write of an earlier  *)
(* one: however many packets are lost or late within a run.                *)
THEOREM HeaderComesLast == UploadSpec /\ []NothingLeftOver => HeaderLast
<1>1. UploadInv /\ [UploadNext]_uvars
        => [ \A im \in Image :
               HeaderOf(flash', 0, im) /\ ~ HeaderOf(flash, 0, im)
                 => CompleteAt(flash', 0, im) ]_uvars
  BY HeaderLastStep DEF UploadInv
<1> QED BY <1>1, AlwaysUpload, PTL DEF UploadSpec, HeaderLast

(* And session, network and board keep the promise of Install: what is     *)
(* installed changes as a whole and only where it was agreed to, and done  *)
(* is said of what is there.                                               *)
THEOREM PromiseKept == UploadSpec /\ []NothingLeftOver => Installs
<1>1. UploadInit => Promise!Init
  BY InstalledIs DEF UploadInit, Promise!Init, Outcome, Ended
<1>2. UploadInv /\ UploadInv' /\ [UploadNext]_uvars => [Promise!Next]_(Promise!vars)
  BY PromiseStep
<1> QED BY <1>1, <1>2, AlwaysUpload, PTL DEF UploadSpec, Installs, Promise!Spec

-----------------------------------------------------------------------------
(* With one packet lost or late, no more, nothing can be left over: the    *)
(* tool waits for one answer at a time, so at most two requests are        *)
(* pending, and the one its first ping comes in front of is that ping.     *)
Pending == Len(requests) + (IF op.kind = "none" THEN 0 ELSE 1) + Len(replies)
Few ==
  /\ losses \in 0 .. MaxLosses
  /\ Pending <= losses + (IF waiting THEN 1 ELSE 0)
NewestQuiet ==
  \/ requests # <<>> /\ requests[Len(requests)].kind \notin Changing
  \/ /\ requests = <<>> /\ op.kind = "none"
     /\ replies # <<>> /\ replies[Len(replies)].kind \notin Changing
PingNewest == pc = "ping" /\ waiting /\ Pending >= 2 => NewestQuiet
Sparse == Few /\ PingNewest /\ NothingLeftOver

LEMMA Lens ==
  ASSUME NEW S, NEW s \in Seq(S)
  PROVE  /\ Len(s) \in Nat
         /\ s = <<>> <=> Len(s) = 0
         /\ s # <<>> => Len(Tail(s)) = Len(s) - 1
         /\ \A x \in S : Len(Append(s, x)) = Len(s) + 1
<1>1. Len(s) = 0 => s = <<>>
  BY EmptySeqs
<1> QED BY <1>1

LEMMA PendingNat == ASSUME Known PROVE Pending \in Nat
BY Lens DEF Known, SessionInv, Pending

LEMMA PendingOutside ==
  ASSUME Known, Device \/ Trouble
  PROVE  /\ Pending' <= Pending
         /\ Drops /\ Pending' = Pending => UNCHANGED <<requests, replies>>
                                            /\ (op'.kind = "none" <=> op.kind = "none")
<1>1. /\ requests \in Seq(GoodPacket) /\ replies \in Seq(AnswerType)
      /\ Len(requests) \in Nat /\ Len(replies) \in Nat
      /\ requests # <<>> => Len(Tail(requests)) = Len(requests) - 1
      /\ replies # <<>> => Len(Tail(replies)) = Len(replies) - 1
      /\ \A r \in AnswerType : Len(Append(replies, r)) = Len(replies) + 1
      /\ requests = <<>> <=> Len(requests) = 0
      /\ Len(<<>>) = 0
  BY Lens DEF Known, SessionInv
<1>2. \A kind \in Changing, b \in BOOLEAN : [kind |-> kind, ok |-> b] \in AnswerType
  BY DEF AnswerType
<1>3. CASE ServesQuiet
  <2>1. Pending' = Pending
    BY <1>1, <1>3 DEF ServesQuiet, Pending
  <2>2. Len(replies') = Len(replies) + 1
    BY <1>1, <1>3 DEF ServesQuiet
  <2>3. ~ Drops
    <3>1. replies' # replies
      BY <1>1, <2>2
    <3>2. ASSUME replies # <<>>, replies' = Tail(replies) PROVE FALSE
      BY <1>1, <2>2, <3>2
    <3> QED BY <3>1, <3>2 DEF Drops
  <2> QED BY <2>1, <2>3, PendingNat
<1>4. CASE Starts
  <2>1. Len(requests') = Len(requests) - 1 /\ op.kind = "none"
    BY <1>1, <1>4 DEF Starts
  <2>2. \/ UNCHANGED replies
        \/ op'.kind = "none" /\ Len(replies') = Len(replies) + 1
    BY <1>1, <1>2, <1>4 DEF Starts
  <2>3. ~ UNCHANGED requests
    BY <1>1, <2>1
  <2>4. Pending' <= Pending
    BY <1>1, <2>1, <2>2 DEF Pending
  <2>5. Drops => Pending' < Pending
    <3>1. Drops => op'.kind = "none"
      BY <2>1 DEF Drops
    <3>2. Drops => Len(replies') <= Len(replies) /\ Len(replies') \in Nat
      BY <1>1 DEF Drops
    <3> QED BY <1>1, <2>1, <3>1, <3>2 DEF Pending
  <2> QED BY <1>1, <2>4, <2>5, PendingNat DEF Pending
<1>5. CASE Works
  <2>1. op.kind # "none" /\ UNCHANGED requests
    BY <1>5 DEF Works, Changing
  <2>2. \/ UNCHANGED replies /\ op'.kind # "none"
        \/ op'.kind = "none" /\ Len(replies') = Len(replies) + 1
    BY <1>1, <1>2, <1>5 DEF Works, Changing
  <2>3. Pending' = Pending
    BY <1>1, <2>1, <2>2 DEF Pending
  <2>4. Drops => Len(replies') <= Len(replies)
    BY <1>1 DEF Drops
  <2>5. Drops => UNCHANGED replies /\ op'.kind # "none"
    BY <1>1, <2>2, <2>4
  <2> QED BY <1>1, <2>1, <2>3, <2>5 DEF Pending
<1>6. CASE Drops
  <2>1. /\ UNCHANGED requests \/ Len(requests') < Len(requests)
        /\ UNCHANGED replies \/ Len(replies') < Len(replies)
        /\ Len(requests') \in Nat /\ Len(replies') \in Nat
    <3>1. UNCHANGED requests \/ Len(requests') < Len(requests)
      <4>1. CASE requests' = <<>>
        <5>1. requests = <<>> \/ Len(requests) > 0
          BY <1>1
        <5> QED BY <1>1, <4>1, <5>1
      <4>2. CASE requests # <<>> /\ requests' = Tail(requests)
        BY <1>1, <4>2
      <4> QED BY <1>6, <4>1, <4>2 DEF Drops
    <3>2. Len(requests') \in Nat
      BY <1>1, <1>6 DEF Drops
    <3> QED BY <1>1, <1>6, <3>1, <3>2 DEF Drops
  <2>2. op'.kind = "none" \/ UNCHANGED op
    BY <1>6 DEF Drops
  <2> QED BY <1>1, <2>1, <2>2 DEF Pending
<1> QED BY <1>3, <1>4, <1>5, <1>6, Forms

LEMMA LossesOutside ==
  ASSUME losses \in 0 .. MaxLosses, Device \/ Trouble
  PROVE  losses' \in 0 .. MaxLosses /\ losses' >= losses
<1>1. losses' = losses \/ (losses < MaxLosses /\ losses' = losses + 1)
  BY DEF Device, Trouble, Ping, Latch, Checksum, Erase, Write, FlashWork, Booting, Idle,
         LostInBoot, LoseRequest, LoseReply, BoardFails, Miscarry
<1> QED BY <1>1, UploadAssumption

LEMMA NewestKept ==
  ASSUME Known, Device \/ Trouble, NewestQuiet, Pending' = Pending, Pending >= 2
  PROVE  NewestQuiet'
<1>1. requests \in Seq(GoodPacket) /\ replies \in Seq(AnswerType)
  BY DEF Known, SessionInv
<1>2. requests # <<>> => Head(requests) = requests[1] /\ Len(requests) \in Nat
  BY <1>1
<1>3. ASSUME requests # <<>>, Tail(requests) # <<>>
      PROVE  Tail(requests)[Len(Tail(requests))] = requests[Len(requests)]
  BY <1>1, <1>3, TailItems
<1>4. ASSUME requests # <<>>, Tail(requests) = <<>>
      PROVE  Head(requests) = requests[Len(requests)]
  <2>1. Len(Tail(requests)) = 0 /\ Len(Tail(requests)) = Len(requests) - 1
        /\ Len(requests) \in Nat
    BY <1>1, <1>4, TailItems
  <2> QED BY <1>2, <1>4, <2>1
<1>5. CASE ServesQuiet
  <2>1. PICK r \in AnswerType : r.kind \notin Changing /\ replies' = Append(replies, r)
    BY <1>5 DEF ServesQuiet
  <2>2. replies' # <<>> /\ replies'[Len(replies')] = r
    BY <1>1, <2>1
  <2>3. CASE Tail(requests) = <<>>
    BY <1>5, <2>1, <2>2, <2>3 DEF ServesQuiet, NewestQuiet
  <2>4. CASE Tail(requests) # <<>>
    BY <1>3, <1>5, <2>4 DEF ServesQuiet, NewestQuiet
  <2> QED BY <2>3, <2>4
<1>6. CASE Starts
  <2>1. requests # <<>> /\ requests' = Tail(requests) /\ Head(requests).kind \in Changing
    BY <1>6 DEF Starts
  <2>2. requests[Len(requests)].kind \notin Changing
    BY <2>1 DEF NewestQuiet
  <2>3. Tail(requests) # <<>>
    BY <1>4, <2>1, <2>2
  <2> QED BY <1>3, <2>1, <2>2, <2>3 DEF NewestQuiet
<1>7. CASE Works
  <2>1. requests # <<>> /\ UNCHANGED requests
    BY <1>7 DEF Works, NewestQuiet, Changing
  <2> QED BY <2>1 DEF NewestQuiet
<1>8. CASE Drops
  BY <1>8, PendingOutside DEF NewestQuiet
<1> QED BY <1>5, <1>6, <1>7, <1>8, Forms

LEMMA SparseOutside ==
  ASSUME MaxLosses <= 1, Known, Sparse, Device \/ Trouble
  PROVE  Sparse'
<1>1. UNCHANGED tool
  BY DEF Device, Trouble, Ping, Latch, Checksum, Erase, Write, FlashWork, Booting, Idle,
         LostInBoot, LoseRequest, LoseReply, BoardFails
<1>2. Pending \in Nat /\ Pending' \in Nat /\ Pending' <= Pending
  <2>1. UploadNext
    BY DEF UploadNext
  <2>2. Known'
    BY <2>1, KnownKeeps
  <2>3. (Known => Pending \in Nat)'
    BY PendingNat, PTL
  <2> QED BY <2>2, <2>3, PendingNat, PendingOutside
<1>3. Few'
  BY <1>1, <1>2, LossesOutside, UploadAssumption DEF Sparse, Few, tool
<1>4. PingNewest'
  <2> SUFFICES ASSUME pc' = "ping", waiting', Pending' >= 2, ~ NewestQuiet' PROVE FALSE
    BY DEF PingNewest
  <2>1. NewestQuiet /\ Pending >= 2
    BY <1>1, <1>2 DEF Sparse, PingNewest, tool
  <2>2. Pending' # Pending
    BY <2>1, NewestKept
  <2>3. Pending <= 2
    BY <1>2, UploadAssumption DEF Sparse, Few
  <2> QED BY <1>2, <2>2, <2>3
<1>5. NothingLeftOver'
  BY <1>1, NowhereKept DEF Sparse, NothingLeftOver, tool
<1> QED BY <1>3, <1>4, <1>5 DEF Sparse

LEMMA LatchFrom ==
  ASSUME pc \in Asking, pc' = "latch", Bad \/ \E r \in AnswerType : Proceed(r)
  PROVE  pc \in {"ping", "latch"}
<1>1. CASE Bad
  BY <1>1 DEF Bad, AskAgain, GoTo
<1>2. ASSUME NEW r \in AnswerType, Proceed(r) PROVE pc \in {"ping", "latch"}
  BY <1>2 DEF Proceed, GoTo, AskAgain, AfterErase, AfterWrite, Asking
<1> QED BY <1>1, <1>2

LEMMA PairTail ==
  ASSUME NEW S, NEW s \in Seq(S), Len(s) = 2
  PROVE  Len(Tail(s)) = 1 /\ Tail(s)[1] = s[2]
<1>1. s # <<>>
  <2>1. s = <<>> => Len(s) = 0
    OBVIOUS
  <2> QED BY <2>1
<1>2. Len(Tail(s)) = 1
  BY <1>1
<1>3. \A i \in 1 .. 1 : Tail(s)[i] = s[i + 1]
  BY <1>1, <1>2, TailItems
<1> QED BY <1>2, <1>3

LEMMA SparseGround ==
  ASSUME MaxLosses <= 1, Known, Sparse, Ground
  PROVE  Sparse'
<1>1. /\ requests \in Seq(GoodPacket) /\ replies \in Seq(AnswerType)
      /\ Len(requests) \in Nat /\ Len(replies) \in Nat /\ Pending \in Nat
      /\ UNCHANGED op
  BY Lens, PendingNat DEF Known, SessionInv, Ground, Invoke, SendRequest, ReceiveReply,
     ReceiveTimeout, Decide, board, vars
<1>2. losses \in 0 .. MaxLosses /\ losses \in {0, 1}
      /\ Pending <= losses + (IF waiting THEN 1 ELSE 0)
  BY UploadAssumption DEF Sparse, Few
<1>3. CASE Invoke
  <2>1. UNCHANGED <<requests, replies, losses>> /\ waiting' = FALSE /\ pc' = "ping"
        /\ pc \in Ended
    BY <1>3 DEF Invoke, network
  <2>2. ~ waiting
    BY <2>1 DEF Known, SessionInv, Place, Asking, Ended
  <2> QED BY <1>1, <1>2, <2>1, <2>2 DEF Sparse, Few, Pending, PingNewest, NothingLeftOver
<1>4. CASE SendRequest
  <2>1. /\ pc \in Asking /\ ~ waiting /\ waiting' /\ UNCHANGED <<pc, losses, replies>>
        /\ requests' = Append(requests, Request)
    BY <1>4 DEF SendRequest
  <2>2. Request \in GoodPacket
    BY <2>1, RequestGood DEF Known
  <2>3. /\ Len(requests') = Len(requests) + 1
        /\ requests'[Len(requests')] = Request /\ requests' # <<>>
    BY <1>1, <2>1, <2>2
  <2>4. Few'
    BY <1>1, <1>2, <2>1, <2>3 DEF Few, Pending
  <2>5. PingNewest'
    BY <2>1, <2>3, RequestKinds DEF PingNewest, NewestQuiet
  <2>6. pc = "latch" => Nowhere'
    BY <1>1, <2>1, <2>2, QuietSeqs, RequestKinds DEF Sparse, NothingLeftOver, Nowhere
  <2> QED BY <2>1, <2>4, <2>5, <2>6 DEF Sparse, NothingLeftOver
<1>5. CASE ReceiveReply
  <2>1. /\ replies # <<>> /\ replies' = Tail(replies) /\ waiting /\ ~ waiting'
        /\ UNCHANGED <<requests, losses>> /\ pc \in Asking
        /\ IF Good(Head(replies)) THEN Proceed(Head(replies)) ELSE Bad
    BY <1>5 DEF ReceiveReply, Known, SessionInv, Place
  <2>2. Len(replies') = Len(replies) - 1
    BY <1>1, <2>1
  <2>3. Few' /\ PingNewest'
    BY <1>1, <1>2, <2>1, <2>2 DEF Few, Pending, PingNewest
  <2>4. ASSUME pc' = "latch" PROVE Nowhere'
    <3>1. CASE pc = "latch"
      BY <1>1, <2>1, <3>1, QuietSeqs DEF Sparse, NothingLeftOver, Nowhere
    <3>2. CASE pc = "ping"
      <4>1. Good(Head(replies))
        BY <2>1, <2>4, <3>2, BadLeads
      <4>2. Head(replies).kind = "ping"
        BY <3>2, <4>1 DEF Good
      <4>3. Pending \in {1, 2}
        BY <1>1, <1>2, <2>1, <2>2, Lens DEF Pending
      <4>4. CASE Pending = 1
        <5>1. Len(requests) = 0 /\ op.kind = "none" /\ Len(Tail(replies)) = 0
              /\ Tail(replies) \in Seq(AnswerType)
          BY <1>1, <2>1, <2>2, <4>4, Lens DEF Pending
        <5> QED BY <1>1, <2>1, <5>1 DEF Nowhere, Quiet
      <4>5. CASE Pending = 2
        <5>1. NewestQuiet
          BY <2>1, <3>2, <4>5 DEF Sparse, PingNewest
        <5>2. CASE requests # <<>>
          <6>0. Len(requests) # 0 /\ Len(replies) # 0
            BY <1>1, <2>1, <5>2, Lens
          <6>3. Len(requests) = 1 /\ op.kind = "none" /\ Len(replies) = 1
            <7>1. CASE op.kind = "none"
              <8>1. Len(requests) + 0 + Len(replies) = 2
                BY <4>5, <7>1 DEF Pending
              <8>2. \A x, y \in Nat : x # 0 /\ y # 0 /\ x + 0 + y = 2 => x = 1 /\ y = 1
                OBVIOUS
              <8>3. Len(requests) = 1 /\ Len(replies) = 1
                BY <1>1, <6>0, <8>1, <8>2
              <8> QED BY <7>1, <8>3
            <7>2. CASE op.kind # "none"
              <8>1. Len(requests) + 1 + Len(replies) = 2
                BY <4>5, <7>2 DEF Pending
              <8> QED BY <1>1, <6>0, <8>1
            <7> QED BY <7>1, <7>2
          <6>1. Len(requests) = 1 /\ op.kind = "none" /\ Len(Tail(replies)) = 0
            BY ONLY <2>1, <2>2, <6>3
          <6>2. requests[1].kind \notin Changing
            BY <5>1, <5>2, <6>1 DEF NewestQuiet
          <6> QED BY <1>1, <2>1, <6>1, <6>2 DEF Nowhere, Quiet
        <5>3. CASE requests = <<>>
          <6>1. op.kind = "none" /\ replies[Len(replies)].kind \notin Changing
            BY <5>1, <5>3 DEF NewestQuiet
          <6>2. Len(replies) = 2
            BY <1>1, <4>5, <5>3, <6>1 DEF Pending
          <6>3. Len(Tail(replies)) = 1 /\ Tail(replies)[1] = replies[2]
            BY <1>1, <6>2, PairTail
          <6> QED BY <1>1, <2>1, <5>3, <6>1, <6>2, <6>3 DEF Nowhere, Quiet
        <5> QED BY <5>2, <5>3
      <4> QED BY <4>3, <4>4, <4>5
    <3>3. pc \in {"ping", "latch"}
      <4>1. Head(replies) \in AnswerType
        BY <1>1, <2>1
      <4> QED BY <2>1, <2>4, <4>1, LatchFrom
    <3> QED BY <3>1, <3>2, <3>3
  <2> QED BY <2>3, <2>4 DEF Sparse, NothingLeftOver
<1>6. CASE ReceiveTimeout
  <2>1. /\ waiting /\ ~ waiting' /\ Bad /\ UNCHANGED <<requests, replies>>
        /\ IF AnswerComes THEN losses < MaxLosses /\ losses' = losses + 1
                          ELSE UNCHANGED losses
    BY <1>6 DEF ReceiveTimeout, Miscarry
  <2>2. ~ AnswerComes => Pending = 0
    BY <1>1 DEF AnswerComes, Pending
  <2>5. Pending' = Pending
    BY <1>1, <2>1 DEF Pending
  <2>6. losses' \in 0 .. MaxLosses /\ Pending' <= losses'
    BY <1>1, <1>2, <2>1, <2>2, <2>5, UploadAssumption
  <2>3. Few' /\ PingNewest'
    BY <2>1, <2>6 DEF Few, Pending, PingNewest
  <2>4. pc' = "latch" => pc = "latch"
    BY <2>1 DEF Bad, AskAgain, GoTo
  <2> QED BY <1>1, <2>1, <2>3, <2>4 DEF Sparse, NothingLeftOver, Nowhere
<1>7. CASE Decide
  <2>1. pc = "decide" /\ pc' \in {"erase", "write", "stopped", "failed"}
        /\ UNCHANGED <<requests, replies, losses, waiting>>
    BY <1>7 DEF Decide, GoTo, network
  <2> QED BY <1>1, <1>2, <2>1 DEF Sparse, Few, Pending, PingNewest, NothingLeftOver
<1> QED BY <1>3, <1>4, <1>5, <1>6, <1>7 DEF Ground

LEMMA SparseKeeps ==
  ASSUME MaxLosses <= 1, Known, Sparse, [UploadNext]_uvars
  PROVE  Sparse'
<1>1. CASE UNCHANGED uvars
  BY <1>1 DEF uvars, board, vars, network, tool, Sparse, Few, Pending, PingNewest, NewestQuiet,
              NothingLeftOver, Nowhere
<1> QED BY <1>1, SparseOutside, SparseGround DEF UploadNext

LEMMA NeverLeftOver == ASSUME MaxLosses <= 1 PROVE UploadSpec => []NothingLeftOver
<1>1. UploadInit => Known /\ Sparse
  <2> SUFFICES ASSUME UploadInit PROVE Known /\ Sparse
    OBVIOUS
  <2>1. Len(requests) = 0 /\ Len(replies) = 0 /\ losses = 0 /\ op.kind = "none" /\ pc = "none"
        /\ waiting = FALSE
    BY NoneIsNone DEF UploadInit, Init
  <2> QED BY <2>1, InitKnown, UploadAssumption
          DEF Sparse, Few, Pending, PingNewest, NothingLeftOver
<1>2. Known /\ Sparse /\ [UploadNext]_uvars => Known' /\ Sparse'
  BY KnownKeeps, SparseKeeps
<1>3. Sparse => NothingLeftOver
  BY DEF Sparse
<1> QED BY <1>1, <1>2, <1>3, PTL DEF UploadSpec

(* So both hold without a condition when one packet or reply, over all     *)
(* runs of the tool, is lost or late, and whatever the board does.         *)
THEOREM HeaderLastOneLoss == ASSUME MaxLosses <= 1 PROVE UploadSpec => HeaderLast
BY NeverLeftOver, HeaderComesLast, PTL

(* Likewise the upload implements Install then.                            *)
THEOREM PromiseKeptOneLoss == ASSUME MaxLosses <= 1 PROVE UploadSpec => Installs
BY NeverLeftOver, PromiseKept, PTL

-----------------------------------------------------------------------------
(* A run that is left alone.  It waits for one thing at a time: what it    *)
(* has asked is on its way, under way or answered, and the answer is good; *)
(* nothing is where one of the requests that are repeated has been lost.   *)
Going == pc \notin Ended /\ feasible /\ ~ excused

Silent == requests = <<>> /\ op.kind = "none" /\ replies = <<>>
Sent == requests = <<Request>> /\ op.kind = "none" /\ replies = <<>>
AtWork ==
  /\ requests = <<>> /\ replies = <<>>
  /\ pc \in {"erase", "write", "header"}
  /\ op.kind = Request.kind /\ op.ok
  /\ op.kind = "write" => op.pos = Request.page /\ op.data = Request.data
Right(r) ==
  /\ Good(r)
  /\ pc = "wait" => r.bootloader
  /\ pc = "checksum" => r.length \in Lengths
Back ==
  /\ requests = <<>> /\ op.kind = "none"
  /\ \E r \in AnswerType : replies = <<r>> /\ Right(r)
Timely ==
  \/ Silent /\ (waiting => Repeated)
  \/ waiting /\ (Sent \/ AtWork \/ Back)

(* The board is in the bootloader, or comes to it, and the latch keeps it  *)
(* there.  Until then each latch request was lost, and at most one of them *)
(* to the start of a firmware.                                             *)
Held ==
  \/ mode = "reset" /\ latchReg = "latch"
  \/ mode = "idle" /\ latched = "latch"
LatchLost == IF waiting /\ Silent THEN 1 ELSE 0
Loose ==
  /\ mode \in {"idle", "handover", "app"}
  /\ pc = "latch" =>
       /\ replies = <<>>
       /\ mode = "idle" => tries + LatchLost <= losses
       /\ mode = "handover" => tries <= losses
       /\ mode = "app" => tries + LatchLost <= losses + 1
Reached == Held \/ (pc \in {"ping", "latch"} /\ Loose)

(* The flash will hold, or holds, nothing that keeps the image from being  *)
(* written, and what is written is there.                                  *)
Ready == \A i \in 0 .. Size[wanted] - 1 : Programmable(flash[i], PageOf(wanted, i))
Erasing == pc = "erase" /\ (op.kind = "all" \/ replies # <<>>)
Planned ==
  /\ pc \in BeforeWriting /\ ~ Erasing => Feasible(wanted, switches)
  /\ pc = "erase" /\ ~ Erasing => WillErase(switches)
  /\ pc \in BeforeWriting \ {"erase"} => known \in Lengths \cup {"unset"}
  /\ op.kind = "firmware" =>
       HeaderSane(flash, 0) /\ op.end = SectorsFor(HeaderSize(flash, 0))
  /\ op.kind = "all" => op.from = 0 /\ op.end = NSectors
  /\ pc = "erase" /\ replies # <<>> => Ready
  /\ pc \in {"write", "header", "final"} => Ready
  /\ pc = "write" /\ replies # <<>> => flash[block] = PageOf(wanted, block)
  /\ pc = "header" /\ replies # <<>> => flash[0] = PageOf(wanted, 0)
  /\ pc = "write" => Present(wanted, block)
  /\ pc \in {"header", "final"} => Present(wanted, Size[wanted])
  /\ pc = "final" => flash[0] = PageOf(wanted, 0)

Counts == losses \in 0 .. MaxLosses /\ tries \in Nat
OnTrack == Timely /\ Reached /\ Planned

-----------------------------------------------------------------------------
(* What the three parts depend on.                                         *)
LEMMA SameRequest ==
  ASSUME UNCHANGED <<pc, block, wanted, switches>> PROVE Request' = Request
BY DEF Request, Packet

LEMMA SamePlan ==
  ASSUME UNCHANGED <<flash, wanted, switches>>
  PROVE  /\ Feasible(wanted, switches)' <=> Feasible(wanted, switches)
         /\ WillErase(switches)' <=> WillErase(switches)
         /\ Lengths' = Lengths
         /\ Ready' <=> Ready
         /\ HeaderSane(flash, 0)' <=> HeaderSane(flash, 0)
         /\ HeaderSize(flash, 0)' = HeaderSize(flash, 0)
BY DEF Feasible, WillErase, FlashToWrite, Lengths, Ready, HeaderSane, HeaderSize, HeaderOf

LEMMA PlannedSame ==
  ASSUME Planned, UNCHANGED <<flash, op, pc, block, known, wanted, switches>>,
         pc \in {"erase", "write", "header"} => UNCHANGED replies
  PROVE  Planned'
<1>1. /\ Feasible(wanted, switches)' <=> Feasible(wanted, switches)
      /\ WillErase(switches)' <=> WillErase(switches)
      /\ Lengths' = Lengths
      /\ Ready' <=> Ready
      /\ HeaderSane(flash, 0)' <=> HeaderSane(flash, 0)
      /\ HeaderSize(flash, 0)' = HeaderSize(flash, 0)
  BY SamePlan
<1>2. pc = "erase" => (Erasing' <=> Erasing)
  BY DEF Erasing
<1>3. pc # "erase" => ~ Erasing /\ ~ Erasing'
  BY DEF Erasing
<1>4. op'.kind = "firmware" =>
        (HeaderSane(flash, 0) /\ op.end = SectorsFor(HeaderSize(flash, 0)))'
  BY <1>1 DEF Planned, SectorsFor
<1>5. /\ (pc = "write" => Present(wanted, block))'
      /\ (pc \in {"header", "final"} => Present(wanted, Size[wanted]))'
  BY DEF Planned, Present
<1>6. /\ (pc \in BeforeWriting /\ ~ Erasing => Feasible(wanted, switches))'
      /\ (pc = "erase" /\ ~ Erasing => WillErase(switches))'
      /\ (pc \in BeforeWriting \ {"erase"} => known \in Lengths \cup {"unset"})'
  BY <1>1, <1>2, <1>3 DEF Planned
<1>7. /\ (pc = "erase" /\ replies # <<>> => Ready)'
      /\ (pc \in {"write", "header", "final"} => Ready)'
      /\ (pc = "write" /\ replies # <<>> => flash[block] = PageOf(wanted, block))'
      /\ (pc = "header" /\ replies # <<>> => flash[0] = PageOf(wanted, 0))'
      /\ (pc = "final" => flash[0] = PageOf(wanted, 0))'
      /\ (op.kind = "all" => op.from = 0 /\ op.end = NSectors)'
  BY <1>1 DEF Planned
<1> QED BY <1>4, <1>5, <1>6, <1>7 DEF Planned

LEMMA TimelySame ==
  ASSUME Timely,
         UNCHANGED <<flash, op, requests, replies, waiting, pc, block, wanted, switches>>
  PROVE  Timely'
<1>1. Request' = Request /\ Lengths' = Lengths
  BY SameRequest, SamePlan
<1>2. Sent => Sent'
  BY <1>1 DEF Sent
<1>3. AtWork => AtWork'
  BY <1>1 DEF AtWork
<1>4. Back => Back'
  <2>1. \A r \in AnswerType : Right(r) => Right(r)'
    BY <1>1 DEF Right, Good, Matches
  <2> QED BY <2>1 DEF Back
<1> QED BY <1>2, <1>3, <1>4 DEF Timely, Silent, Repeated

(* A packet on its way is what the run has asked last.                     *)
LEMMA OnlyRequest ==
  ASSUME Timely, requests # <<>>
  PROVE  /\ waiting /\ Sent
         /\ Head(requests) = Request /\ Tail(requests) = <<>>
<1>1. waiting /\ Sent
  BY DEF Timely, Silent, AtWork, Back
<1> QED BY <1>1 DEF Sent

LEMMA OnlyReply ==
  ASSUME Timely, replies # <<>>
  PROVE  /\ waiting /\ Back
         /\ \E r \in AnswerType : Head(replies) = r /\ Right(r)
         /\ Tail(replies) = <<>>
<1>1. waiting /\ Back
  BY DEF Timely, Silent, Sent, AtWork
<1> QED BY <1>1 DEF Back

LEMMA KindOf ==
  ASSUME pc \in Asking
  PROVE  /\ Request.kind = "ping" <=> pc \in {"ping", "wait"}
         /\ Request.kind = "latch" <=> pc = "latch"
         /\ Request.kind = "checksum" <=> pc \in {"checksum", "final"}
         /\ Request.kind \in {"firmware", "all"} <=> pc = "erase"
         /\ Request.kind = "write" <=> pc \in {"write", "header"}
         /\ Request.kind = "firmware" => ~ switches.all
BY DEF Request, Packet, Asking

LEMMA AskedFor == ASSUME Known, waiting PROVE pc \in Asking /\ wanted \in Image
BY DEF Known, SessionInv, Place, Asking, Ended

LEMMA NoCommand == ASSUME Known, op.kind = "none" PROVE op = NoOp
BY DEF Known, Safe, OpOK, OpIn

-----------------------------------------------------------------------------
(* The tool's own steps.                                                   *)
LEMMA InvokeOnTrack ==
  ASSUME Known, Counts, Invoke, feasible', ~ excused'
  PROVE  OnTrack'
<1>1. /\ pc' = "ping" /\ waiting' = FALSE /\ known' = "unset" /\ Calm
      /\ UNCHANGED <<flash, op, mode, latched, latchReg, requests, replies, losses>>
      /\ Feasible(wanted', switches')
  BY DEF Invoke, board, vars, regs, network
<1>2. Timely'
  BY <1>1 DEF Timely, Silent, Calm, Served
<1>3. Reached'
  BY <1>1 DEF Reached, Loose, Calm, Served
<1>4. Feasible(wanted, switches)'
  BY <1>1 DEF Feasible, WillErase, FlashToWrite, HeaderSane, HeaderSize, HeaderOf
<1>5. Planned'
  BY <1>1, <1>4 DEF Planned, BeforeWriting, Calm, Served
<1> QED BY <1>2, <1>3, <1>5 DEF OnTrack

LEMMA SendOnTrack ==
  ASSUME Known, Counts, OnTrack, SendRequest
  PROVE  OnTrack'
<1>1. /\ pc \in Asking /\ ~ waiting /\ waiting'
      /\ requests' = Append(requests, Request)
      /\ UNCHANGED <<flash, op, mode, latched, latchReg, replies, losses, pc, tries,
                     block, known, wanted, switches>>
  BY DEF SendRequest, board, vars, regs
<1>2. Silent /\ Request' = Request
  BY <1>1, SameRequest DEF OnTrack, Timely
<1>3. requests' = <<Request>>
  BY <1>1, <1>2 DEF Silent
<1>4. Sent' /\ ~ Silent'
  BY <1>1, <1>2, <1>3 DEF Silent, Sent
<1>5. Timely'
  BY <1>1, <1>4 DEF Timely
<1>6. Reached'
  <2>1. LatchLost = 0 /\ LatchLost' = 0
    BY <1>1, <1>4 DEF LatchLost
  <2>2. Held => Held'
    BY <1>1 DEF Held
  <2>3. Loose => Loose'
    BY <1>1, <2>1 DEF Loose
  <2> QED BY <1>1, <2>2, <2>3 DEF OnTrack, Reached
<1>7. Planned'
  BY <1>1, PlannedSame DEF OnTrack
<1> QED BY <1>5, <1>6, <1>7 DEF OnTrack

(* A board that has nothing left to be asked for its latch is held.        *)
LEMMA LatchedOnce ==
  ASSUME Reached, pc \notin {"ping", "latch"} \/ (pc = "latch" /\ replies # <<>>)
  PROVE  Held
BY DEF Reached, Loose

(* Going on in front of the writes.                                        *)
LEMMA PlannedAhead ==
  ASSUME Planned, Silent', pc \in BeforeWriting \ {"erase"},
         pc' \in {"latch", "wait", "checksum", "decide"},
         UNCHANGED <<flash, wanted, switches>>, known' \in Lengths \cup {"unset"}
  PROVE  Planned'
<1>1. Feasible(wanted, switches)
  BY DEF Planned, Erasing
<1>2. Feasible(wanted, switches)' /\ known' \in Lengths' \cup {"unset"}
  BY <1>1, SamePlan
<1> QED BY <1>2 DEF Planned, Silent

LEMMA ReplyOnTrack ==
  ASSUME Known, Counts, Going, OnTrack, ReceiveReply
  PROVE  pc' # "failed" /\ (pc' \notin Ended => OnTrack')
<1> DEFINE r == Head(replies)
<1>1. /\ replies # <<>> /\ replies' = Tail(replies) /\ waiting /\ ~ waiting'
      /\ pc \in Asking /\ wanted \in Image
      /\ UNCHANGED <<flash, op, mode, latched, latchReg, requests, losses,
                     wanted, switches>>
      /\ IF Good(r) THEN Proceed(r) ELSE Bad
      /\ block' = IF pc = "write" /\ Good(r) THEN block + 1 ELSE block
      /\ known' = IF pc = "checksum" /\ Good(r) THEN r.length ELSE known
  BY AskedFor DEF ReceiveReply, board, vars, regs
<1>2. Right(r) /\ Tail(replies) = <<>> /\ Back
  BY <1>1, OnlyReply DEF OnTrack
<1>3. Proceed(r) /\ Good(r)
  BY <1>1, <1>2 DEF Right
<1>4. Silent'
  BY <1>1, <1>2 DEF Silent, Back
<1>5. Timely'
  BY <1>1, <1>4 DEF Timely
<1>6. pc # "ping" => Held
  BY <1>1, LatchedOnce DEF OnTrack
<1>7. Held => Held'
  BY <1>1 DEF Held
<1> HIDE DEF r
<1>8. CASE pc = "ping"
  <2>1. pc' = "latch" /\ tries' = 0 /\ known' = known
    BY <1>1, <1>3, <1>8 DEF Proceed, GoTo
  <2>2. Reached'
    <3>1. CASE Held
      BY <1>7, <3>1 DEF Reached
    <3>2. CASE Loose
      <4>1. mode' \in {"idle", "handover", "app"} /\ LatchLost' = 0 /\ replies' = <<>>
        BY <1>1, <1>4, <3>2 DEF Loose, LatchLost, Silent
      <4>2. losses' \in Nat
        BY <1>1, UploadAssumption DEF Counts
      <4>3. /\ tries' + LatchLost' <= losses' /\ tries' <= losses'
            /\ tries' + LatchLost' <= losses' + 1
        <5>1. \A n \in Nat : 0 + 0 <= n /\ 0 <= n /\ 0 + 0 <= n + 1
          OBVIOUS
        <5> QED BY <2>1, <4>1, <4>2, <5>1
      <4> QED BY <2>1, <4>1, <4>3 DEF Reached, Loose
    <3> QED BY <3>1, <3>2 DEF OnTrack, Reached
  <2>3. known' \in Lengths \cup {"unset"}
    BY <1>8, <2>1 DEF OnTrack, Planned, BeforeWriting
  <2>4. Planned'
    BY <1>1, <1>4, <1>8, <2>1, <2>3, PlannedAhead DEF OnTrack, BeforeWriting
  <2> QED BY <1>5, <2>1, <2>2, <2>4 DEF OnTrack
<1>9. CASE pc \in {"latch", "wait", "checksum"}
  <2>1. pc' \in {"wait", "checksum", "decide"}
    <3>1. CASE pc = "wait"
      <4>1. r.bootloader
        BY <1>2, <3>1 DEF Right
      <4> QED BY <1>3, <3>1, <4>1 DEF Proceed, GoTo, AskAgain
    <3> QED BY <1>3, <1>9, <3>1 DEF Proceed, GoTo
  <2>2. Reached'
    BY <1>6, <1>7, <1>9 DEF Reached
  <2>3. known' \in Lengths \cup {"unset"}
    BY <1>1, <1>2, <1>9 DEF OnTrack, Planned, BeforeWriting, Right
  <2>4. Planned'
    BY <1>1, <1>4, <1>9, <2>1, <2>3, PlannedAhead DEF OnTrack, BeforeWriting
  <2> QED BY <1>5, <2>1, <2>2, <2>4 DEF OnTrack
<1>10. CASE pc = "erase"
  <2>1. pc' \in {"stopped", "write"} /\ block' = 1 /\ op'.kind = "none"
    BY <1>1, <1>2, <1>3, <1>10
       DEF Proceed, GoTo, AfterErase, Known, SessionInv, Place, BeforeWriting, Back
  <2>2. Ready'
    BY <1>1, <1>10, SamePlan DEF OnTrack, Planned
  <2>3. Present(wanted, block)'
    BY <2>1 DEF Present
  <2>4. pc' = "write" => Planned'
    BY <1>4, <2>1, <2>2, <2>3 DEF Planned, Silent, BeforeWriting
  <2> QED BY <1>5, <1>6, <1>7, <1>10, <2>1, <2>4 DEF OnTrack, Reached, Ended
<1>11. CASE pc = "write"
  <2>1. /\ pc' = IF block = Size[wanted] - 1 THEN "header" ELSE "write"
        /\ block' = block + 1 /\ op'.kind = "none"
        /\ block \in 1 .. Size[wanted] - 1 /\ Size[wanted] \in Nat
    BY <1>1, <1>2, <1>3, <1>11, Sizes
       DEF Proceed, GoTo, AfterWrite, LastBlock, Known, SessionInv, Place, Back
  <2>2. Ready'
    BY <1>1, <1>11, SamePlan DEF OnTrack, Planned
  <2>3. \A k \in 1 .. block : flash[k] = PageOf(wanted, k)
    <3>1. Present(wanted, block) /\ flash[block] = PageOf(wanted, block)
      BY <1>1, <1>11 DEF OnTrack, Planned
    <3> QED BY <2>1, <3>1 DEF Present
  <2>4. /\ pc' = "write" => Present(wanted, block)'
        /\ pc' = "header" => Present(wanted, Size[wanted])'
    BY <1>1, <2>1, <2>3 DEF Present
  <2>5. Planned'
    BY <1>4, <2>1, <2>2, <2>4 DEF Planned, Silent, BeforeWriting
  <2> QED BY <1>5, <1>6, <1>7, <1>11, <2>1, <2>5 DEF OnTrack, Reached
<1>12. CASE pc = "header"
  <2>1. pc' = "final" /\ op'.kind = "none"
    BY <1>1, <1>2, <1>3, <1>12 DEF Proceed, GoTo, Back
  <2>2. Ready' /\ Present(wanted, Size[wanted])' /\ flash'[0] = PageOf(wanted', 0)
    BY <1>1, <1>12, SamePlan DEF OnTrack, Planned, Present
  <2>3. Planned'
    BY <1>4, <2>1, <2>2 DEF Planned, Silent, BeforeWriting
  <2> QED BY <1>5, <1>6, <1>7, <1>12, <2>1, <2>3 DEF OnTrack, Reached
<1>13. CASE pc = "final"
  <2>1. pc' = "done"
    BY <1>3, <1>13 DEF Proceed, GoTo
  <2> QED BY <2>1 DEF Ended
<1> QED BY <1>1, <1>8, <1>9, <1>10, <1>11, <1>12, <1>13 DEF Asking

(* Nothing comes in time only where a request that is repeated was lost,   *)
(* and the last latch request to be sent is not lost.                      *)
LEMMA TimeoutOnTrack ==
  ASSUME MaxLosses + 1 < LatchTries, Known, Counts, Going, OnTrack, ReceiveTimeout,
         ~ excused'
  PROVE  pc' # "failed" /\ OnTrack'
<1>1. /\ waiting /\ ~ waiting' /\ Bad /\ ~ AnswerComes
      /\ mode \notin {"reset", "handover"}
      /\ UNCHANGED <<flash, op, mode, latched, latchReg, requests, replies, losses,
                     block, known, wanted, switches>>
  BY DEF ReceiveTimeout, board, vars, regs, record, Excuse
<1>2. Silent /\ Repeated
  <2>1. Silent
    BY <1>1 DEF AnswerComes, Silent
  <2>2. ~ Sent /\ ~ Back
    BY <2>1 DEF Silent, Sent, Back
  <2>3. ~ AtWork
    BY <2>1, RequestKinds DEF Silent, AtWork, Changing
  <2> QED BY <1>1, <2>1, <2>2, <2>3 DEF OnTrack, Timely
<1>3. pc \in {"latch", "wait", "checksum"}
  BY <1>2 DEF Repeated
<1>4. pc' \in {"latch", "wait", "checksum", "decide"}
  BY <1>1, <1>3, BadLeads
<1>5. Silent' /\ Timely'
  BY <1>1, <1>2 DEF Timely, Silent
<1>6. Planned'
  <2>1. known' \in Lengths \cup {"unset"}
    BY <1>1, <1>3 DEF OnTrack, Planned, BeforeWriting
  <2> QED BY <1>1, <1>3, <1>4, <1>5, <2>1, PlannedAhead DEF OnTrack, BeforeWriting
<1>7. Held => Held'
  BY <1>1 DEF Held
<1>8. CASE Held
  BY <1>4, <1>5, <1>6, <1>7, <1>8 DEF OnTrack, Reached
<1>9. CASE ~ Held
  <2>1. pc = "latch" /\ Loose
    BY <1>3, <1>9 DEF OnTrack, Reached
  <2>2. LatchLost = 1 /\ LatchLost' = 0
    BY <1>1, <1>2 DEF LatchLost
  <2>3. /\ tries \in Nat /\ losses \in Nat /\ losses <= MaxLosses /\ MaxLosses \in Nat
        /\ LatchTries \in Nat
    BY UploadAssumption DEF Counts
  <2>4. mode \in {"idle", "app"}
    BY <1>1, <2>1 DEF Loose
  <2>5. /\ tries + 1 <= losses + 1
        /\ mode = "idle" => tries + 1 <= losses
    BY <2>1, <2>2, <2>3, <2>4 DEF Loose
  <2>6. tries + 1 < LatchTries
    BY <2>3, <2>5
  <2>7. pc' = "latch" /\ tries' = tries + 1
    BY <1>1, <2>1, <2>6 DEF Bad, AskAgain
  <2>8. Loose'
    BY <1>1, <1>5, <2>2, <2>3, <2>4, <2>5, <2>7 DEF Loose, Silent
  <2> QED BY <1>4, <1>5, <1>6, <2>7, <2>8 DEF OnTrack, Reached
<1> QED BY <1>8, <1>9

LEMMA DecideOnTrack ==
  ASSUME Known, Going, OnTrack, Decide, ~ excused'
  PROVE  pc' # "failed" /\ (pc' \notin Ended => OnTrack')
<1>1. /\ pc = "decide" /\ known # "unset" /\ UNCHANGED waiting
      /\ UNCHANGED <<flash, op, mode, latched, latchReg, requests, replies, losses,
                     block, known, wanted, switches>>
      /\ \/ pc' = "erase" /\ (switches.erase \/ known # "erased")
         \/ pc' = "stopped"
         \/ pc' = "write" /\ ~ switches.erase /\ known # "set"
  BY DEF Decide, GoTo, board, vars, regs, network
<1>2. /\ ~ waiting /\ block = 1 /\ wanted \in Image /\ known \in {"erased", "set"}
      /\ flash[0] \in Content
  <2>1. known \in Lengths
    BY <1>1 DEF OnTrack, Planned, BeforeWriting
  <2>2. Lengths \subseteq {"erased", "set"}
    BY DEF Lengths
  <2>3. flash[0] \in Content
    BY Pages DEF Known, Safe, TypeOK
  <2> QED BY <1>1, <2>1, <2>2, <2>3 DEF Known, SessionInv, Place, Asking, BeforeWriting, Ended
<1>3. Silent /\ Silent' /\ Timely'
  BY <1>1, <1>2 DEF OnTrack, Timely, Silent
<1>4. Held /\ Held'
  BY <1>1, LatchedOnce DEF OnTrack, Held
<1>5. /\ Feasible(wanted, switches) /\ known \in Lengths
  BY <1>1, <1>2 DEF OnTrack, Planned, BeforeWriting, Erasing
<1>6. CASE pc' = "erase"
  <2>1. WillErase(switches)
    <3>1. CASE switches.erase
      BY <3>1 DEF WillErase
    <3>2. CASE ~ switches.erase
      <4>1. known = "set"
        BY <1>1, <1>2, <1>6, <3>2
      <4>2. flash[0] # Blank /\ flash[0] # Torn
        BY <1>5, <3>2, <4>1 DEF Lengths, Feasible
      <4> QED BY <1>2, <4>2 DEF WillErase, Content
    <3> QED BY <3>1, <3>2
  <2>2. Planned'
    <3>1. Feasible(wanted, switches)' /\ WillErase(switches)'
      BY <1>1, <1>5, <2>1, SamePlan
    <3> QED BY <1>3, <1>6, <3>1 DEF Planned, Silent, BeforeWriting
  <2> QED BY <1>3, <1>4, <1>6, <2>2 DEF OnTrack, Reached
<1>7. CASE pc' = "stopped"
  BY <1>7 DEF Ended
<1>8. CASE pc' = "write"
  <2>1. ~ switches.erase /\ known = "erased"
    BY <1>1, <1>2, <1>8
  <2>2. flash[0] = Blank
    BY <1>5, <2>1 DEF Lengths, Feasible
  <2>3. ~ WillErase(switches)
    BY <2>1, <2>2, FlashAssumption DEF WillErase
  <2>4. Ready
    BY <1>5, <2>3 DEF Feasible, FlashToWrite, Ready
  <2>5. Ready' /\ Present(wanted, block)'
    BY <1>1, <1>2, <2>4, SamePlan DEF Present
  <2>6. Planned'
    BY <1>3, <1>8, <2>5 DEF Planned, Silent, BeforeWriting
  <2> QED BY <1>3, <1>4, <1>8, <2>6 DEF OnTrack, Reached
<1> QED BY <1>1, <1>6, <1>7, <1>8

-----------------------------------------------------------------------------
(* The board answers the questions and starts the commands of a run.       *)
LEMMA Taken ==
  ASSUME Known, OnTrack, NEW kind, Take(kind)
  PROVE  /\ waiting /\ pc \in Asking /\ wanted \in Image
         /\ Head(requests) = Request /\ Request.kind = kind
         /\ requests' = <<>> /\ op = NoOp /\ replies = <<>>
BY OnlyRequest, AskedFor, NoCommand DEF Take, OnTrack, Sent

LEMMA AnsweredTimely ==
  ASSUME waiting', requests' = <<>>, op'.kind = "none",
         NEW r \in AnswerType, replies' = <<r>>, Right(r)'
  PROVE  Timely' /\ ~ Silent'
BY DEF Timely, Back, Silent

LEMMA PingOnTrack ==
  ASSUME Known, OnTrack, Ping
  PROVE  OnTrack'
<1>1. /\ waiting /\ pc \in {"ping", "wait"} /\ requests' = <<>> /\ replies = <<>> /\ op = NoOp
      /\ UNCHANGED <<flash, mode, op, latched, latchReg, losses, pc, waiting, tries, block,
                     known, wanted, switches>>
  BY Taken, KindOf DEF Ping, board, vars, regs, Idle, tool
<1>2. PICK long \in BOOLEAN :
         Answer([kind |-> "ping", bootloader |-> mode = "idle", longUp |-> long])
  BY DEF Ping
<1>3. PICK r \in AnswerType :
         replies' = <<r>> /\ r.kind = "ping" /\ (mode = "idle" => r.bootloader)
  <2> DEFINE q == [kind |-> "ping", bootloader |-> mode = "idle", longUp |-> long]
  <2>1. (mode = "idle") \in BOOLEAN
    OBVIOUS
  <2>2. q \in [kind : {"ping"}, bootloader : BOOLEAN, longUp : BOOLEAN]
    BY <2>1
  <2>3. q \in AnswerType
    BY <2>2 DEF AnswerType
  <2>4. replies' = <<q>>
    BY <1>1, <1>2 DEF Answer
  <2>5. q.kind = "ping" /\ (mode = "idle" => q.bootloader)
    OBVIOUS
  <2> HIDE DEF q
  <2> QED BY <2>3, <2>4, <2>5
<1>4. pc = "wait" => mode = "idle"
  <2>1. pc = "wait" => Held
    BY LatchedOnce DEF OnTrack
  <2> QED BY <2>1 DEF Held, Ping, Served
<1>5. Right(r)'
  BY <1>1, <1>3, <1>4 DEF Right, Good
<1>6. Timely'
  BY <1>1, <1>3, <1>5, AnsweredTimely, NoneIsNone
<1>7. Reached'
  BY <1>1 DEF OnTrack, Reached, Held, Loose
<1> QED BY <1>1, <1>6, <1>7, PlannedSame DEF OnTrack

LEMMA LatchOnTrack ==
  ASSUME Known, OnTrack, Latch
  PROVE  OnTrack'
<1>1. /\ waiting /\ pc = "latch" /\ requests' = <<>> /\ replies = <<>> /\ op = NoOp
  BY Taken, KindOf DEF Latch
<1>2. /\ UNCHANGED <<flash, losses, pc, waiting, tries, block, known, wanted, switches>>
      /\ op' = NoOp /\ mode' = "reset" /\ latchReg' = "latch"
  BY DEF Latch, RebootWith, Reboot, Reset, Idle, tool
<1>3. PICK r \in AnswerType : replies' = <<r>> /\ r.kind = "latch"
  BY <1>1 DEF Latch, Answer, AnswerType
<1>4. Timely'
  <2>1. Right(r)'
    BY <1>1, <1>2, <1>3 DEF Right, Good
  <2> QED BY <1>1, <1>2, <1>3, <2>1, AnsweredTimely, NoneIsNone
<1>5. Reached'
  BY <1>2 DEF Reached, Held
<1>6. Planned'
  BY <1>1, <1>2, PlannedSame DEF OnTrack
<1> QED BY <1>4, <1>5, <1>6 DEF OnTrack

LEMMA ChecksumOnTrack ==
  ASSUME Known, OnTrack, Checksum
  PROVE  OnTrack'
<1>1. /\ waiting /\ pc \in {"checksum", "final"} /\ requests' = <<>> /\ replies = <<>>
      /\ op = NoOp /\ wanted \in Image
      /\ UNCHANGED <<flash, mode, op, latched, latchReg, losses, pc, waiting, tries, block,
                     known, wanted, switches>>
  BY Taken, KindOf DEF Checksum, board, vars, regs, Idle, tool
<1> DEFINE ims == { im \in Image : CompleteAt(flash, 0, im) }
<1>2. PICK length \in Lengths :
         Answer([kind |-> "checksum", length |-> length, images |-> ims])
  BY DEF Checksum
<1>3. length \in {"erased", "set"}
  BY <1>2 DEF Lengths
<1>4. ims \in SUBSET Image
  OBVIOUS
<1>5. pc = "final" => length = "set" /\ wanted \in ims
  <2> SUFFICES ASSUME pc = "final" PROVE length = "set" /\ wanted \in ims
    OBVIOUS
  <2>1. flash[0] = PageOf(wanted, 0) /\ Present(wanted, Size[wanted])
    BY DEF OnTrack, Planned
  <2>2. flash[0] # Blank /\ flash[0] # Torn
    <3>1. flash[0] \in ImagePage
      BY <1>1, <2>1, Pages DEF PageOf, ImagePage
    <3> QED BY <3>1, FlashAssumption
  <2>3. length = "set"
    BY <1>2, <2>2 DEF Lengths
  <2>4. CompleteAt(flash, 0, wanted)
    <3>1. Size[wanted] \in Nat /\ 0 + Size[wanted] <= NPages
      BY <1>1, FlashAssumption, Pages
    <3>2. \A i \in 0 .. Size[wanted] - 1 : 0 + i = i /\ (i = 0 \/ i \in 1 .. Size[wanted] - 1)
      BY <3>1
    <3> QED BY <2>1, <3>1, <3>2 DEF CompleteAt, Present
  <2> QED BY <1>1, <2>3, <2>4
<1>6. PICK r \in AnswerType :
         /\ replies' = <<r>> /\ r.kind = "checksum" /\ r.length = length
         /\ pc = "final" => wanted \in r.images
  <2> DEFINE q == [kind |-> "checksum", length |-> length, images |-> ims]
  <2>1. q \in [kind : {"checksum"}, length : {"erased", "set"}, images : SUBSET Image]
    BY <1>3, <1>4
  <2>2. q \in AnswerType
    BY <2>1 DEF AnswerType
  <2>3. replies' = <<q>>
    BY <1>1, <1>2 DEF Answer
  <2>4. q.kind = "checksum" /\ q.length = length /\ q.images = ims
    OBVIOUS
  <2> HIDE DEF q
  <2> QED BY <1>5, <2>2, <2>3, <2>4
<1> HIDE DEF ims
<1>7. Right(r)'
  <2>1. Lengths' = Lengths
    BY <1>1, SamePlan
  <2> QED BY <1>1, <1>2, <1>5, <1>6, <2>1 DEF Right, Good, Matches
<1>8. Timely'
  BY <1>1, <1>6, <1>7, AnsweredTimely, NoneIsNone
<1>9. Reached'
  BY <1>1 DEF OnTrack, Reached, Held
<1> QED BY <1>1, <1>8, <1>9, PlannedSame DEF OnTrack

LEMMA EraseOnTrack ==
  ASSUME Known, OnTrack, Erase
  PROVE  OnTrack'
<1>1. /\ waiting /\ pc = "erase" /\ requests' = <<>> /\ replies = <<>> /\ op = NoOp
      /\ \/ EraseFirmware /\ AnswerIfOver("firmware") /\ Request.kind = "firmware"
         \/ EraseAll /\ AnswerIfOver("all") /\ Request.kind = "all"
      /\ UNCHANGED <<losses, pc, waiting, tries, block, known, wanted, switches>>
  BY Taken, KindOf DEF Erase, Idle, tool
<1>2. Held
  BY <1>1, LatchedOnce DEF OnTrack
<1>3. mode = "idle"
  BY <1>1, <1>2 DEF Held, EraseFirmware, EraseAll, Serve
<1>4. Feasible(wanted, switches) /\ WillErase(switches)
  BY <1>1, NoneIsNone DEF OnTrack, Planned, Erasing, BeforeWriting
<1>5. Request' = Request
  BY <1>1, SameRequest
<1>6. CASE Request.kind = "firmware" /\ EraseFirmware /\ AnswerIfOver("firmware")
  <2>1. ~ switches.all
    BY <1>1, <1>6, KindOf DEF Asking
  <2>2. HeaderSane(flash, 0)
    BY <1>4, <2>1 DEF Feasible
  <2>3. Start(EraseOp("firmware", 1, SectorsFor(HeaderSize(flash, 0))))
    BY <1>3, <1>6, <2>2 DEF EraseFirmware
  <2>4. /\ reply' = "none" /\ UNCHANGED <<flash, mode, latched, latchReg>>
        /\ op' = EraseOp("firmware", 1, SectorsFor(HeaderSize(flash, 0)))
    BY <2>3 DEF Start, regs
  <2>5. op'.kind = "firmware" /\ op'.ok /\ op'.end = SectorsFor(HeaderSize(flash, 0))
    BY <2>4 DEF EraseOp, NoOp
  <2>6. replies' = <<>>
    BY <1>1, <1>6, <2>4 DEF AnswerIfOver
  <2>7. Timely'
    <3>1. AtWork'
      BY <1>1, <1>5, <1>6, <2>5, <2>6 DEF AtWork
    <3> QED BY <1>1, <3>1 DEF Timely
  <2>8. Reached'
    BY <1>2, <2>4 DEF Reached, Held
  <2>9. Planned'
    <3>1. Feasible(wanted, switches)' /\ WillErase(switches)'
          /\ HeaderSane(flash, 0)' /\ HeaderSize(flash, 0)' = HeaderSize(flash, 0)
      BY <1>1, <1>4, <2>2, <2>4, SamePlan
    <3>2. (op.kind = "firmware" =>
             HeaderSane(flash, 0) /\ op.end = SectorsFor(HeaderSize(flash, 0)))'
      BY <2>5, <3>1 DEF SectorsFor
    <3> QED BY <1>1, <2>5, <2>6, <3>1, <3>2 DEF Planned, BeforeWriting
  <2> QED BY <2>7, <2>8, <2>9 DEF OnTrack
<1>7. CASE Request.kind = "all" /\ EraseAll /\ AnswerIfOver("all")
  <2>1. Start(EraseOp("all", 0, NSectors))
    BY <1>3, <1>7 DEF EraseAll
  <2>2. /\ reply' = "none" /\ UNCHANGED <<flash, mode, latched, latchReg>>
        /\ op' = EraseOp("all", 0, NSectors)
    BY <2>1 DEF Start, regs
  <2>3. op'.kind = "all" /\ op'.ok /\ op'.end = NSectors /\ op'.from = 0
    BY <2>2 DEF EraseOp, NoOp
  <2>4. replies' = <<>>
    BY <1>1, <1>7, <2>2 DEF AnswerIfOver
  <2>5. Timely'
    <3>1. AtWork'
      BY <1>1, <1>5, <1>7, <2>3, <2>4 DEF AtWork
    <3> QED BY <1>1, <3>1 DEF Timely
  <2>6. Reached'
    BY <1>2, <2>2 DEF Reached, Held
  <2>7. Planned'
    <3>1. Erasing'
      BY <1>1, <2>3 DEF Erasing
    <3> QED BY <1>1, <2>3, <2>4, <3>1 DEF Planned, BeforeWriting
  <2> QED BY <2>5, <2>6, <2>7 DEF OnTrack
<1> QED BY <1>1, <1>6, <1>7

LEMMA WriteOnTrack ==
  ASSUME Known, OnTrack, Write
  PROVE  OnTrack'
<1>1. /\ waiting /\ pc \in {"write", "header"} /\ requests' = <<>> /\ replies = <<>>
      /\ op = NoOp /\ Request.kind = "write"
      /\ WritePage(Request.page, Request.data) /\ AnswerIfOver("write")
      /\ UNCHANGED <<losses, pc, waiting, tries, block, known, wanted, switches>>
  BY Taken, KindOf DEF Write, Idle, tool
<1>2. Held
  BY <1>1, LatchedOnce DEF OnTrack
<1>3. mode = "idle"
  BY <1>1, <1>2 DEF Held, WritePage, Serve
<1>4. Start(WriteOp(Request.page, Request.data))
  BY <1>1, <1>3 DEF WritePage
<1>5. /\ reply' = "none" /\ UNCHANGED <<flash, mode, latched, latchReg>>
      /\ op' = WriteOp(Request.page, Request.data)
  BY <1>4 DEF Start, regs
<1>6. op'.kind = "write" /\ op'.ok /\ op'.pos = Request.page /\ op'.data = Request.data
  BY <1>5 DEF WriteOp, NoOp
<1>7. replies' = <<>> /\ Request' = Request
  BY <1>1, <1>5, SameRequest DEF AnswerIfOver
<1>8. Timely'
  <2>1. AtWork'
    BY <1>1, <1>6, <1>7 DEF AtWork
  <2> QED BY <1>1, <2>1 DEF Timely
<1>9. Reached'
  BY <1>2, <1>5 DEF Reached, Held
<1>10. Planned'
  <2>1. Ready'
    BY <1>1, <1>5, SamePlan DEF OnTrack, Planned
  <2>2. /\ pc = "write" => Present(wanted, block)'
        /\ pc = "header" => Present(wanted, Size[wanted])'
    BY <1>1, <1>5 DEF OnTrack, Planned, Present
  <2> QED BY <1>1, <1>6, <1>7, <2>1, <2>2 DEF Planned, BeforeWriting
<1> QED BY <1>8, <1>9, <1>10 DEF OnTrack

-----------------------------------------------------------------------------
(* A command goes on to its end, and to its answer.                        *)
LEMMA Uninjured ==
  ASSUME Known, FlashWork, ~ excused'
  PROVE  flash' = IF Skipped THEN flash ELSE FlashAfter
<1>1. FlashStep /\ mishaps' = mishaps /\ mishaps \in Nat
  <2>1. excused' = (excused \/ mishaps' # mishaps)
    BY DEF FlashWork
  <2>2. mishaps' = mishaps
    BY <2>1, Zenon
  <2>3. mishaps \in Nat
    BY DEF Known, Safe, TypeOK
  <2> QED BY <2>2, <2>3 DEF FlashWork
<1>2. mishaps' # mishaps + 1
  BY <1>1
<1> QED BY <1>1, <1>2 DEF FlashStep, FlashChange

LEMMA WriteWorkOnTrack ==
  ASSUME Known, OnTrack, FlashWork, ~ excused', op.kind = "write"
  PROVE  OnTrack'
<1>1. /\ AtWork /\ waiting /\ wanted \in Image /\ pc \in {"write", "header"}
      /\ Request.kind = "write" /\ Ready
  <2>1. AtWork /\ waiting
    BY DEF OnTrack, Timely, Silent, Sent, Back
  <2> QED BY <2>1, AskedFor, KindOf DEF AtWork, OnTrack, Planned
<1>2. /\ op.ok /\ op.pos = Request.page /\ op.data = Request.data
      /\ requests = <<>> /\ replies = <<>>
      /\ UNCHANGED <<requests, losses, pc, waiting, tries, block, known, wanted, switches,
                     mode, latched, latchReg>>
  BY <1>1 DEF AtWork, FlashWork, FlashStep, tool, regs
<1>3. PICK i \in 0 .. Size[wanted] - 1 :
         /\ op.pos = i /\ op.data = PageOf(wanted, i)
         /\ i = IF pc = "write" THEN block ELSE 0
  <2>1. pc = "write" => block \in 0 .. Size[wanted] - 1
    BY <1>1, Sizes DEF Known, SessionInv, Place
  <2>2. 0 \in 0 .. Size[wanted] - 1
    BY <1>1, Sizes
  <2> QED BY <1>1, <1>2, <2>1, <2>2, RequestKinds DEF Packet
<1>4. /\ flash \in [Page -> Content] /\ i \in Page /\ PageOf(wanted, i) # Torn
      /\ 0 .. Size[wanted] - 1 \subseteq Page
  <2>1. i \in Page /\ 0 .. Size[wanted] - 1 \subseteq Page
    BY <1>1, Sizes
  <2>2. PageOf(wanted, i) \in ImagePage
    BY <1>1, <2>1 DEF PageOf, ImagePage
  <2> QED BY <2>1, <2>2, FlashAssumption DEF Known, Safe, TypeOK
<1>5. Programmable(flash[i], PageOf(wanted, i))
  BY <1>1 DEF Ready
<1>6. flash' = [flash EXCEPT ![i] = PageOf(wanted, i)]
  <2>1. flash' = FlashAfter
    BY Uninjured DEF Skipped
  <2> QED BY <1>3, <1>5, <2>1 DEF FlashAfter, Programmed
<1>7. op' = NoOp /\ reply' = "ok"
  <2>1. LastStep
    BY DEF LastStep, Known, Safe, OpOK, OpIn, TypeOK, OpType
  <2>2. Verified
    BY <1>3, <1>4, <1>5, <1>6 DEF Verified
  <2> QED BY <1>2, <2>1, <2>2 DEF FlashWork, FlashStep, Success
<1>8. PICK r \in AnswerType : replies' = <<r>> /\ r.kind = "write" /\ r.ok
  <2> DEFINE q == [kind |-> "write", ok |-> reply' = "ok"]
  <2>1. replies' = <<q>>
    BY <1>2, <1>7 DEF FlashWork, AnswerIfOver, Answer
  <2>2. q \in AnswerType /\ q.kind = "write" /\ q.ok
    BY <1>7 DEF AnswerType, Changing
  <2> HIDE DEF q
  <2> QED BY <2>1, <2>2
<1>9. Timely'
  <2>1. Right(r)'
    BY <1>1, <1>2, <1>8 DEF Right, Good
  <2> QED BY <1>1, <1>2, <1>7, <1>8, <2>1, AnsweredTimely, NoneIsNone
<1>10. Reached'
  BY <1>1, <1>2, LatchedOnce DEF OnTrack, Reached, Held
<1>11. Planned'
  <2>1. Ready'
    <3> SUFFICES ASSUME NEW j \in 0 .. Size[wanted] - 1
                 PROVE  Programmable(flash'[j], PageOf(wanted, j))
      BY <1>2 DEF Ready
    <3>1. CASE j = i
      BY <1>4, <1>6, <3>1 DEF Programmable
    <3>2. CASE j # i
      <4>1. flash'[j] = flash[j]
        BY <1>4, <1>6, <3>2
      <4> QED BY <1>1, <4>1 DEF Ready
    <3> QED BY <3>1, <3>2
  <2>2. flash'[i] = PageOf(wanted, i)
    BY <1>4, <1>6
  <2>3. pc = "write" => Present(wanted, block)'
    <3> SUFFICES ASSUME pc = "write", NEW k \in 1 .. block - 1
                 PROVE  flash'[k] = PageOf(wanted, k)
      BY <1>2 DEF Present
    <3>1. block = i /\ block \in Nat /\ k # i
      BY <1>3, <1>4, Pages
    <3>2. k \in 0 .. Size[wanted] - 1
      BY <1>1, <3>1, Sizes
    <3>3. flash'[k] = flash[k]
      BY <1>4, <1>6, <3>1, <3>2
    <3> QED BY <3>3 DEF OnTrack, Planned, Present
  <2>4. pc = "header" => Present(wanted, Size[wanted])'
    <3> SUFFICES ASSUME pc = "header", NEW k \in 1 .. Size[wanted] - 1
                 PROVE  flash'[k] = PageOf(wanted, k)
      BY <1>2 DEF Present
    <3>1. i = 0 /\ k \in 0 .. Size[wanted] - 1 /\ k # 0
      BY <1>1, <1>3, Sizes
    <3>2. flash'[k] = flash[k]
      BY <1>4, <1>6, <3>1
    <3> QED BY <3>2 DEF OnTrack, Planned, Present
  <2>5. op'.kind = "none"
    BY <1>7, NoneIsNone
  <2> QED BY <1>1, <1>2, <1>3, <2>1, <2>2, <2>3, <2>4, <2>5 DEF Planned, BeforeWriting
<1> QED BY <1>9, <1>10, <1>11 DEF OnTrack

(* A sector that an erase has come to is blank after the step.             *)
LEMMA EraseVerified ==
  ASSUME Known, FlashWork, ~ excused', op.kind \in {"firmware", "all"}
  PROVE  /\ Verified
         /\ NextSector \in Nat /\ NextSector < NSectors
         /\ \A p \in Page : flash'[p] = IF p \in PagesOf(NextSector) THEN Blank ELSE flash[p]
<1>1. /\ op.pos \in Nat /\ op.end \in Nat /\ op.end <= NSectors
      /\ op.kind = "firmware" => op.pos \in 1 .. op.end
      /\ op.kind = "all" => op.pos < op.end
  BY DEF Known, Safe, TypeOK, OpType, OpOK, OpIn, Progress, DoneBy, EraseKinds
<1>2. NextSector \in Nat /\ NextSector < NSectors
  BY <1>1, FlashAssumption DEF NextSector
<1>3. PagesOf(NextSector) \subseteq Page
  BY <1>2, FlashAssumption, SectorsApart
<1>4. CASE Skipped
  <2>1. flash' = flash /\ SectorBlank(flash, NextSector)
    BY <1>1, <1>4, Uninjured DEF Skipped, NextSector
  <2>2. \A p \in PagesOf(NextSector) : flash[p] = Blank
    BY <2>1 DEF SectorBlank
  <2> QED BY <1>2, <2>1, <2>2 DEF Verified, SectorBlank
<1>5. CASE ~ Skipped
  <2>1. flash' = Erased(flash, NextSector)
    BY <1>5, Uninjured DEF FlashAfter
  <2>2. \A p \in Page : flash'[p] = IF p \in PagesOf(NextSector) THEN Blank ELSE flash[p]
    BY <2>1 DEF Erased
  <2>3. SectorBlank(flash', NextSector)
    BY <1>3, <2>2 DEF SectorBlank
  <2> QED BY <1>2, <2>2, <2>3 DEF Verified
<1> QED BY <1>4, <1>5

(* Every page lies in a sector.                                            *)
LEMMA SectorOf ==
  ASSUME NEW p \in Nat, NEW n \in Nat, p < n * SectorPages
  PROVE  \E s \in 0 .. n - 1 : p \in PagesOf(s)
<1> DEFINE s == p \div SectorPages
<1>1. s \in Nat /\ s * SectorPages <= p /\ p < (s + 1) * SectorPages
  BY FlashAssumption, SMT
<1>2. s * SectorPages \in Nat /\ (s + 1) * SectorPages \in Nat /\ n * SectorPages \in Nat
  BY <1>1, FlashAssumption, SMT
<1> HIDE DEF s
<1>3. s < n
  <2>1. CASE s >= n
    <3>1. s * SectorPages >= n * SectorPages
      BY <1>1, <2>1, FlashAssumption, SMT
    <3> QED BY <1>1, <1>2, <3>1
  <2> QED BY <1>1, <2>1
<1>4. s \in 0 .. n - 1 /\ p \in PagesOf(s)
  BY <1>1, <1>2, <1>3 DEF PagesOf
<1> QED BY <1>4

LEMMA EraseGoesOn ==
  ASSUME Known, OnTrack, FlashWork, ~ excused', op.kind \in {"firmware", "all"}
  PROVE  OnTrack'
<1>1. /\ AtWork /\ waiting /\ pc = "erase" /\ wanted \in Image
      /\ op.kind = Request.kind /\ op.ok /\ requests = <<>> /\ replies = <<>>
      /\ op.kind = "firmware" => ~ switches.all
  <2>1. AtWork /\ waiting
    BY DEF OnTrack, Timely, Silent, Sent, Back
  <2> QED BY <2>1, AskedFor, KindOf DEF AtWork
<1>2. /\ UNCHANGED <<requests, losses, pc, waiting, tries, block, known, wanted, switches,
                     mode, latched, latchReg>>
      /\ Request' = Request
  BY SameRequest DEF FlashWork, FlashStep, tool, regs
<1>3. Success /\ op \in OpType
  BY <1>1, EraseVerified DEF Success, Known, Safe, TypeOK
<1>4. Reached'
  BY <1>1, <1>2, LatchedOnce DEF OnTrack, Reached, Held
<1>5. 0 .. Size[wanted] - 1 \subseteq Page /\ Page \subseteq Nat /\ 0 \in Page
  BY <1>1, Sizes, Pages
<1>6. /\ NextSector \in Nat /\ NextSector < NSectors
      /\ \A p \in Page : flash'[p] = IF p \in PagesOf(NextSector) THEN Blank ELSE flash[p]
  BY EraseVerified
<1>7. op.kind = "firmware" =>
        /\ HeaderSane(flash, 0) /\ op.end = SectorsFor(HeaderSize(flash, 0))
        /\ Feasible(wanted, switches) /\ WillErase(switches)
  BY <1>1 DEF OnTrack, Planned, Erasing, BeforeWriting
<1>8. op.kind = "firmware" =>
        \A i \in 0 .. Size[wanted] - 1 :
          \/ i < op.end * SectorPages
          \/ Programmable(flash[i], PageOf(wanted, i))
  BY <1>1, <1>5, <1>7 DEF Feasible, FlashToWrite
<1>9. CASE ~ LastStep
  <2>1. /\ op' = [op EXCEPT !.pos = @ + 1, !.ok = TRUE]
        /\ op'.kind = op.kind /\ op'.ok /\ op'.end = op.end /\ op'.from = op.from
    <3>1. op' = [op EXCEPT !.pos = @ + 1, !.ok = Success]
      BY <1>9 DEF FlashWork, FlashStep
    <3> QED BY <1>3, <3>1 DEF OpType
  <2>2. replies' = <<>>
    <3>1. op' # NoOp
      BY <2>1, NoneIsNone
    <3> QED BY <1>1, <3>1 DEF FlashWork
  <2>3. Timely'
    <3>1. AtWork'
      BY <1>1, <1>2, <2>1, <2>2 DEF AtWork
    <3> QED BY <1>1, <1>2, <3>1 DEF Timely
  <2>4. CASE op.kind = "all"
    <3>1. Erasing' /\ op'.from = 0 /\ op'.end = NSectors
      BY <1>1, <1>2, <2>1, <2>4 DEF Erasing, OnTrack, Planned
    <3>2. Planned'
      BY <1>1, <1>2, <2>1, <2>2, <2>4, <3>1 DEF Planned, BeforeWriting
    <3> QED BY <1>4, <2>3, <3>2 DEF OnTrack
  <2>5. CASE op.kind = "firmware"
    <3>1. /\ NextSector = op.pos /\ op.pos \in Nat /\ op.pos >= 1 /\ op.pos < op.end
          /\ op.end \in Nat
      BY <1>3, <1>9, <2>5 DEF LastStep, NextSector, OpType, Known, Safe, OpOK, OpIn
    <3>2. 0 \in PagesOf(0)
      BY FlashAssumption DEF PagesOf
    <3>3. flash'[0] = flash[0]
      <4>1. 0 \notin PagesOf(op.pos)
        BY <3>1, <3>2, SectorsApart
      <4> QED BY <1>5, <1>6, <3>1, <4>1
    <3>4. HeaderSane(flash, 0)' /\ HeaderSize(flash, 0)' = HeaderSize(flash, 0)
      BY <1>7, <2>5, <3>3 DEF HeaderSane, HeaderSize, HeaderOf
    <3>5. WillErase(switches)' /\ (flash'[0] = Torn => switches'.erase)
      BY <1>2, <1>7, <2>5, <3>3 DEF WillErase, Feasible
    <3>6. ASSUME NEW i \in 0 .. Size[wanted] - 1
          PROVE  Programmable(FlashToWrite(switches)[i], PageOf(wanted, i))'
      <4>1. FlashToWrite(switches)'[i] = IF i < op.end * SectorPages THEN Blank ELSE flash'[i]
        BY <1>1, <1>2, <1>5, <1>7, <2>5, <3>4, <3>5 DEF FlashToWrite, SectorsFor
      <4>2. CASE i < op.end * SectorPages
        BY <4>1, <4>2 DEF Programmable
      <4>3. CASE ~ (i < op.end * SectorPages)
        <5>1. (op.pos + 1) * SectorPages <= op.end * SectorPages
          BY <3>1, SectorsApart
        <5>2. (op.pos + 1) * SectorPages \in Nat /\ op.end * SectorPages \in Nat /\ i \in Nat
              /\ op.pos * SectorPages \in Nat
          BY <1>5, <3>1, FlashAssumption, SMT
        <5>3. i \notin PagesOf(op.pos)
          BY <4>3, <5>1, <5>2 DEF PagesOf
        <5>4. flash'[i] = flash[i]
          BY <1>5, <1>6, <3>1, <5>3
        <5> QED BY <1>2, <1>8, <2>5, <4>1, <4>3, <5>4
      <4> QED BY <4>2, <4>3
    <3>7. Feasible(wanted, switches)'
      BY <1>2, <3>4, <3>5, <3>6 DEF Feasible
    <3>8. Planned'
      <4>1. (op.kind = "firmware" =>
               HeaderSane(flash, 0) /\ op.end = SectorsFor(HeaderSize(flash, 0)))'
        BY <1>7, <2>1, <2>5, <3>4 DEF SectorsFor
      <4> QED BY <1>1, <1>2, <2>1, <2>2, <2>5, <3>5, <3>7, <4>1 DEF Planned, BeforeWriting
    <3> QED BY <1>4, <2>3, <3>8 DEF OnTrack
  <2> QED BY <2>4, <2>5
<1>10. CASE LastStep
  <2>1. op' = NoOp /\ reply' = "ok"
    BY <1>3, <1>10 DEF FlashWork, FlashStep
  <2>2. PICK r \in AnswerType : replies' = <<r>> /\ r.kind = op.kind /\ r.ok
    <3> DEFINE q == [kind |-> op.kind, ok |-> reply' = "ok"]
    <3>1. replies' = <<q>>
      BY <1>1, <2>1 DEF FlashWork, AnswerIfOver, Answer
    <3>2. q \in AnswerType /\ q.kind = op.kind /\ q.ok
      BY <2>1 DEF AnswerType, Changing
    <3> HIDE DEF q
    <3> QED BY <3>1, <3>2
  <2>3. Timely'
    <3>1. r.kind = Request'.kind
      BY <1>1, <1>2, <2>2
    <3>2. Right(r)'
      BY <1>1, <1>2, <2>2, <3>1 DEF Right, Good
    <3> QED BY <1>1, <1>2, <2>1, <2>2, <3>2, AnsweredTimely, NoneIsNone
  <2>4. Accomplished(op, flash')
    BY <1>3, <1>10, LastStepDone DEF FlashWork, Known
  <2>5. \A s \in 0 .. op.end - 1 : SectorBlank(flash', s)
    BY <1>1, <2>4 DEF Accomplished, OnTrack, Planned
  <2>6. ASSUME NEW p \in Page, p < op.end * SectorPages PROVE flash'[p] = Blank
    <3>1. p \in Nat /\ op.end \in Nat
      BY <1>3, <1>5 DEF OpType
    <3>2. \E s \in 0 .. op.end - 1 : p \in PagesOf(s)
      BY <2>6, <3>1, SectorOf
    <3> QED BY <2>5, <3>2 DEF SectorBlank
  <2>7. Ready'
    <3> SUFFICES ASSUME NEW i \in 0 .. Size[wanted] - 1
                 PROVE  Programmable(flash'[i], PageOf(wanted, i))
      BY <1>2 DEF Ready
    <3>1. CASE i < op.end * SectorPages
      BY <1>5, <2>6, <3>1 DEF Programmable
    <3>2. CASE ~ (i < op.end * SectorPages) /\ op.kind = "all"
      <4>1. op.end = NSectors
        BY <3>2 DEF OnTrack, Planned
      <4>2. NSectors * SectorPages \in Nat /\ i \in 0 .. NSectors * SectorPages - 1
        BY <1>5, FlashAssumption, SMT DEF Page, NPages
      <4> QED BY <3>2, <4>1, <4>2
    <3>3. CASE ~ (i < op.end * SectorPages) /\ op.kind = "firmware"
      <4>1. NextSector = 0 /\ op.end \in Nat /\ op.end >= 1
        BY <1>3, <1>10, <3>3 DEF LastStep, NextSector, OpType, Known, Safe, OpOK, OpIn
      <4>2. i \notin PagesOf(0)
        <5>1. (0 + 1) * SectorPages <= op.end * SectorPages
          BY <4>1, SectorsApart
        <5>2. op.end * SectorPages \in Nat /\ i \in Nat
          BY <1>5, <4>1, FlashAssumption, SMT
        <5> QED BY <3>3, <5>1, <5>2, FlashAssumption DEF PagesOf
      <4>3. flash'[i] = flash[i]
        BY <1>5, <1>6, <4>1, <4>2
      <4> QED BY <1>8, <3>3, <4>3
    <3> QED BY <3>1, <3>2, <3>3
  <2>8. Planned'
    <3>1. Erasing' /\ op'.kind = "none"
      BY <1>1, <1>2, <2>1, <2>2, NoneIsNone DEF Erasing
    <3> QED BY <1>1, <1>2, <2>7, <3>1 DEF Planned, BeforeWriting
  <2> QED BY <1>4, <2>3, <2>8 DEF OnTrack
<1> QED BY <1>9, <1>10

-----------------------------------------------------------------------------
(* The board boots, and what goes wrong without being an excuse.           *)
LEMMA BootingOnTrack ==
  ASSUME Known, Counts, Going, OnTrack, Booting
  PROVE  OnTrack'
<1>1. /\ UNCHANGED <<requests, replies, losses, pc, waiting, tries, block, known, wanted, switches>>
      /\ UNCHANGED <<flash, op>>
  BY BootingForm DEF Booting, Idle, tool
<1>2. Timely' /\ Planned'
  BY <1>1, TimelySame, PlannedSame DEF OnTrack
<1>3. CASE Boot
  <2>1. Held /\ mode = "reset"
    BY <1>3 DEF Boot, OnTrack, Reached, Loose
  <2>2. latchReg = "latch"
    BY <2>1 DEF Held
  <2>3. latched' = "latch" /\ mode' = "idle"
    BY <1>3, <2>2 DEF Boot, ReadRegisters
  <2> QED BY <1>2, <2>3 DEF OnTrack, Reached, Held
<1>4. ASSUME mode' # mode, pc \in {"ping", "latch"}, Loose, mode' \in {"handover", "app"},
             mode = "idle" \/ mode = "handover", mode = "handover" => mode' = "app",
             mode = "idle" => mode' = "handover"
      PROVE  OnTrack'
  <2>1. LatchLost' = LatchLost /\ LatchLost \in {0, 1}
    BY <1>1 DEF LatchLost, Silent
  <2>2. tries \in Nat /\ losses \in Nat
    BY UploadAssumption DEF Counts
  <2>3. pc = "latch" =>
          /\ mode = "idle" => tries <= losses
          /\ mode = "handover" => tries + LatchLost <= losses + 1
    BY <1>4, <2>1, <2>2 DEF Loose
  <2>4. Loose'
    BY <1>1, <1>4, <2>1, <2>3 DEF Loose
  <2> QED BY <1>1, <1>2, <1>4, <2>4 DEF OnTrack, Reached
<1>5. CASE Autostart
  <2>1. latched # "latch" /\ mode = "idle" /\ mode' = "handover"
    BY <1>5 DEF Autostart, StartFirmware
  <2>2. ~ Held
    BY <2>1 DEF Held
  <2> QED BY <1>4, <2>1, <2>2 DEF OnTrack, Reached
<1>6. CASE AppInit
  <2>1. mode = "handover" /\ mode' = "app"
    BY <1>6 DEF AppInit
  <2>2. ~ Held
    BY <2>1 DEF Held
  <2> QED BY <1>4, <2>1, <2>2 DEF OnTrack, Reached
<1>7. ~ (pc \in Ended /\ LatchTimeout)
  BY DEF Going
<1> QED BY <1>3, <1>5, <1>6, <1>7 DEF Booting

LEMMA TroubleOnTrack ==
  ASSUME Known, Counts, OnTrack, Trouble, ~ excused'
  PROVE  OnTrack'
<1>1. ~ BoardFails
  BY DEF BoardFails, Excuse
<1>2. /\ LostInBoot \/ LoseRequest \/ LoseReply
      /\ UNCHANGED <<flash, op, mode, latched, latchReg, pc, waiting, tries, block, known,
                     wanted, switches>>
  BY <1>1 DEF Trouble, LostInBoot, LoseRequest, LoseReply, board, vars, regs, tool
<1>3. Repeated
  BY <1>2 DEF LostInBoot, LoseRequest, LoseReply, ExcuseUnless
<1>4. /\ \/ LostInBoot /\ losses' = losses /\ mode \in {"reset", "handover"}
            /\ requests # <<>> /\ requests' = Tail(requests) /\ replies' = replies
         \/ LoseRequest /\ losses' = losses + 1
            /\ requests # <<>> /\ requests' = Tail(requests) /\ replies' = replies
         \/ LoseReply /\ losses' = losses + 1
            /\ replies # <<>> /\ replies' = Tail(replies) /\ requests' = requests
  BY <1>2 DEF LostInBoot, LoseRequest, LoseReply, Miscarry
<1>5. Silent'
  BY <1>2, <1>4, OnlyRequest, OnlyReply DEF OnTrack, Silent, Sent, Back
<1>6. Timely'
  BY <1>2, <1>3, <1>5 DEF Timely, Repeated
<1>7. Planned'
  BY <1>2, <1>3, PlannedSame DEF OnTrack, Repeated
<1>8. Reached'
  <2>1. CASE Held
    BY <1>2, <2>1 DEF Reached, Held
  <2>2. CASE ~ Held
    <3>1. pc = "latch" /\ Loose /\ replies = <<>>
      BY <1>3, <2>2 DEF OnTrack, Reached, Repeated, Loose
    <3>2. LatchLost = 0 /\ LatchLost' \in {0, 1}
      BY <1>4, <3>1 DEF LatchLost, Silent
    <3>3. /\ tries \in Nat /\ losses \in Nat
          /\ losses' = losses + 1 \/ (losses' = losses /\ mode = "handover")
      BY <1>4, <3>1, UploadAssumption DEF Counts, Loose
    <3>4. /\ mode = "idle" => tries + LatchLost' <= losses'
          /\ mode = "handover" => tries <= losses'
          /\ mode = "app" => tries + LatchLost' <= losses' + 1
      BY <3>1, <3>2, <3>3 DEF Loose
    <3>5. Loose'
      BY <1>2, <1>5, <3>1, <3>4 DEF Loose, Silent
    <3> QED BY <1>2, <3>1, <3>5 DEF Reached
  <2> QED BY <2>1, <2>2
<1> QED BY <1>6, <1>7, <1>8 DEF OnTrack

-----------------------------------------------------------------------------
(* Together: a run that goes on and has no excuse is on track, and only a  *)
(* run that has one fails.                                                 *)
GoodRun == Counts /\ (Going => OnTrack) /\ FailsForCause

LEMMA CountsKeep ==
  ASSUME Counts, [UploadNext]_uvars
  PROVE  Counts'
<1>1. losses' \in 0 .. MaxLosses
  <2>1. CASE Device \/ Trouble
    BY <2>1, LossesOutside DEF Counts
  <2>2. CASE Ground \/ UNCHANGED uvars
    <3>1. losses' = losses \/ (losses < MaxLosses /\ losses' = losses + 1)
      BY <2>2 DEF Ground, Invoke, SendRequest, ReceiveReply, ReceiveTimeout, Decide, Miscarry,
                  network, uvars
    <3> QED BY <3>1, UploadAssumption DEF Counts
  <2> QED BY <2>1, <2>2 DEF UploadNext, Counts, uvars, network
<1>2. tries' \in Nat
  <2>1. CASE Device \/ Trouble \/ UNCHANGED uvars
    <3>1. UNCHANGED tries
      BY <2>1 DEF Device, Trouble, Ping, Latch, Checksum, Erase, Write, FlashWork, Booting,
                  Idle, LostInBoot, LoseRequest, LoseReply, BoardFails, tool, uvars
    <3> QED BY <3>1 DEF Counts
  <2>2. CASE Invoke \/ SendRequest \/ Decide
    <3>1. tries' = 0 \/ tries' = tries
      BY <2>2 DEF Invoke, SendRequest, Decide, GoTo
    <3> QED BY <3>1 DEF Counts
  <2>3. ASSUME NEW limit, NEW next, AskAgain(limit, next) \/ GoTo(next) PROVE tries' \in Nat
    BY <2>3 DEF AskAgain, GoTo, Counts
  <2>4. ASSUME Bad PROVE tries' \in Nat
    BY <2>3, <2>4 DEF Bad
  <2>5. ASSUME NEW r, Proceed(r) PROVE tries' \in Nat
    BY <2>3, <2>5 DEF Proceed
  <2> QED BY <2>1, <2>2, <2>4, <2>5 DEF UploadNext, Ground, ReceiveReply, ReceiveTimeout
<1> QED BY <1>1, <1>2 DEF Counts

(* A run that goes on has gone on, unless it begins.                       *)
LEMMA ExcuseStays ==
  ASSUME UploadNext, ~ Invoke
  PROVE  feasible' = feasible /\ (~ excused' => ~ excused)
<1>1. feasible' = feasible
  BY DEF UploadNext, Ground, SendRequest, ReceiveReply, ReceiveTimeout, Decide, Device, Ping, Latch,
         Checksum, Erase, Write, FlashWork, Booting, Idle, Trouble, LostInBoot, LoseRequest,
         LoseReply, BoardFails, Excuse, ExcuseUnless, record
<1>2. ASSUME ~ excused' PROVE ~ excused
  <2>1. CASE Decide
    BY <1>2, <2>1 DEF Decide
  <2>2. CASE SendRequest \/ ReceiveReply \/ ReceiveTimeout
    BY <1>2, <2>2 DEF SendRequest, ReceiveReply, ReceiveTimeout, Excuse, record
  <2>3. CASE Device
    BY <1>2, <2>3 DEF Device, Ping, Latch, Checksum, Erase, Write, FlashWork, Booting, Idle, record
  <2>4. CASE Trouble
    BY <1>2, <2>4 DEF Trouble, LostInBoot, LoseRequest, LoseReply, BoardFails, Excuse, ExcuseUnless
  <2> QED BY <2>1, <2>2, <2>3, <2>4 DEF UploadNext, Ground
<1> QED BY <1>1, <1>2

LEMMA HasGone ==
  ASSUME UploadNext, ~ Invoke, feasible', ~ excused', Known,
         pc' \notin Ended \/ (pc' = "failed" /\ pc # "failed")
  PROVE  Going
<1>1. pc \notin Ended
  <2>1. CASE pc' = pc
    BY <2>1
  <2>2. CASE pc' # pc
    <3>1. ReceiveReply \/ ReceiveTimeout \/ Decide
      BY <2>2 DEF UploadNext, Ground, SendRequest, Device, Ping, Latch, Checksum, Erase, Write,
              FlashWork, Booting, Idle, Trouble, LostInBoot, LoseRequest, LoseReply, BoardFails,
              tool
    <3>2. pc \in Asking \cup {"decide"}
      BY <3>1, AskedFor DEF ReceiveReply, ReceiveTimeout, Decide
    <3> QED BY <3>2 DEF Asking, Ended
  <2> QED BY <2>1, <2>2
<1> QED BY <1>1, ExcuseStays DEF Going

LEMMA StepOnTrack ==
  ASSUME MaxLosses + 1 < LatchTries, Known, Counts, Going, OnTrack,
         UploadNext, ~ Invoke, ~ excused'
  PROVE  pc' # "failed" /\ (pc' \notin Ended => OnTrack')
<1>1. CASE SendRequest
  BY <1>1, SendOnTrack DEF SendRequest, Going, Ended
<1>2. CASE ReceiveReply \/ ReceiveTimeout \/ Decide
  BY <1>2, ReplyOnTrack, TimeoutOnTrack, DecideOnTrack
<1>3. CASE Device \/ Trouble
  <2>1. pc' = pc
    BY <1>3 DEF Device, Ping, Latch, Checksum, Erase, Write, FlashWork, Booting, Idle, Trouble,
            LostInBoot, LoseRequest, LoseReply, BoardFails, tool
  <2>2. pc # "failed"
    BY DEF Going, Ended
  <2>3. FlashWork => op.kind \in {"write", "firmware", "all"}
    BY DEF FlashWork, FlashStep, Known, NoUpdate
  <2>4. OnTrack'
    BY <1>3, <2>3, PingOnTrack, LatchOnTrack, ChecksumOnTrack, EraseOnTrack, WriteOnTrack,
       WriteWorkOnTrack, EraseGoesOn, BootingOnTrack, TroubleOnTrack DEF Device
  <2> QED BY <2>1, <2>2, <2>4
<1> QED BY <1>1, <1>2, <1>3 DEF UploadNext, Ground

LEMMA GoodRunKeeps ==
  ASSUME MaxLosses + 1 < LatchTries, Known, GoodRun, [UploadNext]_uvars
  PROVE  GoodRun'
<1>1. Counts'
  BY CountsKeep DEF GoodRun
<1>2. CASE UNCHANGED uvars
  <2>1. /\ UNCHANGED <<flash, op, mode, latched, latchReg, requests, replies, losses, pc, waiting,
                       tries, block, known, wanted, switches, feasible, excused>>
    BY <1>2 DEF uvars, board, vars, regs, network, tool, record
  <2>2. FailsForCause' /\ (Going' => Going)
    BY <2>1 DEF GoodRun, FailsForCause, Going
  <2>3. OnTrack => OnTrack'
    BY <2>1, TimelySame, PlannedSame DEF OnTrack, Reached, Held, Loose, LatchLost, Silent
  <2> QED BY <1>1, <2>2, <2>3 DEF GoodRun
<1>3. CASE Invoke
  <2>1. pc' = "ping"
    BY <1>3 DEF Invoke
  <2>2. Going' => OnTrack'
    BY <1>3, InvokeOnTrack DEF GoodRun, Going
  <2> QED BY <1>1, <2>1, <2>2 DEF GoodRun, FailsForCause
<1>4. CASE UploadNext /\ ~ Invoke
  <2>1. Going' => OnTrack'
    <3> SUFFICES ASSUME Going' PROVE OnTrack'
      OBVIOUS
    <3>1. Going
      BY <1>4, HasGone DEF Going
    <3> QED BY <1>4, <3>1, StepOnTrack DEF GoodRun, Going
  <2>2. FailsForCause'
    <3> SUFFICES ASSUME pc' = "failed", feasible', ~ excused' PROVE FALSE
      BY DEF FailsForCause
    <3>1. CASE Going
      BY <1>4, <3>1, StepOnTrack DEF GoodRun
    <3>2. CASE ~ Going
      <4>1. pc = "failed"
        BY <1>4, <3>2, HasGone
      <4>2. feasible' = feasible /\ (excused => excused')
        BY <1>4, ExcuseStays
      <4> QED BY <4>1, <4>2 DEF GoodRun, FailsForCause
    <3> QED BY <3>1, <3>2
  <2> QED BY <1>1, <2>1, <2>2 DEF GoodRun
<1> QED BY <1>2, <1>3, <1>4

(* A run fails for a cause, as long as fewer packets are lost or late than *)
(* the tool has latch requests to spare: one of them goes to the start of  *)
(* a firmware, and one has to come through.                                *)
THEOREM FailsWithCause ==
  ASSUME MaxLosses + 1 < LatchTries PROVE UploadSpec => []FailsForCause
<1>1. UploadInit => Known /\ GoodRun
  <2> SUFFICES ASSUME UploadInit PROVE GoodRun
    BY InitKnown
  <2>1. losses = 0 /\ tries = 0 /\ pc = "none"
    BY DEF UploadInit
  <2> QED BY <2>1, UploadAssumption DEF GoodRun, Counts, Going, Ended, FailsForCause
<1>2. Known /\ GoodRun /\ [UploadNext]_uvars => Known' /\ GoodRun'
  BY KnownKeeps, GoodRunKeeps
<1>3. GoodRun => FailsForCause
  BY DEF GoodRun
<1> QED BY <1>1, <1>2, <1>3, PTL DEF UploadSpec

=============================================================================
