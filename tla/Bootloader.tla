----------------------------- MODULE Bootloader -----------------------------
(***************************************************************************)
(* The life of one PicoPQP board: bootloader.c and app.c on core 0, with   *)
(* the flash, reboot and latch functions of libpqp_foreign.c they run on.  *)
(*                                                                         *)
(* A board is reset (power, pqpf_reboot, watchdog, hard fault), reads the  *)
(* watchdog scratch registers, possibly installs a firmware image from the *)
(* clone area, serves the commands of the ground in its main loop, and     *)
(* jumps to the application when it is valid.  Commands that erase or      *)
(* program go through the flash one sector or one page at a time; between  *)
(* two of these steps, and in the middle of one, the power may fail.       *)
(*                                                                         *)
(* LibPQP, which decodes the packets and calls the pqpf_ functions, is not *)
(* in the repository: the commands are the calls it can make.              *)
(***************************************************************************)
EXTENDS Flash

CONSTANTS
  CloneStart,     \* page of CLONE_OFFSET
  InitialFlash,   \* what the flash of a board may hold when it is deployed
  Uploads,        \* the <<page, content>> pairs the ground or core 1 may write
  NoImage,        \* history: no image is running
  MaxCommands,    \* bound: commands served over the whole behaviour
  MaxMishaps      \* bound: power cuts, hangs, faults and worn cells together

ASSUME BootloaderAssumption ==
  /\ CloneStart \in Page \ {0}
  /\ CloneStart % SectorPages = 0
  /\ InitialFlash \subseteq [Page -> Content]
  /\ Uploads \subseteq Page \X ImagePage
  /\ NoImage \notin Image
  /\ MaxCommands \in Nat
  /\ MaxMishaps \in Nat

VARIABLES
  flash,       \* the pages of the flash
  mode,        \* what the processor is executing
  op,          \* the flash command under way
  blockCount,  \* bootloader.c: block_count, the size of the accepted clone
  latchReg,    \* watchdog scratch[1..3]: the code they hold, "none" if invalid
  latched,     \* latched_code, read once after a reset
  scratch0,    \* watchdog scratch[0]
  bootWord,    \* boot_word, what the hw_info report is made of
  reply,       \* outcome of the last command
  running,     \* history: the image whose code was jumped to
  asked,       \* history: the latch code of the reboot request being served
  cause,       \* history: why the board was last reset
  commands,    \* commands served so far
  mishaps      \* mishaps so far

regs == <<latchReg, latched, scratch0, bootWord>>
history == <<running, asked, cause>>
vars == <<flash, mode, op, blockCount, regs, reply, history, commands, mishaps>>

Codes == {"none", "latch", "update"}
Causes == {"power", "reboot", "crash", "bldrfault", "appfault0", "appfault1"}
Unreported == "unreported"    \* a hang before the application could note it

(* "reset": before pqp_init reads the scratch registers; "erasing" and     *)
(* "cloning": the update of bootloader.c; "idle": the main loop of the     *)
(* bootloader; "handover": pqpf_start_firmware has jumped and pqp_init of  *)
(* the application has not run; "app": the main loop of app.c.             *)
Bootloading == {"reset", "erasing", "cloning", "idle"}
Modes == Bootloading \cup {"handover", "app"}

(* A flash command under way.  pos counts sectors of an erase, pages of a  *)
(* clone or a write; end is where it stops; from is the first sector of an *)
(* erase or the page a clone reads from; data is the content of a write;   *)
(* ok is the variable "success".                                           *)
Kinds == {"none", "firmware", "all", "section", "clone", "write"}
OpType == [kind : Kinds, pos : Nat, end : Nat, from : Nat, data : Content,
           ok : BOOLEAN]
NoOp == [kind |-> "none", pos |-> 0, end |-> 0, from |-> 0, data |-> Blank,
         ok |-> TRUE]
EraseOp(kind, first, end) ==
  [NoOp EXCEPT !.kind = kind, !.pos = first, !.from = first, !.end = end]
CloneOp(blocks, src) ==
  [NoOp EXCEPT !.kind = "clone", !.pos = 1, !.end = blocks, !.from = src]
WriteOp(p, c) ==
  [NoOp EXCEPT !.kind = "write", !.pos = p, !.end = p + 1, !.data = c]

ValidFirmware == \E im \in Image : CompleteAt(flash, 0, im)
ValidClone(im) == CompleteAt(flash, CloneStart, im)

-----------------------------------------------------------------------------
(***************************************************************************)
(* Resets.  The processor starts in the bootloader; RAM is lost, the       *)
(* scratch registers survive everything but a power cycle.                 *)
(***************************************************************************)
Reset(why) ==
  /\ mode' = "reset"
  /\ op' = NoOp
  /\ blockCount' = 0
  /\ latched' = "none"
  /\ bootWord' = "power"
  /\ reply' = "none"
  /\ running' = NoImage
  /\ cause' = why

(* pqpf_reboot: the only writer of the latch.                              *)
Reboot(code) ==
  /\ Reset("reboot")
  /\ latchReg' = code
  /\ scratch0' = "reboot"
  /\ asked' = code

(* A reset that nobody requested.  A latch that the bootloader has not     *)
(* read yet is still pending.                                              *)
Mishap(why) ==
  /\ mishaps < MaxMishaps
  /\ mishaps' = mishaps + 1
  /\ Reset(why)
  /\ asked' = IF mode = "reset" /\ why # "power" THEN asked ELSE "none"
  /\ UNCHANGED commands

(* The pages the next step of op changes, and the flash after it.          *)
SectorsAscending == IF op.kind = "firmware" THEN op.pos - 1 ELSE op.pos
NextSector == IF op.kind = "firmware" /\ op.pos = op.end THEN 0 ELSE op.pos
ClonePage == IF op.pos = op.end THEN 0 ELSE op.pos
Skipped ==
  \/ op.kind = "firmware" /\ op.pos < op.end /\ SectorBlank(flash, op.pos)
  \/ op.kind = "all" /\ SectorBlank(flash, op.pos)

Target ==
  CASE op.kind \in {"firmware", "all", "section"} -> PagesOf(NextSector)
    [] op.kind = "clone" -> {ClonePage}
    [] op.kind = "write" -> {op.pos}
    [] OTHER -> {}

FlashAfter ==
  CASE op.kind \in {"firmware", "all", "section"} -> Erased(flash, NextSector)
    [] op.kind = "clone" ->
         Programmed(flash, ClonePage, flash[op.from + ClonePage])
    [] op.kind = "write" -> Programmed(flash, op.pos, op.data)
    [] OTHER -> flash

InFlight ==
  IF Skipped \/ (op.kind \in {"clone", "write"} /\ FlashAfter = flash)
    THEN {} ELSE Target

(* The power fails: the step under way is cut short.                       *)
PowerCut ==
  /\ Mishap("power")
  /\ flash' \in CutShort(flash, FlashAfter, InFlight)
  /\ latchReg' = "none"
  /\ scratch0' = "power"

(* The watchdog expires, because the code hangs.  Before the bootloader    *)
(* has read the registers it has not enabled the watchdog either.          *)
WatchdogReset ==
  /\ mode # "reset"
  /\ Mishap(IF mode = "handover" THEN Unreported ELSE "crash")
  /\ UNCHANGED <<flash, latchReg, scratch0>>

(* custom_hardfault_handler, registered by main of the bootloader and of   *)
(* the application, and put back by pqpf_start_firmware before the jump: a *)
(* fault between the two ends as a hang.                                   *)
FaultsOf(m) ==
  CASE m = "app"      -> {"appfault0", "appfault1"}
    [] m = "handover" -> {"appfault0"}
    [] OTHER          -> {"bldrfault"}

HardFault ==
  /\ \E core \in FaultsOf(mode) :
       /\ Mishap(core)
       /\ scratch0' = core
  /\ UNCHANGED <<flash, latchReg>>

-----------------------------------------------------------------------------
(***************************************************************************)
(* Booting.                                                                *)
(***************************************************************************)

(* pqpf_bootloader_latch_reboot: the code is used once, and whatever ends  *)
(* this run without writing a cause counts as a crash.                     *)
LatchKept ==
  /\ latched' = latchReg
  /\ bootWord' = scratch0
  /\ scratch0' = "crash"
  /\ UNCHANGED latchReg

ReadRegisters ==
  /\ latched' = latchReg
  /\ latchReg' = "none"
  /\ bootWord' = scratch0
  /\ scratch0' = "crash"

(* pqpf_firmware_erase_section refuses a range that leaves the flash; the  *)
(* caller in main ignores the refusal.                                     *)
EraseOneMore(blocks) == EraseOp("section", 0, blocks \div SectorPages + 1)

EraseForUpdate(blocks) ==
  LET n == SectorsFor(blocks)
  IN IF n \in 1 .. NSectors THEN EraseOp("section", 0, n) ELSE NoOp

(* main of bootloader.c up to the update: pqp_init, the latch code, and    *)
(* pqpf_check_valid_clone_firmware.                                        *)
Boot ==
  /\ mode = "reset"
  /\ ReadRegisters
  /\ \/ /\ latchReg = "update"
        /\ \E im \in Image :
             /\ ValidClone(im)
             /\ mode' = "erasing"
             /\ blockCount' = Size[im]
             /\ op' = EraseForUpdate(Size[im])
     \/ /\ latchReg # "update" \/ \A im \in Image : ~ ValidClone(im)
        /\ mode' = "idle"
        /\ UNCHANGED <<blockCount, op>>
  /\ UNCHANGED <<flash, reply, history, commands, mishaps>>

(* The guards of pqpf_clone_local_firmware on its block count and source.  *)
CloneStrictlyAbove(blocks, src) ==
  blocks > 0 /\ src > blocks /\ src < NPages /\ src + blocks <= NPages

CloneAllowed(blocks, src) ==
  /\ blocks > 0
  /\ src >= blocks
  /\ src < NPages
  /\ src + blocks <= NPages

(* The application area is erased, as far as it went: copy the clone.      *)
UpdateClone ==
  /\ mode = "erasing"
  /\ op.kind = "none"
  /\ mode' = "cloning"
  /\ op' = IF CloneAllowed(blockCount, CloneStart)
             THEN CloneOp(blockCount, CloneStart) ELSE NoOp
  /\ UNCHANGED <<flash, blockCount, regs, reply, history, commands, mishaps>>

(* pqpf_reboot( 0 ) at the end of the update, whatever its outcome.        *)
UpdateReboot ==
  /\ mode = "cloning"
  /\ op.kind = "none"
  /\ Reboot("none")
  /\ UNCHANGED <<flash, commands, mishaps>>

(* pqpf_start_firmware: scratch[0] gets the boot word back, for the        *)
(* application to report.                                                  *)
CauseDropped == UNCHANGED scratch0
LatchHandedOver == scratch0' = latchReg
HandCauseOver == scratch0' = bootWord

(* pqpf_check_valid_firmware, then the jump.                               *)
StartFirmware ==
  /\ mode = "idle"
  /\ op.kind = "none"
  /\ \E im \in Image :
       /\ CompleteAt(flash, 0, im)
       /\ running' = im
  /\ mode' = "handover"
  /\ HandCauseOver
  /\ latched' = "none"
  /\ bootWord' = "power"
  /\ reply' = "none"
  /\ UNCHANGED <<flash, op, blockCount, latchReg, asked, cause, commands,
                 mishaps>>

(* FIRMWARE_AUTOSTART_MS have passed, and no latch holds the board.        *)
Autostart == latched # "latch" /\ StartFirmware

(* FIRMWARE_START_LATCH_TIMEOUT_MS have passed.                            *)
LatchForever == latched # "latch" /\ StartFirmware
LatchTimeout == StartFirmware

(* main of app.c registers the fault handler and calls pqp_init.           *)
AppInit ==
  /\ mode = "handover"
  /\ mode' = "app"
  /\ ReadRegisters
  /\ UNCHANGED <<flash, op, blockCount, reply, history, commands, mishaps>>

-----------------------------------------------------------------------------
(***************************************************************************)
(* Commands, served one at a time by the main loop of the bootloader or    *)
(* of the application.                                                     *)
(***************************************************************************)
Serve(modes) ==
  /\ mode \in modes
  /\ op.kind = "none"
  /\ commands < MaxCommands
  /\ commands' = commands + 1
  /\ UNCHANGED mishaps

Start(o) ==
  /\ op' = o
  /\ reply' = "none"
  /\ UNCHANGED <<flash, mode, blockCount, regs, history>>

Refuse ==
  /\ reply' = "fail"
  /\ UNCHANGED <<flash, mode, op, blockCount, regs, history>>

(* pqpf_firmware_length + header, as the application's guards use it.  An  *)
(* erased length reads 0xFFFFFFFF, and the sum wraps into page 1.          *)
EndWithoutHeader ==
  IF HeaderSane(flash, 0) THEN HeaderSize(flash, 0) - 1 ELSE 1

FirmwareEnd == IF HeaderSane(flash, 0) THEN HeaderSize(flash, 0) ELSE 1

EraseFirmware ==
  /\ Serve({"idle", "app"})
  /\ IF mode = "idle" /\ HeaderSane(flash, 0)
       THEN Start(EraseOp("firmware", 1, SectorsFor(HeaderSize(flash, 0))))
       ELSE Refuse

EraseAll ==
  /\ Serve({"idle", "app"})
  /\ IF mode = "idle" THEN Start(EraseOp("all", 0, NSectors)) ELSE Refuse

(* Sectors first .. last - 1.  The application keeps off its own code.     *)
EraseSection ==
  /\ Serve({"idle", "app"})
  /\ \E first \in Sector, last \in 1 .. NSectors :
       /\ first < last
       /\ IF mode = "idle" \/ first * SectorPages >= FirmwareEnd
            THEN Start(EraseOp("section", first, last))
            ELSE Refuse

WritePage(p, c) ==
  /\ Serve({"idle", "app"})
  /\ IF mode = "idle" \/ p >= FirmwareEnd THEN Start(WriteOp(p, c)) ELSE Refuse

FirmwareWrite == \E u \in Uploads : WritePage(u[1], u[2])

CloneLocal ==
  /\ Serve({"idle", "app"})
  /\ \E blocks \in 1 .. NPages, src \in Page :
       IF mode = "idle" /\ CloneAllowed(blocks, src)
         THEN Start(CloneOp(blocks, src))
         ELSE Refuse

RebootWith(code) ==
  /\ Serve({"idle", "app"})
  /\ Reboot(code)
  /\ UNCHANGED flash

RebootCommand == \E code \in Codes : RebootWith(code)

(* pqphws_core1_flash_write, as core 0 carries it out: outside the running *)
(* firmware, but without looking at what the page holds.                   *)
Core1Write ==
  /\ Serve({"app"})
  /\ \E u \in Uploads :
       /\ u[1] >= FirmwareEnd
       /\ flash' = Overwritten(flash, u[1], u[2])
  /\ UNCHANGED <<mode, op, blockCount, regs, reply, history>>

-----------------------------------------------------------------------------
(***************************************************************************)
(* The flash steps of the command under way.                               *)
(***************************************************************************)

(* The flash does what it is told, or a cell is worn out.                  *)
FlashChange ==
  \/ flash' = FlashAfter /\ UNCHANGED mishaps
  \/ /\ InFlight # {}
     /\ mishaps < MaxMishaps
     /\ mishaps' = mishaps + 1
     /\ flash' = [p \in Page |-> IF p \in InFlight THEN Torn ELSE flash[p]]

(* Readback of the _with_check functions.                                  *)
Verified ==
  CASE op.kind \in {"firmware", "all", "section"} -> SectorBlank(flash', NextSector)
    [] op.kind = "clone" ->
         /\ Programmable(flash[ClonePage], flash[op.from + ClonePage])
         /\ flash'[ClonePage] = flash[op.from + ClonePage]
    [] OTHER ->
         /\ Programmable(flash[op.pos], op.data)
         /\ flash'[op.pos] = op.data

(* The last step of an erase of the firmware is its first sector, the last *)
(* one of a clone is its header: both come at pos = end.                   *)
LastStep ==
  IF op.kind \in {"firmware", "clone"} THEN op.pos = op.end
                                       ELSE op.pos = op.end - 1

LastCheckOnly == Verified
Success == op.ok /\ Verified

FlashStep ==
  /\ op.kind # "none"
  /\ IF Skipped THEN UNCHANGED <<flash, mishaps>> ELSE FlashChange
  /\ IF LastStep
       THEN op' = NoOp /\ reply' = IF Success THEN "ok" ELSE "fail"
       ELSE op' = [op EXCEPT !.pos = @ + 1, !.ok = Success] /\ UNCHANGED reply
  /\ UNCHANGED <<mode, blockCount, regs, history, commands>>

-----------------------------------------------------------------------------
Init ==
  /\ flash \in InitialFlash
  /\ mode = "reset"
  /\ op = NoOp
  /\ blockCount = 0
  /\ latchReg = "none"
  /\ latched = "none"
  /\ scratch0 = "power"
  /\ bootWord = "power"
  /\ reply = "none"
  /\ running = NoImage
  /\ asked = "none"
  /\ cause = "power"
  /\ commands = 0
  /\ mishaps = 0

Command ==
  \/ EraseFirmware \/ EraseAll \/ EraseSection
  \/ FirmwareWrite \/ CloneLocal \/ RebootCommand \/ Core1Write

Program ==
  \/ Boot \/ UpdateClone \/ UpdateReboot
  \/ Autostart \/ LatchTimeout \/ AppInit \/ FlashStep

Next ==
  \/ Program
  \/ Command
  \/ PowerCut \/ WatchdogReset \/ HardFault

(* The bootloader is one loop with nothing to wait for: its own steps are  *)
(* taken as long as the board has power.  Nobody has to send a command and *)
(* nothing has to fail.                                                    *)
Fairness == WF_vars(Program)

Spec == Init /\ [][Next]_vars /\ Fairness

-----------------------------------------------------------------------------
(***************************************************************************)
(* Properties.                                                             *)
(***************************************************************************)

(* Every variable keeps to the values the code can give it.                *)
TypeOK ==
  /\ flash \in [Page -> Content]
  /\ mode \in Modes
  /\ op \in OpType
  /\ blockCount \in 0 .. NPages
  /\ latchReg \in Codes /\ latched \in Codes /\ asked \in Codes
  /\ scratch0 \in Causes /\ bootWord \in Causes
  /\ cause \in Causes \cup {Unreported}
  /\ reply \in {"none", "ok", "fail"}
  /\ running \in Image \cup {NoImage}
  /\ commands \in 0 .. MaxCommands
  /\ mishaps \in 0 .. MaxMishaps

(* The code that runs is one complete image, and stays it while it runs:   *)
(* the validity check before the jump and the bounds every erase and write *)
(* of the application respects work together.                              *)
RunningImageIntact ==
  mode \in {"handover", "app"} =>
    /\ running \in Image
    /\ CompleteAt(flash, 0, running)

Fits(blocks) == SectorsFor(blocks) * SectorPages <= CloneStart

(* An update never puts at risk the clone it installs: wherever the power  *)
(* fails between the first erase and the last program, one complete image  *)
(* is left to start again from.  (For a clone whose sectors end before the *)
(* clone area; see CloneAfterApp.)                                         *)
UpdateSourceRetained ==
  /\ mode \in {"erasing", "cloning"}
  /\ Fits(blockCount)
  => \E im \in Image : Size[im] = blockCount /\ ValidClone(im)

(* pqpf_firmware_erase gives up the header, which it needs to know how far *)
(* to erase, only when everything it had to erase behind it is erased: cut *)
(* short anywhere, it can be asked for again.                              *)
EraseKeepsHeader ==
  [][ op.kind = "firmware" /\ op.ok /\ flash'[0] # flash[0]
      => \A s \in 1 .. op.end - 1 : SectorBlank(flash, s) ]_vars

(* A command that answers success has done all of its work, also when a    *)
(* step in the middle of it failed and a later one did not.                *)
Accomplished(o, f) ==
  CASE o.kind = "firmware" -> \A s \in 0 .. o.end - 1 : SectorBlank(f, s)
    [] o.kind \in {"all", "section"} ->
         \A s \in o.from .. o.end - 1 : SectorBlank(f, s)
    [] o.kind = "clone" -> \A i \in 0 .. o.end - 1 : f[i] = f[o.from + i]
    [] OTHER -> f[o.pos] = o.data

ReplyHonest ==
  [][ op.kind # "none" /\ op' = NoOp /\ reply' = "ok"
      => Accomplished(op, flash') ]_vars

(* A latch is obeyed by the boot that follows the reboot it came with, and *)
(* by no other: not lost by a fault before it is read, not seen again      *)
(* after a crash of what was started.                                      *)
LatchObeyedOnce ==
  mode \in {"erasing", "cloning", "idle"} => latched = asked

(* The bootloader and the application both report why the board was reset, *)
(* across the hand-over of scratch[0] from the one to the other.           *)
CauseReported ==
  mode \in {"erasing", "cloning", "idle", "app"} /\ cause # Unreported
    => bootWord = cause

(* A board with a valid firmware ends up running it, latched or not, once  *)
(* it is left alone.                                                       *)
FirmwareRuns == <>[](ValidFirmware => mode = "app")

(* An update that is accepted, and that nothing disturbs, ends with the    *)
(* clone installed and running.                                            *)
Events == commands + mishaps     \* neither of them ever goes down
Accepted ==
  /\ mode = "erasing" /\ op = EraseForUpdate(blockCount)
  /\ Fits(blockCount)

UpdateInstalls ==
  \A n \in 0 .. MaxCommands + MaxMishaps :
    Accepted /\ Events = n
      ~> Events > n \/ (running # NoImage /\ ValidClone(running))

(* pqpf_check_valid_clone_firmware, on the clone it accepts: "must be      *)
(* after the app".                                                         *)
CloneAfterApp ==
  mode = "erasing" => Fits(blockCount)

==============================================================================
