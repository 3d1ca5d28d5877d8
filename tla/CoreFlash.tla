------------------------------ MODULE CoreFlash ------------------------------
(***************************************************************************)
(* Erasing and programming flash while the firmware runs on both cores:    *)
(* core 1 asks for it through the mailbox of pqphws_core1_erase_flash and  *)
(* pqphws_core1_flash_write, core 0 does it in pqphws_core0_flash_process  *)
(* and, for commands of the ground, in pqpf_firmware_erase_section and     *)
(* pqpf_firmware_write. (Those that are for the routing table, which do    *)
(* the same, are in module RoutingTable.) The code of both cores is in the *)
(* flash, which cannot be read while it changes, so core 0 first locks     *)
(* core 1 out (multicore_lockout of the Pico SDK: an interrupt handler in  *)
(* RAM that waits).                                                        *)
(*                                                                         *)
(* Addresses and lengths are in pages and wrap around like uint32_t.       *)
(***************************************************************************)
EXTENDS Integers, FiniteSets

CONSTANTS
  Width,          \* addresses are 0 .. Width - 1
  SectorPages,    \* pages of a sector
  Protected, RoutingTable, UserConfig, App, FlashEnd,  \* first page of each area
  FirmwareEnd,    \* first page behind the running firmware
  Data,           \* what a page can be programmed with
  Blank, Torn,    \* an erased page; one that is neither erased nor as written
  InitialFlash,   \* what the flash may hold when the firmware starts
  MaxCalls,       \* bound: calls of core 1
  MaxCommands,    \* bound: erase and write commands of the ground
  MaxResets       \* bound: watchdog resets

Address == 0 .. Width - 1
Page == 0 .. FlashEnd - 1

ASSUME CoreFlashAssumption ==
  /\ {Width, SectorPages, FlashEnd} \subseteq Nat \ {0}
  /\ {Protected, RoutingTable, UserConfig, App, FirmwareEnd} \subseteq Page
  /\ Protected < RoutingTable /\ RoutingTable < UserConfig
  /\ UserConfig < App /\ App < FirmwareEnd
  /\ FlashEnd < Width
  /\ \A a \in {RoutingTable, UserConfig, App, FlashEnd, Width} :
       a % SectorPages = 0
  /\ Blank \notin Data /\ Torn \notin Data /\ Blank # Torn
  /\ InitialFlash \subseteq [Page -> Data \cup {Blank}]
  /\ {MaxCalls, MaxCommands, MaxResets} \subseteq Nat

VARIABLES
  flash,
  core1,     \* what core 1 is doing
  locked,    \* core 1 is in the handler of the lockout
  mailbox,   \* core1_flash_request, _address, _length and _src_buf
  result,    \* what the last call of core 1 returned
  core0,     \* what core 0 is doing
  lockout,   \* core 0 has asked for, and not ended, a lockout
  job,       \* the erase or write core 0 is carrying out
  pos,       \* the pages of it already done
  called,    \* history: the request of the last call of core 1
  served,    \* history: the pages changed for it, in how many steps each
  calls, commands, resets

core0Vars == <<core0, lockout, job, pos>>
core1Vars == <<core1, result, called, calls>>
vars == <<flash, locked, mailbox, core0Vars, core1Vars, served, commands, resets>>

Empty == [kind |-> "none"]
EraseRequest(a, n) == [kind |-> "erase", address |-> a, length |-> n]
WriteRequest(a, n, d) ==
  [kind |-> "write", address |-> a, length |-> n, data |-> d]
Requests ==
  { EraseRequest(a, n) : a \in Address, n \in Address }
  \cup { WriteRequest(a, n, d) : a \in Address, n \in Address, d \in Data }

End(r) == (r.address + r.length) % Width
PagesOf(r) == r.address .. End(r) - 1
None == [p \in Page |-> 0]

Aligned(r) ==
  r.kind = "erase" => r.address % SectorPages = 0 /\ r.length % SectorPages = 0

-----------------------------------------------------------------------------
(***************************************************************************)
(* Core 1: main_core1 of the application.                                  *)
(***************************************************************************)

(* multicore_lockout_victim_init, the first call of main_core1.            *)
VictimInit ==
  /\ core1 = "launched"
  /\ core1' = "running"
  /\ UNCHANGED <<flash, locked, mailbox, core0Vars, result, called, served,
                 calls, commands, resets>>

(* The areas of memmap.h that a request must keep to.                      *)
StartInArea(r) ==
  /\ r.address >= Protected
  /\ ~ (r.address >= RoutingTable /\ r.address < UserConfig)
  /\ ~ (r.address >= App /\ r.address < FirmwareEnd)

StaysInArea(r) ==
  /\ StartInArea(r)
  /\ r.address < RoutingTable => End(r) <= RoutingTable
  /\ r.address >= UserConfig /\ r.address < App => End(r) <= App

Accepted(r) ==
  /\ Aligned(r)
  /\ r.length > 0
  /\ r.address <= End(r)
  /\ StaysInArea(r)
  /\ End(r) <= FlashEnd

Call ==
  /\ core1 = "running" /\ ~ locked
  /\ calls < MaxCalls
  /\ calls' = calls + 1
  /\ \E r \in Requests :
       IF Accepted(r)
         THEN /\ mailbox' = r /\ called' = r
              /\ core1' = "waiting" /\ result' = "none"
         ELSE /\ called' = Empty
              /\ result' = "failed"
              /\ UNCHANGED <<mailbox, core1>>
  /\ served' = None
  /\ UNCHANGED <<flash, locked, core0Vars, commands, resets>>

(* The poll of core1_flash_request, once a millisecond.                    *)
Return ==
  /\ core1 = "waiting" /\ ~ locked
  /\ mailbox = Empty
  /\ core1' = "running"
  /\ result' = "succeeded"
  /\ UNCHANGED <<flash, locked, mailbox, core0Vars, called, served, calls,
                 commands, resets>>

(* The lockout interrupt of core 1, and its end.                           *)
EnterLockout ==
  /\ core1 # "launched" /\ lockout /\ ~ locked
  /\ locked' = TRUE
  /\ UNCHANGED <<flash, mailbox, core0Vars, core1Vars, served, commands, resets>>

LeaveLockout ==
  /\ locked /\ ~ lockout
  /\ locked' = FALSE
  /\ UNCHANGED <<flash, mailbox, core0Vars, core1Vars, served, commands, resets>>

-----------------------------------------------------------------------------
(***************************************************************************)
(* Core 0.                                                                 *)
(***************************************************************************)

(* pqphws_core0_flash_process finds a request: lockout_start_blocking.     *)
TakeRequest ==
  /\ core0 = "polling" /\ ~ locked
  /\ mailbox # Empty
  /\ core0' = "locking"
  /\ lockout' = TRUE
  /\ UNCHANGED <<flash, locked, mailbox, job, pos, core1Vars, served, commands,
                 resets>>

(* The lockout is acknowledged: core 0 reads the rest of the mailbox.  Its *)
(* own checks are weaker than those of core 1 and break off the job.       *)
Plausible(r) ==
  /\ Aligned(r)
  /\ r.length > 0
  /\ r.address <= End(r)
  /\ r.address >= Protected
  /\ End(r) <= FlashEnd

ReadBeforeAck ==
  /\ core0 = "locking"
  /\ job' = mailbox
  /\ pos' = 0
  /\ core0' = IF Plausible(mailbox) THEN "working" ELSE "clearing"
  /\ UNCHANGED <<flash, locked, mailbox, lockout, core1Vars, served, commands,
                 resets>>

ReadMailbox ==
  /\ core0 = "locking" /\ locked
  /\ job' = mailbox
  /\ pos' = 0
  /\ core0' = IF Plausible(mailbox) THEN "working" ELSE "clearing"
  /\ UNCHANGED <<flash, locked, mailbox, lockout, core1Vars, served, commands,
                 resets>>

(* Commands of the ground: pqpf_firmware_erase_section and                 *)
(* pqpf_firmware_write, which refuse what lies below the end of the        *)
(* running firmware or wraps around.                                       *)
BehindAppOffset(r) == r.address >= App
BehindFirmware(r) == r.address >= FirmwareEnd

GroundAccepted(r) ==
  /\ Aligned(r)
  /\ r.length > 0
  /\ r.address <= End(r)
  /\ BehindFirmware(r)

(* A refused command changes nothing: it is a stuttering step.  A range    *)
(* that passes the checks may still end behind the flash, against which    *)
(* the application has no check.  What the chip then does is not known     *)
(* from the repository, and the ground is taken not to ask for it.         *)
InsideFlash(r) == End(r) <= FlashEnd

GroundCommand ==
  /\ core0 = "polling" /\ ~ locked
  /\ commands < MaxCommands
  /\ commands' = commands + 1
  /\ \E r \in Requests :
       /\ GroundAccepted(r) /\ InsideFlash(r)
       /\ job' = r
  /\ core0' = "groundnext"
  /\ pos' = 0
  /\ UNCHANGED <<flash, locked, mailbox, lockout, core1Vars, served, resets>>

(* One lockout for each sector of an erase, one for all of a write, and    *)
(* none if core 1 has not called multicore_lockout_victim_init yet: that   *)
(* is asked anew every time.                                               *)
GroundLock ==
  /\ core0 = "groundnext" /\ ~ locked
  /\ lockout' = (core1 # "launched")
  /\ core0' = IF lockout' THEN "groundlocking" ELSE "groundworking"
  /\ UNCHANGED <<flash, locked, mailbox, job, pos, core1Vars, served, commands,
                 resets>>

GroundLocked ==
  /\ core0 = "groundlocking" /\ locked
  /\ core0' = "groundworking"
  /\ UNCHANGED <<flash, locked, mailbox, lockout, job, pos, core1Vars, served,
                 commands, resets>>

(* Interrupts off, and the flash busy: one sector of an erase, or all of a *)
(* write.                                                                  *)
Target ==
  IF job.kind = "erase"
    THEN job.address + pos .. job.address + pos + SectorPages - 1
    ELSE PagesOf(job)
(* The ground's write only programs a range that is erased as a whole.     *)
Refused ==
  core0 = "groundbusy" /\ job.kind = "write" /\ \E p \in Target : flash[p] # Blank
ContentAfter(p) ==
  IF job.kind = "erase" THEN Blank
    ELSE IF Refused THEN flash[p]
    ELSE IF flash[p] \in {Blank, job.data} THEN job.data ELSE Torn

Busy == core0 \in {"busy", "groundbusy"}
StartFlash ==
  /\ core0 \in {"working", "groundworking"}
  /\ core0' = IF core0 = "working" THEN "busy" ELSE "groundbusy"
  /\ UNCHANGED <<flash, locked, mailbox, lockout, job, pos, core1Vars, served,
                 commands, resets>>

MoreWithinOneTooMany == pos + Cardinality(Target) <= job.length
MoreToDo == pos + Cardinality(Target) < job.length

EndFlash ==
  /\ Busy
  /\ flash' = [p \in Page |-> IF p \in Target THEN ContentAfter(p) ELSE flash[p]]
  /\ served' = IF core0 = "groundbusy" THEN served
               ELSE [p \in Page |-> served[p] + (IF p \in Target THEN 1 ELSE 0)]
  /\ pos' = pos + Cardinality(Target)
  /\ core0' = CASE core0 = "busy" -> IF MoreToDo THEN "working" ELSE "clearing"
               [] OTHER -> IF MoreToDo THEN "groundending" ELSE "ending"
  /\ UNCHANGED <<locked, mailbox, lockout, job, core1Vars, commands, resets>>

(* core1_flash_request = 0, then lockout_end_blocking, which waits for     *)
(* core 1 to leave (the ~ locked of the actions that start from polling    *)
(* and of the next sector of the ground).                                  *)
Cleared == mailbox' = Empty

ClearRequest ==
  /\ core0 = "clearing"
  /\ Cleared
  /\ core0' = "ending"
  /\ UNCHANGED <<flash, locked, lockout, job, pos, core1Vars, served, commands,
                 resets>>

Ending == core0 \in {"ending", "groundending"}
Ended ==
  IF core0 = "ending"
    THEN core0' = "polling" /\ job' = Empty /\ pos' = 0
    ELSE core0' = "groundnext" /\ UNCHANGED <<job, pos>>

EndStillLocked ==
  /\ Ending
  /\ Ended
  /\ UNCHANGED <<flash, locked, mailbox, lockout, core1Vars, served, commands,
                 resets>>

EndLockout ==
  /\ Ending
  /\ lockout' = FALSE
  /\ Ended
  /\ UNCHANGED <<flash, locked, mailbox, core1Vars, served, commands, resets>>

-----------------------------------------------------------------------------
(* The board is reset and starts the firmware again; a sector or page that *)
(* was being changed is torn.                                              *)
WatchdogReset ==
  /\ resets < MaxResets
  /\ resets' = resets + 1
  /\ flash' = [p \in Page |-> IF Busy /\ ~ Refused /\ p \in Target THEN Torn
                               ELSE flash[p]]
  /\ core1' = "launched"
  /\ locked' = FALSE
  /\ mailbox' = Empty
  /\ result' = "none"
  /\ core0' = "polling"
  /\ lockout' = FALSE
  /\ job' = Empty
  /\ pos' = 0
  /\ called' = Empty
  /\ served' = None
  /\ UNCHANGED <<calls, commands>>

Init ==
  /\ flash \in InitialFlash
  /\ core1 = "launched"
  /\ locked = FALSE
  /\ mailbox = Empty
  /\ result = "none"
  /\ core0 = "polling"
  /\ lockout = FALSE
  /\ job = Empty
  /\ pos = 0
  /\ called = Empty
  /\ served = None
  /\ calls = 0 /\ commands = 0 /\ resets = 0

(* What a core does by itself.  Call and GroundCommand are up to the       *)
(* application and to the ground.                                          *)
Core1 == VictimInit \/ Return \/ EnterLockout \/ LeaveLockout
Core0 ==
  \/ TakeRequest \/ ReadMailbox \/ GroundLock \/ GroundLocked
  \/ StartFlash \/ EndFlash \/ ClearRequest \/ EndLockout

Next == Core1 \/ Core0 \/ Call \/ GroundCommand \/ WatchdogReset

(* Both cores run; the loop of core 0 comes back to the mailbox after any  *)
(* number of commands of the ground (bounded by MaxCommands).              *)
Fairness == WF_vars(Core1) /\ WF_vars(Core0)

Spec == Init /\ [][Next]_vars /\ Fairness

-----------------------------------------------------------------------------
(***************************************************************************)
(* Properties.                                                             *)
(***************************************************************************)

(* Every variable keeps to the values the code can give it.                *)
TypeOK ==
  /\ flash \in [Page -> Data \cup {Blank, Torn}]
  /\ core1 \in {"launched", "running", "waiting"}
  /\ locked \in BOOLEAN /\ lockout \in BOOLEAN
  /\ mailbox \in Requests \cup {Empty}
  /\ job \in Requests \cup {Empty} /\ called \in Requests \cup {Empty}
  /\ result \in {"none", "succeeded", "failed"}
  /\ core0 \in {"polling", "locking", "working", "busy", "clearing", "ending",
                "groundnext", "groundlocking", "groundworking", "groundbusy",
                "groundending"}
  /\ pos \in 0 .. IF job = Empty THEN 0 ELSE job.length
  /\ served \in [Page -> Nat]

(* Core 1 does not run while the flash changes on its own request, or for  *)
(* the ground once it can be locked out.                                   *)
RequestUnderLockout == Busy /\ lockout => locked

(* When the call of core 1 is answered, every page it named and no other   *)
(* has been changed for it, once.                                          *)
ServedOnce ==
  core1 = "waiting" /\ mailbox = Empty =>
    \A p \in Page : served[p] = IF p \in PagesOf(called) THEN 1 ELSE 0

(* Whatever core 1 asks for through the mailbox, and whatever range that   *)
(* does not end behind the flash the ground names to the two pqpf_firmware *)
(* functions, the bootloader, the routing table and the firmware being run *)
(* are not changed.                                                        *)
Reserved ==
  0 .. Protected - 1 \cup RoutingTable .. UserConfig - 1 \cup App .. FirmwareEnd - 1
ReservedUntouched == [][ \A p \in Reserved : flash'[p] = flash[p] ]_vars

(* A call of core 1 returns, unless the board is reset.                    *)
CallReturns == core1 = "waiting" ~> core1 # "waiting"

==============================================================================
