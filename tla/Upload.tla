------------------------------- MODULE Upload -------------------------------
(***************************************************************************)
(* Uploading a firmware: the session of gnd_apps/upload_fw.c, the packets  *)
(* between the ground and the board, and the board itself (Bootloader).    *)
(*                                                                         *)
(* The tool asks for one thing at a time and takes the next reply that     *)
(* comes for its answer, looking at its length and a byte or two of it.    *)
(* Packets and replies stay in order; they are lost, or come after the     *)
(* tool has given up waiting.  The board may lose power, hang or crash at  *)
(* any time, and the tool may be run again, with another image and other   *)
(* switches, on what the run before has left.                              *)
(***************************************************************************)
EXTENDS Bootloader, Sequences

CONSTANTS
  LatchTries,     \* latch requests sent at most (4 in the code)
  PingTries,      \* pings that wait for the bootloader (16)
  ChecksumTries,  \* requests for the first checksum (8)
  MaxSessions,    \* bound: runs of the tool
  MaxLosses       \* bound: packets and replies that are lost or late

ASSUME UploadAssumption ==
  /\ LatchTries \in Nat \ {0}
  /\ PingTries \in Nat \ {0}
  /\ ChecksumTries \in Nat \ {0}
  /\ MaxSessions \in Nat
  /\ MaxLosses \in Nat
  /\ \A im \in Image : \A i \in 0 .. Size[im] - 1 : <<i, PageOf(im, i)>> \in Uploads

VARIABLES
  requests,   \* packets on their way to the board, in order
  replies,    \* replies on their way to the tool, in order
  pc,         \* what the tool asks next or waits for, or how it ended
  waiting,    \* in receive_data
  tries,      \* how often it has asked in the present loop
  block,      \* current_block, as the page it goes to
  known,      \* fw_len as far as it matters: "erased", "set", or "unset"
  wanted,     \* the image in fw_data
  switches,   \* do_erase, erase_all_flash and erase_only
  sessions,   \* runs of the tool so far
  losses,     \* packets and replies lost or late so far
  offered,    \* history: the images installed at first or wanted since
  agreed,     \* history: an erase was agreed to
  excused,    \* history: this run may fail
  feasible    \* history: left alone, this run can install its image

network == <<requests, replies, losses>>
tool == <<pc, waiting, tries, block, known, wanted, switches, sessions>>
record == <<offered, agreed, excused, feasible>>
board == vars
uvars == <<board, network, tool, record>>

Switches == { s \in [erase : BOOLEAN, all : BOOLEAN, only : BOOLEAN] :
                s.only => s.erase }
Asking == {"ping", "latch", "wait", "checksum", "erase", "write", "header", "final"}
Ended == {"none", "done", "failed", "stopped"}

-----------------------------------------------------------------------------
(***************************************************************************)
(* The tool.                                                               *)
(***************************************************************************)

(* What the flash is after the erase these switches lead to.               *)
WillErase(s) == s.erase \/ flash[0] \in ImagePage
FlashToWrite(s) ==
  IF ~ WillErase(s) THEN flash
  ELSE [p \in Page |->
         IF s.all \/ p < SectorsFor(HeaderSize(flash, 0)) * SectorPages
           THEN Blank ELSE flash[p]]

(* pqpf_firmware_erase refuses a board without a header, and a torn header *)
(* may read as one that is erased.                                         *)
Feasible(im, s) ==
  /\ WillErase(s) /\ ~ s.all => HeaderSane(flash, 0)
  /\ flash[0] = Torn => s.erase
  /\ \A i \in 0 .. Size[im] - 1 : Programmable(FlashToWrite(s)[i], PageOf(im, i))

Served == mode \in {"idle", "app"} /\ op.kind = "none"
Calm == Served /\ requests = <<>> /\ replies = <<>>

Invoke ==
  /\ pc \in Ended
  /\ sessions < MaxSessions
  /\ sessions' = sessions + 1
  /\ \E im \in Image, s \in Switches :
       /\ wanted' = im
       /\ switches' = s
       /\ offered' = offered \cup {im}
       /\ feasible' = Feasible(im, s)
  /\ excused' = ~ Calm
  /\ pc' = "ping"
  /\ waiting' = FALSE
  /\ tries' = 0
  /\ block' = 1
  /\ known' = "unset"
  /\ UNCHANGED <<board, network, agreed>>

Packet(kind, p, c) == [kind |-> kind, page |-> p, data |-> c]
Request ==
  CASE pc \in {"ping", "wait"}      -> Packet("ping", 0, Blank)
    [] pc = "latch"                 -> Packet("latch", 0, Blank)
    [] pc \in {"checksum", "final"} -> Packet("checksum", 0, Blank)
    [] pc = "erase"  -> Packet(IF switches.all THEN "all" ELSE "firmware", 0, Blank)
    [] pc = "write"  -> Packet("write", block, PageOf(wanted, block))
    [] OTHER         -> Packet("write", 0, PageOf(wanted, 0))

SendRequest ==
  /\ pc \in Asking /\ ~ waiting
  /\ waiting' = TRUE
  /\ requests' = Append(requests, Request)
  /\ UNCHANGED <<board, replies, losses, pc, tries, block, known, wanted,
                 switches, sessions, record>>

(* What each request makes of the reply: the checks of ping,               *)
(* bootloader_latch, get_chksum, erase_firmware, erase_all and fw_write.   *)
Matches(r) == r.kind = "checksum" /\ r.length = "set" /\ wanted \in r.images

Good(r) ==
  CASE pc \in {"ping", "wait"} -> r.kind = "ping"
    [] pc = "latch"            -> r.kind = "latch"
    [] pc = "checksum"         -> r.kind = "checksum"
    [] pc = "erase"            -> r.kind = Request.kind /\ r.ok
    [] pc = "final"            -> Matches(r)
    [] OTHER                   -> r.kind = "write" /\ r.ok

GoTo(next) == pc' = next /\ tries' = 0
AskAgain(limit, next) ==
  IF tries + 1 < limit THEN tries' = tries + 1 /\ UNCHANGED pc ELSE GoTo(next)

(* No reply, or a bad one.  Only the loops in front go on.                 *)
FailAtOnce == GoTo("failed")
Bad ==
  CASE pc = "latch"    -> AskAgain(LatchTries, "wait")
    [] pc = "wait"     -> AskAgain(PingTries, "checksum")
    [] pc = "checksum" -> AskAgain(ChecksumTries, "decide")
    [] OTHER           -> GoTo("failed")

LastBlock == Size[wanted] - 1
AfterErase == IF switches.only THEN "stopped" ELSE "write"
HeaderEarly == IF block + 1 >= LastBlock THEN "header" ELSE "write"
AfterWrite == IF block = LastBlock THEN "header" ELSE "write"

Proceed(r) ==
  CASE pc = "ping"  -> GoTo("latch")
    [] pc = "latch" -> GoTo("wait")
    [] pc = "wait"  -> IF ~ r.bootloader THEN GoTo("failed")
                       ELSE IF r.longUp THEN GoTo("checksum")
                       ELSE AskAgain(PingTries, "checksum")
    [] pc = "checksum" -> GoTo("decide")
    [] pc = "erase"    -> GoTo(AfterErase)
    [] pc = "write"    -> GoTo(AfterWrite)
    [] pc = "header"   -> GoTo("final")
    [] OTHER           -> GoTo("done")

ReceiveReply ==
  /\ waiting /\ replies # <<>>
  /\ waiting' = FALSE
  /\ replies' = Tail(replies)
  /\ LET r == Head(replies) IN
       /\ IF Good(r) THEN Proceed(r) ELSE Bad
       /\ block' = IF pc = "write" /\ Good(r) THEN block + 1 ELSE block
       /\ known' = IF pc = "checksum" /\ Good(r) THEN r.length ELSE known
  /\ UNCHANGED <<board, requests, losses, wanted, switches, sessions, record>>

(* Without a switch that says so, the user is asked before something is    *)
(* erased: yes, no, or no answer because stdin is at its end, which fails  *)
(* the run and is excused.  fw_len is not initialised: after eight         *)
(* failures it holds anything, which excuses what comes of it.             *)
Decide ==
  /\ pc = "decide"
  /\ \/ /\ switches.erase \/ known # "erased"
        /\ GoTo("erase")
        /\ agreed' = TRUE
     \/ /\ ~ switches.erase /\ known # "erased"
        /\ \/ GoTo("stopped")
           \/ GoTo("failed")
        /\ UNCHANGED agreed
     \/ /\ ~ switches.erase /\ known # "set"
        /\ GoTo("write")
        /\ UNCHANGED agreed
  /\ excused' = (excused \/ known = "unset" \/ pc' = "failed")
  /\ UNCHANGED <<board, network, waiting, block, known, wanted, switches,
                 sessions, offered, feasible>>

-----------------------------------------------------------------------------
(***************************************************************************)
(* The board answers.                                                      *)
(***************************************************************************)
Take(kind) ==
  /\ requests # <<>>
  /\ Head(requests).kind = kind
  /\ requests' = Tail(requests)
Answer(r) == replies' = Append(replies, r)
Idle == UNCHANGED <<losses, tool, record>>

(* A bootloader that nothing holds starts a valid firmware after three     *)
(* seconds: it is not up for more than five.                               *)
MayBeLongUp == mode = "app" \/ latched = "latch" \/ ~ ValidFirmware

Ping ==
  /\ Served
  /\ Take("ping")
  /\ \E long \in BOOLEAN :
       /\ long => MayBeLongUp
       /\ Answer([kind |-> "ping", bootloader |-> mode = "idle", longUp |-> long])
  /\ UNCHANGED board /\ Idle

Latch ==
  /\ Take("latch")
  /\ RebootWith("latch")
  /\ Answer([kind |-> "latch"])
  /\ Idle

(* The length in a torn header is anything.                                *)
Lengths == IF flash[0] = Blank THEN {"erased"}
           ELSE IF flash[0] = Torn THEN {"erased", "set"} ELSE {"set"}
Checksum ==
  /\ Served
  /\ Take("checksum")
  /\ \E length \in Lengths :
       Answer([kind |-> "checksum", length |-> length,
               images |-> { im \in Image : CompleteAt(flash, 0, im) }])
  /\ UNCHANGED board /\ Idle

(* A command that is refused is answered at once, the others at the end.   *)
AnswerIfOver(kind) ==
  IF reply' = "none" THEN UNCHANGED replies
                     ELSE Answer([kind |-> kind, ok |-> reply' = "ok"])

Erase ==
  /\ \/ Take("firmware") /\ EraseFirmware /\ AnswerIfOver("firmware")
     \/ Take("all") /\ EraseAll /\ AnswerIfOver("all")
  /\ Idle

Write ==
  /\ Take("write")
  /\ WritePage(Head(requests).page, Head(requests).data)
  /\ AnswerIfOver("write")
  /\ Idle

(* A page that does not verify is an excuse for the session.               *)
FlashWork ==
  /\ FlashStep
  /\ IF op' = NoOp THEN AnswerIfOver(op.kind) ELSE UNCHANGED replies
  /\ UNCHANGED <<requests, losses, tool, offered, agreed, feasible>>
  /\ excused' = (excused \/ mishaps' # mishaps)

(* A session is over long before FIRMWARE_START_LATCH_TIMEOUT_MS, an hour. *)
Booting ==
  /\ \/ Boot \/ Autostart \/ AppInit
     \/ pc \in Ended /\ LatchTimeout
  /\ UNCHANGED <<requests, replies>> /\ Idle

-----------------------------------------------------------------------------
(***************************************************************************)
(* What goes wrong.                                                        *)
(***************************************************************************)

(* The loss of a request that is repeated is no excuse, the first time.    *)
Repeated == pc \in {"latch", "wait", "checksum"}
Miscarry ==
  /\ losses < MaxLosses
  /\ losses' = losses + 1
Excuse == excused' = TRUE /\ UNCHANGED <<offered, agreed, feasible>>
ExcuseUnless(repeated) ==
  /\ excused' = (excused \/ ~ repeated)
  /\ UNCHANGED <<offered, agreed, feasible>>

(* A packet that arrives while the board boots.                            *)
LostInBoot ==
  /\ mode \in {"reset", "handover"}
  /\ requests # <<>>
  /\ requests' = Tail(requests)
  /\ ExcuseUnless(Repeated)
  /\ UNCHANGED <<board, replies, losses, tool>>

LoseRequest ==
  /\ requests # <<>>
  /\ Miscarry
  /\ requests' = Tail(requests)
  /\ ExcuseUnless(Repeated /\ waiting)
  /\ UNCHANGED <<board, replies, tool>>

LoseReply ==
  /\ replies # <<>>
  /\ Miscarry
  /\ replies' = Tail(replies)
  /\ ExcuseUnless(Repeated /\ waiting)
  /\ UNCHANGED <<board, requests, tool>>

BoardFails ==
  /\ PowerCut \/ WatchdogReset \/ HardFault
  /\ requests' \in {requests, <<>>}
  /\ Excuse
  /\ UNCHANGED <<replies, losses, tool>>

(* receive_data returns -1.  A board boots in less than any time-out.      *)
AnswerComes == requests # <<>> \/ replies # <<>> \/ op.kind # "none"

ReceiveTimeout ==
  /\ waiting
  /\ mode \notin {"reset", "handover"}
  /\ waiting' = FALSE
  /\ Bad
  /\ IF AnswerComes THEN Miscarry /\ Excuse ELSE UNCHANGED <<losses, record>>
  /\ UNCHANGED <<board, requests, replies, block, known, wanted, switches, sessions>>

-----------------------------------------------------------------------------
Installed ==
  IF ValidFirmware THEN CHOOSE im \in Image : CompleteAt(flash, 0, im)
                   ELSE NoImage

UploadInit ==
  /\ Init
  /\ requests = <<>> /\ replies = <<>>
  /\ losses = 0
  /\ pc = "none"
  /\ waiting = FALSE
  /\ tries = 0
  /\ block = 1
  /\ known = "unset"
  /\ wanted = NoImage
  /\ switches = [erase |-> FALSE, all |-> FALSE, only |-> FALSE]
  /\ sessions = 0
  /\ offered = {Installed} \ {NoImage}
  /\ agreed = FALSE
  /\ excused = FALSE
  /\ feasible = FALSE

Ground == Invoke \/ SendRequest \/ ReceiveReply \/ ReceiveTimeout \/ Decide
Device == Ping \/ Latch \/ Checksum \/ Erase \/ Write \/ FlashWork \/ Booting
Trouble == LostInBoot \/ LoseRequest \/ LoseReply \/ BoardFails

UploadNext == Ground \/ Device \/ Trouble

UploadSpec == UploadInit /\ [][UploadNext]_uvars

-----------------------------------------------------------------------------
(***************************************************************************)
(* Properties.                                                             *)
(***************************************************************************)

(* Every variable of the session keeps to the values the code can give it. *)
UploadTypeOK ==
  /\ TypeOK
  /\ pc \in Asking \cup Ended \cup {"decide"}
  /\ waiting \in BOOLEAN
  /\ tries \in 0 .. LatchTries + PingTries + ChecksumTries
  /\ block \in 1 .. NPages
  /\ known \in {"erased", "set", "unset"}
  /\ wanted \in Image \cup {NoImage}
  /\ switches \in Switches
  /\ sessions \in 0 .. MaxSessions
  /\ losses \in 0 .. MaxLosses
  /\ offered \subseteq Image
  /\ agreed \in BOOLEAN /\ excused \in BOOLEAN /\ feasible \in BOOLEAN

(* The session, the packets and the board together keep the promise of     *)
(* Install: done is said of an image that is installed whatever reply was  *)
(* taken for the last one, and what is installed changes as a whole.       *)
Outcome == IF pc \in Ended THEN pc ELSE "open"
Promise == INSTANCE Install WITH installed <- Installed, outcome <- Outcome
Installs == Promise!Spec

(* The board takes no step that Bootloader does not take: what is proved   *)
(* of a board under any commands holds of a board under an upload.         *)
BoardObeyed == Init /\ [][Next]_vars

(* A header that gets to the board finds the whole image there already:    *)
(* no late, lost or misread reply, and no reset, makes the tool write it   *)
(* over a gap, where its length would stand for an image that is not one.  *)
HeaderLast ==
  [][ \A im \in Image :
        HeaderOf(flash', 0, im) /\ ~ HeaderOf(flash, 0, im)
          => CompleteAt(flash', 0, im) ]_uvars

(* A run that fails had a reason: the board was not left alone, a reply    *)
(* came too late, a packet was lost that is not repeated, the user was     *)
(* asked and did not answer, or the board holds what the switches of this  *)
(* run do not erase.                                                       *)
FailsForCause == pc = "failed" /\ feasible => excused

=============================================================================
