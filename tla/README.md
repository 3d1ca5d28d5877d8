# PicoPQP in TLA+

A model of PicoPQP: a bootloader for Raspberry Pi Pico boards, the application
skeleton it starts, and the ground tools that install firmware, set routing
tables and command the boards over a packet network (LibPQP).

## The system

| component | source | state it keeps | operations | correct when |
|---|---|---|---|---|
| flash access | `libpqp_foreign.c` 60-100, `memmap.h` | the pages of the flash | checked program, checked erase | a readback error is always reported; a cut leaves only the pages being changed torn |
| bootloader and firmware life cycle | `pico_bootloader/bootloader.c`, `pico_app/main.c`, `libpqp_foreign.c` 111-660 | scratch registers (reboot cause, latch code), latched code, application header, clone area | reset, boot, update from the clone, flash commands, autostart, hand-over | what runs is a complete image and stays one; an interrupted update can be repeated; a latch works once; the reset cause is reported |
| routing table | `libpqp_foreign.c` 280-458, `gnd_apps/set_routing_table.c` | table in flash, shadow page in RAM, last route in a cache | clear, write entry, checksum, look-up; the session of the ground | the table is the one asked for when the tool says so; no stale route |
| flash mailbox between the cores | `libpqp_foreign.c` 2538-2676, `pico_app/main.c` 44-80 | request, address, length, source | erase and write from core 1, service on core 0, multicore lockout | core 1 never executes from a busy flash; each request served once; reserved areas untouched |
| firmware upload | `gnd_apps/upload_fw.c` | where the session is, next block, switches | ping, latch, checksum, erase, write, final check; resume | what it calls uploaded is installed; a header never lands before its image; it fails only for a reason |
| ground session base | `gnd_apps/gnd_app_base.c` | socket, subscribed ports | connection, request and reply with time-out | a reply or a time-out, never a hang |
| ground hub | `pqp_gnd_hub/pqp_hub.c` | reservation of each address, queues, line buffers | accept, obey a line, pass a packet on, serve the bridge, stop | the newest client of an address has it, each line is obeyed, packets stay in order |
| USB bridge | `pqp_gnd_hub/pqp_usb_bridge.c` | frame being read, ring of packets | frame, read, hand over | a packet arrives as sent or not at all, a lost byte costs two packets at most |
| HD-UART interfaces | `libpqp_foreign.c` 1279-1756 | receive ring, frame being sent, echo index | busy check, send, status, receive, interrupt handler | a collision is noticed, a clean send is not called a failure, what is received is not joined over a gap |
| CAN interfaces | `libpqp_foreign.c` 942-1277 | receive ring, lost flags | enqueue, receive, clear, init, deinit | what is taken from the ring is what was received, in order |
| can2040 | `can2040/can2040.c` | parse state, report state, transmit queue, four PIO machines | interrupt handler, transmit, start, stop | a frame is reported once, a fragment is sent until it is acknowledged and not again |
| I2C interfaces | `libpqp_foreign.c` 1758-2535 | rings, bus state | send, receive, interrupt handlers | no wedged bus |
| small ground tools | `gnd_apps/*.c` | none | one request, one reply | - |
| LibPQP | git submodule, empty in the repository | - | packet format and dispatch | external |

How they interact: the ground tools are clients of the hub (TCP), the hub
talks to a bridge board (USB), the bridge to the boards (UART, CAN, I2C).
LibPQP on each board decodes packets and calls the `pqpf_` functions of
`libpqp_foreign.c` in the main loop of core 0. Core 1 of the application asks
core 0 for flash operations through a mailbox. The bootloader and the
application share the flash and the watchdog scratch registers.

The hard parts are power failing between, or in the middle of, any two flash
steps; state carried over resets in four registers; lost and late packets in
sessions whose replies do not identify their requests; two cores executing
from a flash that one of them changes; threads that share queues; shared buses;
and, for CAN, a bus that the driver sees through four independent lines, each
with its own delay. `PROJECT.json` lists each hazard at its line.

## Modules

| module | models | composed of |
|---|---|---|
| `Flash` | pages, sectors, images, checked and unchecked erase and program, power cuts | - |
| `Bootloader` | one board from reset to reset: `bootloader.c`, `main.c` of the application, the flash commands | extends `Flash` |
| `Install` | what an upload promises: an abstract board that has an image or none | - |
| `Upload` | the session of `upload_fw`, the network and the board together; implements `Install` | extends `Bootloader`, instance of `Install` |
| `BoardProofs` | the theorems of both: the flash and the scratch registers of a board; a board under an upload is a board of `Bootloader`; the upload implements `Install` | extends `Upload`, `TLAPS` |
| `RoutingTable` | the session of `set_routing_table`, the network and the device's table functions together | - |
| `RoutingTableProofs` | its theorems | extends `RoutingTable`, `TLAPS` |
| `CoreFlash` | core 0, core 1, the mailbox and the lockout | - |
| `CoreFlashProofs` | its theorems | extends `CoreFlash`, `TLAPS` |
| `HdUart` | boards on a half-duplex line: interface functions, interrupt handler, UART, wire | - |
| `HdUartProofs` | its theorems | extends `HdUart`, `WellFoundedInduction`, `TLAPS` |
| `Can` | one board on a CAN bus: `can2040`, its PIO machines, the `pqpf_can_if` functions, the bus and the other boards | - |
| `CanProofs` | its theorems: order, ring, wake-ups | extends `Can`, `WellFoundedInduction`, `TLAPS` |
| `CanReportProofs` | its theorems: each frame is reported that has to be, and no other | extends `CanProofs` |
| `Hub` | clients, sessions, take-over of an address, queues to and from the bridge, line framing | - |
| `HubProofs` | its theorems | extends `Hub`, `TLAPS` |
| `UsbBridge` | sender, line, receiver thread and ring of `pqp_usb_bridge.c` | - |
| `UsbBridgeProofs` | its theorems | extends `UsbBridge`, `TLAPS` |
| `MC*` | small instances for TLC | - |

### `Bootloader`

`mode` is what the processor executes. `"reset"` lasts until `pqp_init` has read
the scratch registers; `"erasing"` and `"cloning"` are the two calls of the
update in `bootloader.c` 60-63; `"idle"` is the main loop; `"handover"` is from
the jump of `pqpf_start_firmware` to the application's own `pqp_init`; `"app"` is
the main loop of the application. `op` is the local state of the flash function
being executed: one `FlashStep` is one iteration of its loop, so a power cut, a
watchdog reset or a hard fault can come between any two of them, and `PowerCut`
leaves a step half done (`CutShort`: any page it was changing may be torn, done or
untouched). `WatchdogReset` stands for a hang anywhere; `HardFault` for
`custom_hardfault_handler`, which the bootloader puts back before the jump.

A page is one value: blank, torn, or page *i* of an image. A checksum or
signature is therefore exact; that a CRC may collide is left out. Clone
headers are accepted when the whole image is there. `commands` and `mishaps` count
against the bounds `MaxCommands` and `MaxMishaps`. `running`, `asked` and `cause` are
history variables: no guard reads them.

### `Upload` and `Install`

`Upload` puts the tool in front of a board of `Bootloader`. `pc` is the question
the tool asks next or how it ended; `waiting` is `receive_data`. The loops in front
(ping, latch, wait for the bootloader, first checksum) repeat their request,
erase and write do not. Requests and replies are queues; any message may be
lost, and a time-out may fire although the answer is coming (`ReceiveTimeout`),
after which every later reply is one question late: replies are told apart
only by their length and a byte or two (`Good`). `known` is `fw_len` as far as
the code's comparisons see it; it is never initialised, so that after eight
failures `Decide` has it hold anything. Asked whether to erase, the user says yes or no, or stdin
is at its end, which fails the run (and excuses it). `Device` is LibPQP on the board passing
the packet to an action of `Bootloader`; `BoardFails` is its power cuts, hangs and
crashes. The tool may be run again on what the run before has left, with any
image and any switches.

A session is taken to last less than the hour after which a latched
bootloader goes on by itself, and a board to boot in less than the tool's
time-out. `offered`, `agreed`, `excused` and `feasible` are history variables.

`Install` is what somebody who runs the tool can rely on: the board has one of
the images it was asked to take, or none (`installed`); it loses it only after
an erase was agreed to; an image appears in one step; "done" is said only of
the image that is installed, which then stays until the next upload. The
refinement maps `installed` to the image the bootloader would start (`Installed`) and
`outcome` to `pc` (`Outcome`); all packets, repetitions, resets and pages are stutters.

### `RoutingTable`

The ground's session is a program counter (`pc`, the question being asked, or the
outcome), the packet number and whether it is being repeated. Requests and
replies are queues from which any message may be lost; a time-out that fires
although an answer is coming makes that answer late, and it is then taken for
the answer to the next question, as `gnd_app_base.c` only looks at its length and
first byte. The device handles a packet one entry at a time (`WriteEntry` is
`pqpf_write_routing_table`, split by the branch it takes); `Lookup` happens
between any two steps. A byte is the set of its one bits, so programming is
intersection, as it is in NOR flash.

### `CoreFlash`

Addresses wrap around like `uint32_t` (`Width`), and core 1 may ask for any address
and length. Each erase of a sector is a step with a start and an end, between
which the flash is busy; `locked` is core 1 being held in the SDK's lockout
handler. `GroundCommand` is the other user of the flash: `pqpf_firmware_erase_section` and
`pqpf_firmware_write` of the application, with any range that passes their checks
(`GroundAccepted`; a refused command changes nothing and is a stuttering step).
An erase takes a lockout for each sector, and for each asks anew whether core 1 has
announced itself; in between core 1 runs. The application's checks have no upper
bound: what a range behind the flash does to the chip is not in the repository, and
`InsideFlash` leaves such commands out. The commands that erase and write the
routing table do so on purpose, and are in `RoutingTable`.

### `HdUart`

The code exists twice, for each UART of the chip; the module is either of them,
on every board of the line (`Node`). `main` is where LibPQP is between
`send_data` and the answer of `send_status`; the two halves of `send_data`, the
busy check and the filling of the FIFO, are actions of their own, because
another board may do the same in between. `data`, `len`, `bytes`, `txPtr` and
`rxPtr` are the `uart_tx_` and `uart_rx_` variables. `Line` is one byte on the wire: it
shifts every transmitter and gives each receiver the byte of the one that sends,
or, of several, a byte with bits missing or a character with an error flag. A
byte is the set of its one bits. `ReceiveIrq` and `TransmitIrq` are the halves of
the handler; each empties or fills its FIFO whenever it comes. The receive
interrupt and its time-out are abstracted to "at any time after a byte is there".
Between the halves of `send_data` at most one byte of another board is heard,
which at 100 kbaud is a delay of more than ten thousand instructions. `before`,
`matched`, `shifted`, `alone`, `taken` and `silent` are history variables.

### `Can`

`cd` is the board's side: `struct can2040`, the PIO block it programs, and the
ring of `libpqp_foreign.c` above it. An operator on it is a function of the C
source (`Parsed`, `NoteCrcSuccess`, `LineMatched`, ...); each branch of
`can2040_pio_irq_handler` is an action (`IrqRxData`, ...), taken whenever its
line is raised and enabled. `bus` is the frame on the bus and the field it has
come to; the actions under `Field` move it on, and `Disturb` is a dominant bit
where none belongs. The receiving machine hands over ten bits at a time, so
that fields reach the parser late, and at the end of a frame only with the
bits of the next (`Put`, `held`); the match line, the acknowledgement and the idle
line do not lag. A header may end at any of the ten bits, and is handed over within the
first nine of the crc (`SendCheck`), so that in each alignment the handler has the
rest of the crc to ask for the acknowledgement, and may still be too late for it.
`FifoSize` says how late the handler may be without losing bits; `Overrun` is when it
is later still.

On a line that is quiet for 2^28 bits the counter of the sync machine runs over and
passive bits are received again (`CounterOverflow`); the last of 32 makes the parser
reset the PIO block (`QuietBits`, `LineQuiet`). A frame that begins between that bit
and the reset loses bits in it (`ResetAhead`), which counts as `overrun`.

LibPQP and the handler run on the same core, so a call of the interface is
cut into actions only where it leaves a state the handler can see (`Enqueue` and
`WakeUp`, `Fetch` and `Release`). A frame is known by whose it is and which; that
identifiers are unique is the rule of CAN, and `same` frames of other boards
break it. Bit stuffing, crc and the reserved-bit headers are left out: a field is good
or not. The two interfaces are copies of one another, and the map points to either.
`got`, `complete`, `delivered`, `withdrawn` and `overrun` are history variables.

### `Hub`

`phase` is where a session thread is: `"accepted"` between the registration of the
connection and the start of its thread, `"poll"` before and `"receive"` after
the part of the loop that takes a packet, `"leave"` behind the loop, `"gone"` when
its memory is freed. Each region under `server_mutex` is one action, together with
what the thread does on its own before the next. `Receive` takes any part of the bytes on their
way; the text of a line comes in two halves and a newline, and `Rest` is the
`memmove` behind a line with its stale byte (`part` 0). What a spoilt line is
taken for depends on the value of that byte (`Misread`). The uniqs of
connections are `uniq`; `reservations` and `rxFifos` name connections. Which
address the bridge serves first, and the lines that set priority, flags and time to
live, are left out: any address may be next. `done`, `heard` and `sent` are history variables.

### `UsbBridge`

The other end of the USB line is in LibPQP on the bridge board, so the hub's sender
is connected with its own receiver. `Frame` is `pqp_usb_bridge_process`: the crc
moved to the end, escapes, a newline. Each byte on the line knows the packet it
belongs to, which no code looks at; any of them may be lost. `Receive` is one
round of the receiver thread; `EndFrame` fills a slot and `MoveHead` publishes it,
with the main loop in between, which copies a slot (`AddPacket`) and frees it
(`PacketAdded`). Opening the device is left out, and the end of the thread, which
stops the hub (`Stop` of `Hub`). `sent` to `delivered` are history variables.

## What TLC checks

| run | bounds | shows |
|---|---|---|
| `bootloader` | 4 sectors of 2 pages, images of 3 and 4 pages, 2 commands, 2 mishaps | on five kinds of boards, under every interleaving of commands and mishaps: the running image stays intact, a complete clone survives its own update, latch and cause pass through the registers correctly, the header goes last, success is only reported for work that was done; and, left alone, the board runs its valid firmware and an accepted update ends up running |
| `clone_overlap` | an image of 5 pages, the clone area at page 4 | finding: the update destroys an accepted clone |
| `upload` | 2 sectors of 2 pages, images of 2 and 3 pages, 2 runs of the tool, 1 mishap of the board, 1 lost or late message, 3 latch requests, 2 pings, 2 first checksums | the session implements `Install`; a header lands only on a whole image; a run fails only for a reason |
| `routing_table` | 3 pages of 2 entries, 2 entries to a packet, 2 mishaps | "OK" is only said of the wanted table (or of an erased one, where there is nothing to send), one lost packet is survived, the session ends, the cache agrees with the flash, what was acknowledged is stored |
| `route_retry` | 1 mishap | finding: the retry after a lost acknowledgement fails when it crosses a page that was begun by an earlier packet |
| `core_flash` | 8 sectors of 2 pages, wrap-around at 18, 2 calls, 1 ground command, 1 reset | each request served exactly once under lockout, reserved areas changed neither by any range core 1 asks for nor by any inside the flash that the ground names, calls return |
| `hduart` | 2 boards, frames of 2 and 4 bytes, minimum length 3, transmit FIFO 2 and its level 0, receive FIFO 3, ring 3, 2 sends | a send that reports success was heard whole, an undisturbed one succeeds, an idle listener never joins bytes over a gap, `send_status` always comes to an answer |
| `can` | queue 2, ring 2, receive FIFO 5 fields, 3 events: fragments, frames of others, disturbances, overruns, restarts, overflows of the sync counter | what is reported as received is a frame a receiver has to accept, once and in order, and none is missed; the ring passes on what was reported; fragments are confirmed in order, none is left queued (but by a transmitter that a reset has halted), none is sent again after it was delivered or withdrawn |
| `can_acked` | queue 1 | finding: a fragment is confirmed that no board acknowledged |
| `hub` | 2 connections to one address, two lines each, queues of 1, 2 packets from the bridge, lines written one at a time | no queue is used after it is freed, the newest connection keeps the address, packets leave in order and never mixed over a take-over, every line is obeyed however it is cut up; sessions end when their client has hung up, or when they were taken over with a packet waiting |
| `hub_lines` | the same, 1 packet, lines written without waiting | finding: a line that arrives with the one before it is not obeyed |
| `usb_bridge` | 4 packets of 3 to 5 bytes, each with bytes to be escaped, 16 bytes on the line, 2 lost, ring 3 | the hub gets the packets in the ring each once, unchanged and in order; a lost byte costs its packet and the next one at most |

Why the bounds are enough. In `bootloader` the flash has an image that ends on a sector
boundary and one that does not, sectors in front of, in and behind the clone
area, and erases of one and of several sectors, so first, middle and last steps
all occur. Two commands allow a write or an erase and a reboot in one life, or two writes
that follow each other; boards delivered with a clone, whole or but for its header,
make up for the commands it takes to send one. Two
mishaps allow a fault during the recovery from a first one. In `upload` the longer
image needs a header, an inner block and a last one, the shorter one none
between, so that each branch of the write loop is taken; a second run finds what any
first run left, with the same image (resume) or the other; one late reply shifts
all later ones. Three table pages of
two entries with packets of two entries give packets inside a page, across two
pages, and ending on a page; two mishaps allow a late answer followed by a
loss. In `core_flash` every boundary of the memory map lies inside the range of
addresses, with a page of slack behind the firmware and two sectors behind that, so that
an erase of either core takes one step or two.
In `hduart` one frame is shorter than the minimum
length and one longer than the FIFO and its shift register, the ring and the
receive FIFO both overflow within one frame, and two sends collide, follow each
other, or cut into each other; the bytes differ in one bit or in two, and a frame end
occurs inside and around a frame. In `can` three events are what the longest chain
between interrupts takes: a frame of another board, a fragment queued during it, and a
disturbance, clash or restart; a ring of one usable place overflows with the second frame. A
receive FIFO of five fields lets the handler be late from the beginning of a frame to its
acknowledgement.
In `hub` a take-over needs two
connections to one address; a queue of one overflows with the second packet, and a
packet before and one after the take-over tell the clients apart; two lines are
what it takes to spoil one with the other. In `usb_bridge` two lost bytes reach a
newline, an escape, the byte behind one, or a header byte, in one packet or in two;
two packets fill the ring and a third is refused.

Deadlock is not checked: when the bounds on commands and mishaps are used up, a
board running its firmware, an ended session, two polling cores, a silent line,
an idle bus and a stopped hub have no further step, and that is how they should stop.

**Fairness.** `Bootloader`: weak fairness of the program's own steps; the main
loop waits for nothing and its time-outs are compared with a free-running
counter. Commands and mishaps are not fair. `RoutingTable`: weak fairness of the
ground and of the device, each a loop that polls; `ReceiveTimeout` is part of the
ground because `receive_data` counts milliseconds. Delivery of messages is not
fair: they may all be lost within the bound. `CoreFlash`: weak fairness of each
core; core 0 returns to the mailbox in every round of its loop. `Hub`: weak fairness of
the thread of each session, all of which poll; connecting, writing and hanging up are
not fair, nor is the bridge having a packet. `HdUart`: the weak fairness in its `Spec` says
that the line, the interrupts and the main loop go on; that a send is not left waiting is
the state invariant `SendNeverStuck`, which needs none. `Can`, `Upload` and `UsbBridge` state
safety only: that nothing is left queued, or that a run does not fail without a
reason, is said of states in which nothing more would happen. A can2040 board may
for ever lose arbitration, and a session depends on packets that may all be lost.

## What is proved

All theorems hold for every value of the constants that the named `ASSUME` of
the module allows: any number of pages, boards, connections, packets, commands and faults.
An invariant that a run checks is seldom inductive alone; each section names the
conjunction that is. There is one lemma per action, one that puts them together for
`[Next]_vars`, and `PTL` closes the temporal step.

In `BoardProofs`, of the board, from `FlashAssumption` and `BootloaderAssumption`:

- `TypeCorrect`: `Spec => []TypeOK`
- `RunningIntact`: `Spec => []RunningImageIntact`
- `SourceRetained`: `Spec => []UpdateSourceRetained`
- `HeaderErasedLast`: `Spec => EraseKeepsHeader`
- `SuccessIsHonest`: `Spec => ReplyHonest`

The first two follow from

    Safe == TypeOK /\ OpOK /\ RunningInv

`OpOK` says of the command under way which sectors and pages its remaining steps
will touch (each inside the flash; there is none in `"reset"` and `"handover"`).
`RunningInv` says that while the application runs, the image `running` is
complete at page 0 and every page that `op` will still change lies behind it.
The second half is what the application's guards on `pqpf_firmware_length`
establish when the command is accepted, and it has to be carried through all
its steps, because the guard is not evaluated again. The last three need a second
invariant beside it,

    Progress == DoneBy(op, flash) /\ SourceInv

`DoneBy` is a loop invariant: what a command has erased or copied so far, unless
one of its steps failed, is erased or copied. At the end of the loop it gives
`ReplyHonest`, and before the header is erased, `EraseKeepsHeader`. `SourceInv`
says that what an update may still change ends below the clone area, if the
sectors of the clone fit there; that premise is the one which the finding
`CloneAfterApp` shows to be missing in the code.

And of the scratch registers:

- `LatchOnce`: `Spec => []LatchObeyedOnce`
- `CauseKept`: `Spec => []CauseReported`

Both follow from `RegisterInv`, which says where the code and the cause are in
each mode: in the watchdog registers from the reset to `pqp_init`, in
`latched_code` and `boot_word` after it, and the cause in `scratch[0]` again
during the hand-over. It also says that the latch register is empty from
`pqp_init` on (so that a crash of the application leaves nothing to obey) and
that `scratch[0]` then holds "crash", which is what makes a hang reported as one.
The flash plays no part in it, and all steps that work on the flash alone are
one case, `QuietRegisters`.

Of the uploads, in the same module, from these and `UploadAssumption`:

- `BoardUnderUpload`: `UploadSpec => BoardObeyed`, that is, `Init /\ [][Next]_vars` of `Bootloader`
- `RunningIntactUnderUpload`, `LatchOnceUnderUpload`: the two invariants for a board under uploads

Every packet on its way is one that `Bootloader` has a command for (`SessionInv`: a
page of an image, to its place), so each step of session, network and board is
a step of the board or leaves it alone, and what was proved of the board carries over.

- `HeaderComesLast`: `UploadSpec /\ []NothingLeftOver => HeaderLast`
- `PromiseKept`: `UploadSpec /\ []NothingLeftOver => Installs`, the refinement of `Install`
- `HeaderLastOneLoss`, `PromiseKeptOneLoss`: the same for `MaxLosses <= 1`, from `UploadSpec` alone
- `FailsWithCause`: `ASSUME MaxLosses + 1 < LatchTries PROVE UploadSpec => []FailsForCause`

The first two are about a reply that says nothing of the request it answers. `UploadInv` has `Orderly`: the
request that changes the flash is the one the tool is at. It may be on its way, under
way on the board, or answered, but no other such request is anywhere, and while the tool writes, all pages behind it
are there (`Filled`). `HeaderInv` follows: a header on its way finds the whole image. `Consent`
has that what is offered or agreed to covers what may be installed. Every request of
that kind is sent once and a missing answer to it ends the run, so within a run it holds however many packets are lost or
late, and whatever faults the board has. Between runs it needs

    NothingLeftOver == pc = "latch" => Nowhere

no erase or write of an earlier run is still on its way or under way when the first ping of a
run has been answered. The tool does not check that: it takes any ping reply for the
answer. Late replies of earlier runs can make it go on early, and with enough of them (some twenty with
the code's numbers of tries, over two runs) an old erase can meet a new image, so that this is a hypothesis
and not a lemma. With one loss over all runs it is a lemma, `NeverLeftOver`: a queue that is
served in order holds at most one message more than were given up as lost, so that the ping that was answered is
behind everything older (`Sparse`).

`FailsWithCause` is by `GoodRun`: as long as a run is feasible and not excused, exactly one message is on its way or
being handled (`Timely`), the board is held by the latch code or the tool has enough tries left to
make it so (`Reached`), and what the flash holds keeps no page of the image from being written (`Planned`). One
latch request may meet the bootloader's own start of a firmware and one has to come through, hence the
hypothesis. It is exact: TLC finds the property violated with 2 latch requests and 1 loss. The code has
`LatchTries = 4`; the theorem speaks of up to 2 losses there.

In `RoutingTableProofs`, from `RoutingAssumption`:

- `TypeCorrect`: `Spec => []TypeOK`
- `NoStaleRoute`: `Spec => []CacheCoherent`
- `ClosedIsStored`: `Spec => []StoredWhenClosed`

by `Safe == TypeOK /\ Closed /\ CacheCoherent /\ StoredInv`. `Closed`: the closing entry
of every packet on its way is blank. `StoredInv`: as long as every write has succeeded, an entry of the page
being filled is in the shadow, or is blank there and unchanged in the table;
everywhere else the table is what was written. What the ground sends is the
*n*-th entry it wants, a `CHOOSE` on ranks; that there is one (`RankExists`)
is an argument on injections of finite sets.

- `OkIsHonest`: `Spec => []OkMeansSet`
- `OneLossIsSurvived`: `Spec => []OneLossSurvived`

The first needs what is in both queues at once. A reply does not say which question it answers,
but the tool gives up where a checksum fails to come, so that `AnswerInv` holds while it is asking: a
checksum on its way back is the last reply, is of the table as it is, and nothing is behind it that could
change the table; a question for one is the last request, and no checksum is in front of it. The second needs
`InStep`: as long as nothing went wrong but one lost packet, exactly one message is on
its way or being handled, and the device holds the first *n* entries of those sent
(`Holds`). Entries are sent in ascending order, so that a page is never returned
to and is blank when it is programmed (`WriteHolds`), and no write fails. `OneLossSurvived` excepts tables with an
interface 0 beside others (`Sendable`): these are compared whole and sent without the 0.

In `CoreFlashProofs`, from `CoreFlashAssumption`:

- `TypeCorrect`: `Spec => []TypeOK`
- `HeldWhileBusy`: `Spec => []RequestUnderLockout`
- `EachServedOnce`: `Spec => []ServedOnce`
- `ReservedKept`: `Spec => ReservedUntouched` (for the ground: of ranges that do not end behind the flash)

by `Safe == TypeOK /\ Held /\ JobOK /\ ServedInv`. `Held`: who is held by the lockout at each
point of core 0. `JobOK`: a request that was accepted lies in the flash, reaches no
reserved page, and did not wrap around; the guards of the two cores, those for the ground's
commands included, establish it for every
width of a word. `ServedInv` counts, for each page, how often the request in the
mailbox has been served so far.

In `HdUartProofs`, from `HdUartAssumption`:

- `NeverStuck`: `Spec => []SendNeverStuck`
- `TypesKept`: `Spec => []TypeOK`
- `SuccessHeard`: `Spec => []SuccessWasHeard` (of sends whose comparison is in step: not `shifted`)
- `AloneSucceeds`: `Spec => []UndisturbedSucceeds`
- `NeverSpliced`: `Spec => []NothingSpliced` (of boards that have never sent)

The first by `FeedInv`: as long as bytes of a frame are left for the interrupt, the FIFO is above
its level or the interrupt is raised, and it is enabled. `MinLength >= TxLevel + 3` is what
makes it true when a frame starts; the mutant of the run drops the padding.
The others are about the receive interrupt, which handles all that its FIFO holds in one
loop. The loop is a recursive function of the number of bytes handled, and what holds
behind *i* bytes is shown by induction over *i*: the library's induction theorems take an
operator and cannot be used, but that a set of naturals with a member has a
least one can, and `CountUp` turns it into the induction over a set that the loops need. What is carried
through the loop: how much of the echo has been compared and agreed with, what has
been stored since the last gap, and that both continue with what the FIFO still holds.

In `CanProofs`, from `CanAssumption`:

- `TypesKept`: `Spec => []TypeOK`
- `InOrder`: `Spec => []ConfirmedInOrder`
- `HeardInSequence`: what is reported as received are frames of other boards, each once and in order, also
  where bits are lost
- `RingInOrder`: `Spec => []RingFaithful`
- `OnlyWhatWasHeard`: what LibPQP takes from the ring was reported
- `WithdrawnForGood`: a fragment that a restart withdrew is not put on the bus again
- `NothingForgotten`: `Spec => []NothingLeftQueued`

The driver is a chain of C functions that each change a few fields of `struct can2040`, so the proof starts
with a lemma for each: which fields it changes (`Only`), and how. Then an invariant in four layers.
`Base` does not know the bus: the queue is in order, nothing withdrawn is queued or loaded, and what is to be
reported, the transmit state and the lines that are enabled agree (`Duties`). In particular no line but
`MAYTX` can make the transmitter give up a frame while a header is received; `InOrder` depends on it,
as `tx_cb` is called for whatever is at the head of the queue. `FlowOK` is about the fields between the bus
and the parser (`Pipe`): the headers of other boards that are still in it come behind everything reported, in
the order they were sent, and a header of this board always meets a parser that will take it for
what it is, because the fragment it carries is still the one that is queued first, or meets one that is waiting
for a new frame anyway (`Recognised`, `Loaded`). That needs to know how late the parser may be when each line is served:
the receive FIFO is always emptied first. `RingOK` says of the ring that what lies between tail and head
is reported, in order, and behind all that was taken. The loop that empties the FIFO
is again handled by `CountUp` (`LoopRuns`).

`NothingForgotten` rests on the fourth, `WakeOK`, which holds as long as no bits are lost. The handler may stop
watching `TXPENDING` only when something else is sure to bring it back, and what that is depends on
where in a frame the parser will be when it gets there. So `WakeOK` has the grammar of a frame: which
field may follow which on the bus and in the FIFO, and in which state the parser is in front of each (`Grammar`,
`Fits`); that it has caught up when the bus is free (`Rests`, `Cleared`); that a fragment the transmitter sends or has sent
still has its header in front of the parser, which will then take it for its own (`Headed`); and with these, that a line is
enabled that will be raised, or the transmitter is halted (`Watched`), that `TXPENDING` is raised for a queue that is not empty, unless
LibPQP is between its push and its wake-up, and `MAYTX` on an idle line (`Woken`). It is carried through the loop over the FIFO
(`LoopReads`, `LoopWakes`), which may end in the reset of a quiet line, always the last thing received
(`QuietLast`), and through each interrupt line in the order the handler serves them.

In `CanReportProofs`, from the same:

- `EveryFrameHeard`: `Spec => []NothingMissed`
- `SentOnce`: `Spec => NeverSentAgain`, which adds to `WithdrawnForGood` that a fragment that was delivered is not
  put on the bus again either, unless bits were lost
- `NothingInvented`: `Spec => []ReceivedOnce`

The first two rest on a fifth layer, `TrackOK`. What has to be reported (`Owed`) is every frame that
all receivers accepted or that the board itself has delivered, and the one on the bus as long as it runs on
undisturbed behind its header; but no frame with this board's own identifier, nor, once it has restarted, one of another board. Each of them is pursued or over (`Pursues`): either the parser is in it, with what is
on its way intact up to the field at which the parser will accept it, or its header is still on its way and will
meet a parser that waits for one, with what is behind the header intact; or it has been reported
(`Over`). A frame whose fields are good so far is either still on the bus, or the end that a receiver accepts follows, be it with
a disturbance so late that it no longer minds (`Intact`). With the line idle nothing is on
its way and the parser is in no frame, so that only being over is left. The rest of `TrackOK` is what a step needs to
know to keep that: the numbers of frames already used and that the one on the bus is new (`Numbers`, `Fresh`), that
the transmitter is never loaded with what was delivered or is about to be (`Reload`), that a crc or
an acknowledgement does not stay in the shift register until the bus is free (`Held`), and that a board that never
restarted and lost no bits is in step with the bus (`Alive`).

`NothingInvented` rests on the sixth, `TruthOK`, which turns the question round: of a frame of another board that the
parser is in, or is going to take, what is on its way holds no field that the parser accepts and another receiver
does not, up to the one at which it is accepted by all or discarded by the parser (`Sound`, `Honest`). The parser is not
alone in reporting: the match machine raises `MATCHED` on its own, so that what it was told to watch
must be about the frame the parser is in, and about the end of it (`Reply`): `ACKDONE` and `MATCHED` are
never enabled together, the key is that of the frame received, and the acknowledgement is driven only behind the
crc of that frame (`Behind`). Two facts of the bus complete it: a frame without a disturbance so far at its last bits is
in `complete` (`Taken`), and a frame whose beginning was not received cannot be met by a parser waiting for a
header or be the one it is in (`Botched`, `Torn`).

In `HubProofs`, from `HubAssumption`:

- `TypeCorrect`: `Spec => []TypeOK`
- `NoFreedQueue`: `Spec => []QueueOfALiveSession`
- `OwnerKept`: `Spec => []OwnerKeepsAddress`
- `TakeOver`: `Spec => []TakeOverIsFinal`
- `LinesAreObeyed`: `ASSUME Paced PROVE Spec => []LinesObeyed`

The second and third follow from `Owned`, which adds to them that the queue of an address is that
of its reservation, that a reservation is to its own address, and that a
connection being accepted is the last one: without that, a thread that cannot be
created would take the address from a later connection. Only `Accept`, `NoThread` and
`Leave` touch the pointers; all other session steps are instances of `Moves`.
`TakeOver` needs

    Ordered == Owned /\ LineType /\ QueueType /\ Numbered /\ FromObeyed /\ InOrder

the numbers of connections grow, the owner of an address has the greatest of
those to it, and nothing queued has a line its client has not reached, so that a new
packet is behind all others.

`LinesAreObeyed` is by `LineInv`: of a client that leaves the time for each line, the session has obeyed
all lines and nothing is on its way, or all but the last, of which it has the first *m* bytes and the others are
coming. Nothing in the protocol makes a client wait, and the hypothesis is needed:
without it the property fails (`hub_lines`).

In `UsbBridgeProofs`, from `UsbBridgeAssumption`:

- `TypeCorrect`: `Spec => []TypeOK`, of which the part that matters is that `rxbuf` is not overrun
- `RingKept`: `Spec => []RingInOrder`
- `LossForgotten`: `Spec => []Resynchronises`

The second by `RingInv`, which counts packets instead of slots: head and tail are the numbers
of packets published and delivered, modulo the size of the ring, and differ
by less than that size. The third by an account of the frame being read, byte for byte: after a newline
that was not lost, what `rxbuf` holds is what the sender has framed so far, for every packet.

Only model-checked: every liveness property, as the prover knows no ENABLED; and `Installs` and
`HeaderLast` for several losses over several runs, where `NothingLeftOver` need not hold. Every invariant that a
passing run checks is stated by a theorem, `LinesObeyed` and `FailsForCause` under the hypotheses given above.

## Findings

- `CloneAfterApp`: the comment "must be after the app" (`libpqp_foreign.c:191`) is
  not what is checked; an image longer than the space below the clone area is
  accepted, erased by its own update, and lost together with the old firmware.
- `RetryRecovers`: `set_routing_table.c:342` retries a packet, but a packet with
  entries of two pages whose acknowledgement was lost cannot be written twice when the
  first of the two pages also holds entries of an earlier packet: the shadow page begins
  empty at the retry, and programming it over the page that is there does not verify.
- `LinesObeyed` with clients that do not wait: the hub keeps a stale byte behind the
  rest of what it has read and never searches that rest for a newline
  (`pqp_hub.c` 435 and 660), so a `send=` that arrives together with the `port=` before
  it is lost, and spoils the next line.
- `ConfirmedWasAcked`: `can2040.c:857` says that a match means an acknowledgement and an
  end of frame. The match of a received frame that came while a fragment was being
  loaded leaves its flag standing, and it is taken for the fragment's own: a
  fragment that nobody acknowledged is reported transmitted and dropped.

Also noticed, without a run of its own:

- `pqphws_core1_flash_write` returns 0, which `libpqp_hws.h:31` calls success, also for pages
  that could not take the data; nothing reads them back.
- The comment at `libpqp_foreign.c:1440` promises `true` during traffic and for 1 ms after
  it; the function samples the line and keeps no time.
- `pqp_usb_bridge.h:28` has -1 for "try later"; `hub_raw_add_packet` returns 0 when
  its queue is full, and its answer is not looked at: the packet is dropped.
- `gnd_app_base.c:79` says that a negative time-out waits for ever; lines 107-111 return
  -1 at once.
- `upload_fw.c:16` offers `-e` as "erase anyway"; a board without a header refuses the
  erase of its firmware, so that after an interrupted upload another image needs `-e -a`.
  (The same image can be resumed.)
- One late reply shifts all later replies of an upload by one, and it fails at its
  last check although everything may be there.
- An interface 0 in the `.csv` is accepted and compared but never sent: beside other
  routes, the session ends with a checksum mismatch (`Sendable`).
- `core1_i2c_deinit_request` is set and never cleared (`libpqp_foreign.c` 2515-2535).
- In `can2040`, `pio_tx_setup` does not flush the transmitter's FIFO: after a reset of the
  parser under a loaded fragment (929-933) nothing is sent until another board's frame, or until
  LibPQP clears the queue. The reset of a line that was quiet for 2^28 bits (972-978) does
  that to a fragment queued just before it, although no bits were lost. `NothingLeftQueued` therefore
  speaks of boards that lost no bits and excepts the halted transmitter (`Halted`); in the
  same way `NeverSentAgain` excepts a fragment delivered while bits were lost, which is sent twice.
  The lost flags of the receive ring are set and never read.

## What is not modelled

- LibPQP (a submodule whose directory is empty) appears as the set of calls it
  can make, in any order; its handlers of routing table packets and of the
  reboot request are external definitions.
- The I2C interface. It is compiled out by default (`pqp_defines.h` 35 and 38),
  and what its handlers do depends on the order in which the DW_apb_i2c raises
  TX_EMPTY, TX_ABRT and STOP_DET and flushes its FIFO, which nothing in the
  repository describes. A model would be of a guess.
- The small tools: one request, one reply, and formatting. The commands they send
  are actions of `Bootloader`.
- Most of `gnd_app_base.c`: connecting, and the requests no modelled session sends.
- The legacy latch in `libpqp_foreign.c` 141-145 (a single magic value).
- Destinations of 0xFF in the `.csv` parser, which index behind the array.
- A direct write of the routing table's pages by `pqpf_firmware_write`, which nothing in
  the repository sends, and ranges behind the end of the flash.
- Core 1 between its launch and `multicore_lockout_victim_init` while the ground
  erases: the model reaches that state, the properties do not speak of it.
- Reading and checking the `.bin` file in `upload_fw`.
- In the hub, lines that set priority, flags and time to live, the order of addresses by
  priority, and clients that do not read what they are sent.
- Initialising or shutting an HD-UART down while its line is in use.
- In `can2040`, bit stuffing, crc arithmetic, frames with reserved bits, statistics.

## What is left

1. `NothingLeftOver` from a bound on the losses of two successive runs, in place of a bound on all.
2. A larger instance of `Can` with several frames queued behind each other.
