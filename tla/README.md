# Verification of the CH32V208 USB mux host library

The repository is a host-side driver for a USB multiplexer built on a CH32V208
microcontroller. One USB interface carries system commands, four UART ports and a BLE
central, all as frames of at most 512 bytes over one bulk OUT and one bulk IN endpoint,
with an interrupt endpoint for hints. The library is C on top of libusb; a command line
tool sits on top of the library. The firmware is not part of the repository.

This directory holds TLA+ modules that model the library, TLC configurations that check
them on small instances, and TLAPS proofs of the properties that matter most. Paths below
are relative to `src/userspace/`.

## 1. The system

```
  ch32v208-mux-cli ──calls──▶ uart.c / ble.c ──▶ proto.c   build, decode
                                   │
                                   └──────────▶ device.c ──libusb──▶ EP3 OUT  ─▶ ┐
                                                  │      ◀────────── EP2 IN   ◀─ ├ device
                                                  └─ read_hint ◀──── EP1 IN   ◀─ ┘
```

| component | state it keeps | operations | module |
|---|---|---|---|
| Frame codec, `src/proto.c` | none: pure functions on bytes | encode, decode, build a frame; CRC-16; parse a hint | `MuxCodec` (checks and lengths), `MuxWire` (bits) |
| Frame transport, `src/device.c` | locals of a call: bytes sent or received, bytes wanted | `ch32mux_write_frame`, `ch32mux_read_frame` | `MuxTransact` (packets), `MuxReceive` (bytes) |
| Sequence numbers, `src/device.c` | `next_seq`, 16 bits | `ch32mux_next_seq`, reset by `ch32mux_open` | `MuxTransact` |
| SYS and UART calls, `src/uart.c` | none | `transact` and its seven wrappers, `uart_write`, `uart_read` | `MuxApi`, `MuxTransact` |
| BLE calls, `src/ble.c` | none | `transact` and its four wrappers, `ble_read_event`, `ble_parse_scan_result` | `MuxApi`, `MuxTransact`; scan reports: `MuxWire` |
| Device sessions, `src/device.c` | libusb context and handle, `claimed`, `detached_kernel_driver` | `ch32mux_open`, `ch32mux_close` | `MuxSession`; what it means for numbers and pipes: `MuxTransact` |
| Asynchronous hints, `src/device.c`, `src/proto.c` | none | `ch32mux_read_hint` | `MuxWire` |
| Raw transfers, `src/device.c` | none | `ch32mux_debug_bulk_transfer` | `MuxCli` |
| Command line tool, `tools/ch32v208-mux-cli.c` | which port or scan a command has started | probe, heartbeat, uart-cap, uart-open, uart-close, uart-loopback, ble-scan, debug-xfer | `MuxCli` |

There are no threads and no callbacks: a call runs to its end before the next one starts,
and libusb lets one process at a time claim the interface. What makes the system hard is
on the other side of the cable:

* **The device runs on.** Between any two transfers of a call it takes requests, queues
  answers, and queues UART data and BLE events nobody asked for, all on the one IN
  endpoint.
* **Calls give up, frames do not.** A transfer may time out before, between or after the
  packets of a frame. The library neither retries nor drains: the request may have been
  carried out, the answer or its rest stays in the pipe, and the next call reads it first.
* **Requests and answers are paired by a 16-bit number** that wraps and starts again from
  1 in every session, while the device may keep answers of the session before.
* **Lengths come from the wire**, are compared in 16 bits, and decide how many bytes are
  received and copied.
* **Opening takes five steps**, each of which may fail, on resources shared with the
  kernel driver and other processes.
* **The tool is a new process each time**, on a device that remembers what the last one
  left in the pipes, which ports are open and whether it is scanning.

What each component has to guarantee:

* *codec, transport*: no byte received or copied outside a buffer, whatever the header
  says and however USB cuts the bytes; a frame the codec built is understood; two frames
  are never joined; a damaged header is refused; a call ends.
* *numbers, calls*: an answer accepted by a command is the answer to that command; a
  command that returns `CH32MUX_OK` was carried out; an idle line never makes a command
  fail the match; what a leftover packet does to the next call is known.
* *sessions*: every resource acquired is given back, in order, on every path; the kernel
  driver is attached again by the process that detached it.
* *tool*: what a command started on the device it stops before it exits; exit code 0 means
  that it was done; every command ends.

The hazards this leads to, each with its line and the properties about it, are in
`PROJECT.json` under `hazards`.

## 2. Modules

| module | what it is |
|---|---|
| `MuxApi` | constants of `proto.h` and the table of library calls |
| `MuxTransact` | host and device, packet by packet: the core |
| `MCTransact` | instances of it for TLC |
| `MuxTransactProofs` | types; an accepted answer is the right one; what was reported as done is done; what a leftover packet does; frames are not joined; a quiet line matches |
| `RemoteCall` | abstract: what a client is promised |
| `RemoteCallProofs` | that the promise is worth something |
| `MuxRefinement` | the mapping from `MuxTransact` to `RemoteCall` |
| `MuxRefinementProofs` | `MuxTransact` implements `RemoteCall` |
| `MuxCli`, `MCCli` | the command line tool, composed with `MuxTransact` |
| `MuxCliProofs` | exit codes, and what a command stops before it ends |
| `MuxRunProofs` | what runs make of what earlier runs left behind |
| `MuxWire`, `MCWire` | bytes, bits, checksum, and damage |
| `MuxWireProofs` | encoding and decoding undo each other; the checksum is CRC16-CCITT; the damage it finds |
| `MuxCodec` | the header, its checks, and 16-bit lengths |
| `MuxReceive` | one `ch32mux_read_frame` and its caller, byte by byte |
| `MCReceive` | instances of it for TLC |
| `MuxReceiveProofs` | buffers, lengths and well-formed frames |
| `MuxSession` | `ch32mux_open` and `ch32mux_close` by several processes |
| `MCSession` | instances of it for TLC |
| `MuxSessionProofs` | exclusion, leaks, and the kernel driver |

### MuxApi and MuxTransact

Every public function of `uart.c` and `ble.c` that talks to the device fixes a channel, an
opcode, a payload length and a response buffer and hands them to `transact`, or to
`ch32mux_write_frame` or `ch32mux_read_frame`. A call is therefore a record, and the
wrappers are operators of `MuxApi` with those values. The `transact` of `ble.c` is that of
`uart.c` with channel BLE and id 0.

State: `next_seq` is the field of the struct; `pc`, `call`, `seq` and `rx` are the locals
of the call in progress (`rx` is `read_frame`'s buffer: how many bytes, which packet came
first, and whether the packets followed each other); `ret` is what the last call returned,
with the frame it returned it for. `outPipe` holds requests the device has not looked at,
`inPipe` the packets it has to send. `issued`, `epoch` and `line` are history: no guard of
a host action reads them but for the bounds.

| action | code |
|---|---|
| `RejectArguments`, `StartRequest` | the checks, `ch32mux_next_seq` and `ch32mux_build_frame` at the start of `transact` and `ch32mux_uart_write` |
| `StartRead` | `ch32mux_uart_read`, `ch32mux_ble_read_event` |
| `WriteFrame`, `WriteFails` | `ch32mux_write_frame` |
| `ReadPacket` | one turn of the loop of `ch32mux_read_frame`, and with the last packet the second decode, the match (`Matches`), and the copy (`TakeResponse`, `TakeData`, `TakeEvent`) |
| `ReadFails`, `NoDevice` | a transfer that fails, in either direction |
| `Reopen` | what close and open mean for numbers and pipes |
| `DeviceExecutes`, `DeviceRefuses`, `DeviceDiscards`, `DeviceSpeaks`, `Unplug` | the device and the bus (external) |

The write is one step: libusb cuts the frame into packets, and what the device has of it
when a write fails is chosen freely: nothing, its beginning, or all of it. The device
looks at the beginning of a frame only to drop it, with or without the frame that follows
(`DeviceDiscards` may drop anything). It answers at most once, in order. It never answers
a request it was not sent. That is all that is assumed of it; it may be silent for ever.

One assumption concerns bytes: a packet decodes as a header exactly when it is the first
of its frame (`Decodes`). The middle of a frame does not carry the magic number and a
right checksum by chance. `MuxReceive` makes no such assumption.

### RemoteCall and MuxRefinement

`RemoteCall` says what a client may expect, with no word of frames, packets or numbers
that wrap: a command is carried out at most once and after those sent before it; a call
returns "ok" only if the device has carried out this very command, and "refused" only if
it has refused it; a call may fail at any time, and its command may still be carried out
afterwards; an answer too late for its call has no effect. `Promise` is what a client
concludes. It is a specification and translates no code.

`MuxRefinement` maps the state of `MuxTransact` to it. A command is pending as long as its
whole frame lies in `outPipe` (`CommandsPending`); an answer is known from the moment its
first packet is queued until that packet is gone (`AnswersSeen`); a read that fails, a
frame that does not match, a packet thrown away are answers that fade. Data and events,
and the calls that only read, are stutters. The mapping holds in one session and less than
a round of numbers (`OneRound`): beyond that `AnswersCoincide` is the most that can be
said, since an answer of an earlier session or round may be accepted.

### MuxCli

`MuxCli` EXTENDS `MuxTransact`: the tool's eight commands are programs of library calls.
`step` is the place in the command's function, `CallOf` the call made there, and what the
call returned decides the next step or the exit code (`Decide`). `NextStep` and
`LastSteps` are the straight-line commands; `Loopback…` and `Scan…` are the two loops of
`cmd_uart_loopback` and `cmd_ble_scan`; `DebugRead` and `DebugEnds` are `debug-xfer`,
which builds its request and reads its answer with raw transfers. `Start` is `main()`: the
device is opened before the arguments are looked at. `Kill` ends the process between two
calls; ended within one, it leaves the device and the pipes as a call whose transfer fails
does, after which `Kill` is possible.

The device gains what these commands need: a scan that is on or off, and a port that hands
back what it is sent, whole, in two pieces, or not at all (`PortLoops`, `PortSends`,
`PortDrops`), among other data. A process that cannot open the device at all is the
subject of `MuxSession`. Texts that are only printed are left out; the text of
uart-loopback is its length and where in it a piece belongs (`PlaceOf`).

### MuxWire

The other half of the codec: where each field lies, low byte first, and the checksum turn
by turn. A number is the set of its bits, so exclusive or is a symmetric difference.
`Codec` is `MuxCodec` with this checksum, and `CodecAgrees` says that decoding the bytes
and decoding `MuxCodec`'s records decide alike. The wire turns bits of a header (`Turn`)
or brings fewer bytes than were sent (`Shorten`), for headers, hints (`ch32mux_read_hint`)
and scan reports.

### MuxCodec and MuxReceive

`MuxCodec` has the header as a record, the seven checks of `ch32mux_decode_header` in
their order, and `uint16_t` arithmetic wherever the code has it. The fields the codec only
carries are one value. The checksum is a parameter: the properties hold for any function
of the header. Byte order is one-to-one and left out.

`MuxReceive` runs one `ch32mux_read_frame` on any header of a set `Wires`, a frame buffer
of any size, and transfers of any number of bytes up to `Room`, and then the second decode
and the copy that `transact`, `ch32mux_uart_read` and `ch32mux_ble_read_event` have in
common. Between the two the caller may refuse the frame, for its channel, type, number or
status or for want of a buffer (`stage` is then `"caller"` or unchanged): the fields this
depends on are the ones the codec only carries, so the model leaves the choice open;
`MuxTransact` makes it. `offset` and `target_len` are the locals of the same name.

### MuxSession

One function per field of `struct ch32mux_device` (`ctx`, `handle`, `claimed`,
`detached`), indexed by process, and `pc` for the libusb call that comes next. Each libusb
call of `ch32mux_open` (`FindDevice`, `QueryDriver`, `DetachDriver`, `ClaimInterface`) and
of `ch32mux_close` (`ReleaseInterface`, `AttachDriver`, `DropHandle`) is one action,
because another process may come between any two. An error goes where the code goes: into
`ch32mux_close` (`Fail`), or, before there is a context, straight out (`OpenStart`).

The kernel is external: `bus` is the plugging-in of the device now present, so that a
handle can be stale; `driver` and `owner` are the two ways the interface can be taken.
`Crash` closes the process's file descriptor, which ends its claim and does not bind the
driver again; no command of the tool catches SIGINT, so Ctrl-C is a crash.
`ch32mux_close` looks at no result. If the release fails, the process keeps its claim
until its handle is closed, the attach that follows is refused because of it, and the
driver is lost, which counts as a mishap.

`rival` and `mishaps` are history. `MuxTransact` and `MuxSession` are composed through
`Exclusive`: since one process at a time has the interface, `MuxTransact` has one host,
and its `Reopen` stands for the close of one session and the open of the next, whoever
does it.


## 3. Runs

| run | bounds | what it shows |
|---|---|---|
| `commands` | two numbers, four requests, no unsolicited frames | `AnswerIsOwn`, `OkMeansDone`, `TypeOK`: opens, closes and queries that fail half way and are answered late |
| `sessions` | two numbers, three requests in each of two sessions, data of two packets | `AnswersCoincide`: how far the numbers protect across sessions and rounds; `CallReturns`: with a timeout every call returns |
| `mixed` | three numbers, three requests; events, data, frames of two packets, empty packets | `QuietLineMatches`, `BacklogFails`, `NeverSpliced`: one endpoint for everything; `KeepsItsPromise`: the refinement of `RemoteCall` |
| `blocking` | two requests, `timeout_ms` 0 | `ReturnsOrSilence`: without a timeout a call that hangs waits for a silent device |
| `receive` | 9 payload lengths × 6 totals with right checksums, bent headers; 5 frame buffers, 4 response buffers | `BufferInBounds`, `CopyInBounds`, `WrapIsRefused`, `BuiltIsUnderstood`, `Returns`, `TypeOK` |
| `bad_crc_test` | the frame of `tests/test_proto.c:53` | a divergence, see section 6 |
| `contention` | three processes, both values of `detach_kernel_driver`, two pluggings-in, crashes | `Exclusive`, `OneDebtor`, `DriverOwed`, `ErrorHasReason`, `TypeOK`: races for the interface and the driver |
| `faults` | two processes, every libusb call of open and close that returns a result may fail, the release of an interface included | `NothingLeaks`, `DriverOwed`, `DriverReturns`: what is given back, and why the driver may be missing |
| `loopback` | three runs of `uart-loopback`, a text of four bytes, other data of two | `LoopbackIsPaid`, `LoopbackCloses`: success only for a text that came back; the port is closed |
| `tool` | two runs of any of the eight commands, four calls each; reports of one and two packets, texts of 0, 4 and 489 bytes | `ExitZeroIsDone`, `BehindStaysBehind`, `ScanStops`, `BusyScanFails`, `CliTypeOK` |
| `toolends` | one run of `probe`, `uart-loopback`, `ble-scan` or `debug-xfer`, frames without data | `CommandEnds` |
| `wire` | two headers; two bits turned anywhere, or any bits within six of each other; every shorter length | `DamageIsRefused`, `WholeIsUnderstood`, `CrcIsCcitt`, `CodecAgrees`, `OnlyReceivedBytes` |

**Why the bounds suffice.** The counter is bounded by `SeqMax` instead of 65535; with two
numbers and four requests it goes round twice, so a late answer meets its own number
again. Three processes let a third one claim between one's detach and another's attach;
two pluggings-in make a handle stale. `OutCap` and `InCap` of 2 let a late answer, or a
request cut short, stand before the one that counts; `InCap` 4 holds two frames of two
packets. The lengths of `receive` are the edges of the code: empty, one packet less one,
exactly, plus one, the longest frame and one more, the first and the last length whose sum
wraps. A run of the tool draws at most four numbers, so `MaxIssued` never ends one early;
two runs are enough for one process to leave something to the next, three let
`uart-loopback` read the text of the run before last. A `ble-scan` gets to its loop on
stale answers alone only as the fourth run; for that `BehindStaysBehind` has its proof. What the
checksum finds does not depend on the header (`CrcAddsSyndrome`): two headers that differ
in every kind of field stand for all.

**Mutants.** Every property of a passing run has a mutant, a definition marked `mutant`
beside the one it stands in for (a counter that sticks or comes back to 0, a match without
the number or with the wrong one, a receive that does not check its room, a loopback that
does not compare, a scan that is not stopped after a failed read), under which the run's
own configuration finds the property violated.

**Fairness.** `FairSpec` of `MuxTransact` has weak fairness of the steps of a call in
progress: libusb returns from a transfer with the data, with the news that the device is
gone, or, only if `timeout_ms` is not 0, with a timeout. Nothing is assumed of the device.
`FairSpec` of `MuxReceive` says the same of its one call. `FairSpec` of `MuxSession` has
each libusb call of open and close return, and a process that has opened close, as each
command of the tool does on every path; nobody has to open. `CliFairSpec` has the process
run, its transfers end (by a timeout if need be), and the clock of `ble-scan` go on.

`CHECK_DEADLOCK FALSE` is set where a single call is modelled, which ends, where all runs
of the tool are over and the device is at rest, and where no more bits are turned.

**What the runs of the tool say about the design.** One answer that comes late keeps every
later command one behind, across processes, until the device loses a request or its pipes
are emptied: each reads its predecessor's answer and leaves its own
(`BehindStaysBehind`). As a rule it fails on it; but every process counts from 1, so where
command and number coincide, as for two runs of `uart-open` one after the other, it takes
the old answer for its own and exits with 0. `BehindStaysBehind` and `ExitZeroIsDone`
therefore speak of runs that end on an own answer (`EndedWell`), and say nothing of what
such a 0 is worth. `ble-scan` ends with an error whenever a report is queued as it
writes the stop, although the scan is stopped (`BusyScanFails`). `uart-loopback` with an
empty text reports success without anything looped. `debug-xfer` exits with 0 whatever
becomes of the second transfer, and whoever the frame it printed was for; `ExitZeroIsDone`
leaves it out for that reason.

## 4. Proofs

All theorems hold for every value of the constants that satisfies the `ASSUME` of the
module: any range of numbers, any set of calls, any payload lengths, pipes of any depth.
tlapm checks every leaf.

| module | theorem | property |
|---|---|---|
| `MuxTransactProofs` | `TypeCorrect` | `TypeOK` |
| `MuxTransactProofs` | `AnswersAreOwn` | `AnswerIsOwn` |
| `MuxTransactProofs` | `OnlyAWholeRoundConfuses` | `AnswersCoincide` |
| `MuxTransactProofs` | `OkIsDone` | `OkMeansDone` |
| `MuxTransactProofs` | `BacklogBlocks` | `BacklogFails` |
| `MuxTransactProofs` | `FramesAreWhole` | `NeverSpliced` |
| `MuxTransactProofs` | `QuietLineAnswers` | `QuietLineMatches` |
| `MuxRefinementProofs` | `PromiseKept` | `KeepsItsPromise` |
| `RemoteCallProofs` | `PromiseHolds` | `Promise` of `RemoteCall` |
| `MuxCliProofs` | `ExitZero` | `ExitZeroIsDone` |
| `MuxCliProofs` | `BusyScans` | `BusyScanFails` |
| `MuxCliProofs` | `LoopbackClosesPort` | `LoopbackCloses` |
| `MuxCliProofs` | `ScanIsStopped` | `ScanStops` |
| `MuxRunProofs` | `CliTypes` | `CliTypeOK` |
| `MuxRunProofs` | `LoopbackIsReal` | `LoopbackIsPaid`, under `OtherData` |
| `MuxRunProofs` | `LateRunsFail` | `BehindStaysBehind`, under `ShortAnswers` |
| `MuxWireProofs` | `DamageIsRefusedAlways` | `DamageIsRefused` |
| `MuxWireProofs` | `WholeIsUnderstoodAlways` | `WholeIsUnderstood` |
| `MuxWireProofs` | `CrcIsCcittAlways` | `CrcIsCcitt`; for every message: `CrcIsRemainder` |
| `MuxWireProofs` | `CodecAgreesAlways` | `CodecAgrees` |
| `MuxWireProofs` | `OnlyReceivedBytesAlways` | `OnlyReceivedBytes` |
| `MuxReceiveProofs` | `TypeCorrect` | `TypeOK` |
| `MuxReceiveProofs` | `ReceivesInBounds` | `BufferInBounds` |
| `MuxReceiveProofs` | `CopiesInBounds` | `CopyInBounds` |
| `MuxReceiveProofs` | `WrapsAreRefused` | `WrapIsRefused` |
| `MuxReceiveProofs` | `BuiltAreUnderstood` | `BuiltIsUnderstood` |
| `MuxSessionProofs` | `TypeCorrect` | `TypeOK` |
| `MuxSessionProofs` | `NothingIsLeaked` | `NothingLeaks` |
| `MuxSessionProofs` | `SessionsAreExclusive` | `Exclusive` |
| `MuxSessionProofs` | `AtMostOneDebtor` | `OneDebtor` |
| `MuxSessionProofs` | `DriverIsAccountedFor` | `DriverOwed` |
| `MuxSessionProofs` | `ErrorsHaveReasons` | `ErrorHasReason` |

**Types.** `TypeOK` of `MuxTransact` is not inductive alone: the request is built from
`call`, which must be a real call while it is being made. `TypeInv` adds `CallOK`.

**Answers.** `AnswersCoincide` speaks of what was returned, so the invariant has to follow
a number from where it is drawn to where it is compared, through everything that may still
be in the pipes from calls long given up. `NumberInv`: `next_seq` and `seq` are the
numbers that belong to `issued`. `PipeInv`: every request and every answer in a pipe, and
the packet `read_frame` started with, bears the number that belongs to its `id`, and a
frame of this session has an `id` no larger than `issued`. `ResultInv`: what a successful
command returned bears the number of the request in hand. Two requests with one number are
a whole number of rounds apart; within one session and less than a round, they are the
same.

**What is done.** `OkMeansDone` says that the pipe to the device is empty, which no single
frame shows. `OrderInv` has it from the order of requests: they lie in `outPipe` in the
order they were drawn (`InOrder`), so when the one in hand is answered all others are gone
(`CurrentIsLast`); nothing of the request in hand is anywhere before it is written
(`Unsent`); and while an answer to it is on its way, in the read buffer or in the caller's
hands, the pipe is empty and the port is as the command wanted it (`Settled`). `BlockInv`
carries a leftover packet from the write to the read: the first packet read is not the
answer, and one frame is all a command reads.

**Packets.** `NeverSpliced` needs the shape of `inPipe`: whole frames, each packet
followed by the next of its frame or by the first of another, and only the first frame may
have lost its beginning (`Stream`). A read that began with a first packet has all packets
up to some `k` and finds number `k + 1` at the head (`Reading`); one that began elsewhere
does not decode. `QuietInv` follows the one request of a quiet line into `outPipe`, as the
one answer in `inPipe`, and into the read buffer.

**Refinement.** `PromiseKept` is by step simulation from `OrderInv` and `PacketInv`: the
request at the head is the oldest pending command (`TakeCommand`), a frame queued is a
known answer exactly if it is one to the last request (`QueueAnswers`), reading takes
answers away and adds none (`FewerAnswers`), and a frame that matches is the answer to the
last request (`MatchIsOwn`, the argument of `AnswersCoincide` with less than a round).
`PromiseHolds` then shows, of `RemoteCall` alone, that "ok" is worth what the client
thinks.

**The tool.** Every step of `MuxCli` is a step of `MuxTransact` or a transfer of
`debug-xfer` (`MuxStep`), which hands over a frame without `transact`'s checks. So what is
known of the pipes carries over to any sequence of runs (`BaseInv`, with `DebugBase` for
the one foreign step), and what is known of results carries over to the runs of the other
commands (`CheckedInv`). `ProgramInv` ties the process to its calls: at each step the call
in hand is that step's (`MadeBy`) and so many numbers have been drawn (`DrawnAfter`), at
most four. `CliAssumption` has `SeqMax >= 4`, so within one run the numbers do not go
round, and a command that succeeds on an answer of this run has its own (`OwnHere`): that
is `ExitZero` and, with `BlockInv`, `BusyScans`. For `LoopbackClosesPort` and
`ScanIsStopped`, `LastOrder` follows the close or the stop from the write on: it lies in
the pipe, whole, as long as nothing was refused, lost or not written, or the pipe is empty
and the port or the scan is as ordered.

**Paid loopbacks.** `LoopbackIsPaid` compares two counters, and what lies between them is
spread over the device, the pipe and the process. `PaidInv` counts it: pieces on their way
that may begin a text (`OnTheWay`), and the one being received, just received, or part of
what a run has matched so far (`InHand`); together with the successes these never exceed
the texts that came back. The model tells bytes apart by the length of what they came in,
so the theorem needs what the run `loopback` has: other data do not have the length of the
beginning of a text, and no text is one byte long when there are longer ones
(`OtherData`). Without it a piece of noise may be taken for a text, which is not a
statement about the code.

**Behind.** `LateInv` says why a run that starts behind stays so: the answer to its next
request lies behind another frame (`Behind`), and the answers to the requests it has
already made are still owed when it asks again (`ToAsk`, `ToRead`), because a read takes at
most one answer (`ReadOwes`), and one of this run only to refuse it (`LateReads`).
`ShortAnswers` says that an answer fits one packet: what the tool asks for has at most 12
bytes, and its heartbeat, with the text it sends by default, is answered with 4. It is
needed: if answers had 50 bytes, the reads of `ble-scan`'s loop could take the owed ones
one packet at a time, each read ending in a timeout, which the loop survives, and the scan
would have caught up. TLC finds this with four runs of `ble-scan`, of which the last gets
to its loop on stale answers (`MaxEpoch = 4`, `InCap = 6`, no unsolicited frames), and
finds nothing there with answers of up to 8 bytes.

**Sessions.** `DriverOwed` needs to know who may still give the driver back, and that
needs `OneDebtor`, that a claimed interface never has a driver (`KernelInv`), and that the
struct and the kernel agree on who has claimed it (`OwnerInv`): a process still has the
interface at the attach only if its release failed, and then the fault is on record before
the claim refuses the attach. `ErrorHasReason` needs
that a process without a rival finds the driver at the detach as it was when it asked
(`AloneInv`).

**Receiving.** The invariant says, per `pc`, how `offset`, `target_len` and the capacity
stand to each other, that `target_len` is a header's length or a total that was accepted,
and that what reaches the second decode agrees with the header. A sum that wraps leaves a
total of at most 23 with a header length of 24: the first decode lets it pass, the loop
ends at once, and the second decode, given fewer than 24 bytes, refuses it. The proof
makes that argument for all lengths.

All the invariants were also checked by TLC on the instances above before they were
proved.

**The wire.** The inductive invariant `OnTheWire` says that what arrives is the encoding
of one of `Headers` with the bits `flips` turned, that bits are turned only of a header
that is there in full, and that they are few (`Few`) or close to each other (`Narrow`);
or a hint or a report, untouched (`WireInvariant`). The rest is what the code makes of
such bytes, and that is a matter of its loops.

* *Loops.* `MuxWire` computes as the code does, bit by bit and byte by byte, in recursive
  functions. `Loop` shows that such a function exists and takes its turns in order. The
  library states induction for a predicate, which the provers cannot instantiate;
  `Induction` states it for a set, from the well-foundedness of the order on `Nat`, and
  is used with the set of the turns after which a loop is right.
* *Layout.* The fields of `HeaderLayout` fill the 24 bytes without overlap, and a number
  is the sum of its bits (`NumberOfBits`, `BitsOfNumber`). So reading and writing undo
  each other in both directions (`ReadsBack`, `WritesBack`); the second is what
  `CodecAgrees` needs, of damaged bytes nobody encoded.
* *The checksum is a remainder.* After each byte the register holds, shifted to its place,
  what the division by x^16 + x^12 + x^5 + 1 has left of the message so far
  (`TurnDivides`, `ByteTaken`). `CrcIsRemainder` has it for any number of bytes.
* *Damage.* The inner loop is linear, so turned bits add to the checksum a `Syndrome`
  that depends on them alone, and a header is refused unless the `Residue`, the syndrome
  and the bits turned in the checksum itself, is empty (`AcceptedHasNoResidue`). Bits in
  a row of nine lie in two neighbouring bytes: if both are data, the second cannot undo
  what the first left in the register and nothing later can; byte 19 and 20 and byte 21
  and 22, where data meet the checksum, are cases of their own (`BurstLeavesResidue`). A
  single bit leaves the remainder of a power of x (`ResidueOfBit`), whose degree is below
  208. The remainders of these powers are all different (`MonomialsDiffer`, from 26
  divisions by hand in `MonomialTable`), so two bits do not cancel; and they all have an
  odd number of terms, so three do not either (`ThreeBitsLeaveResidue`).

`HeadersAssumption` is what `ch32mux_build_frame` guarantees of a header it encodes: its
fields have the width of their C types, and the payload fits a frame. `DamageAssumption`
bounds the damage. Three bits is all there is to say: four turned bits can make another
header with a right checksum. Of bits in a row, nine is as far as the argument of two
bytes goes; longer rows, which may reach into a third byte, are neither proved nor
checked here, and beyond some length they cannot all be found, since the checksum does
not come last and bits go out lowest first.

**Only model-checked:** the liveness properties, for which tlapm has no rules here:
`CallReturns`, `ReturnsOrSilence`, `Returns`, `DriverReturns`, `CommandEnds`. Every
invariant and every action property of the passing runs has its theorem.

## 5. What is not modelled

* Payload contents: the wrappers store fields at fixed offsets into arrays of their own
  size; no state depends on them.
* Damage on the wire beyond `DamageAssumption`: 16 bits of checksum cannot find all of it.
  USB has a checksum of its own.
* What the tool prints and the parsing of its numbers.
* The tables of names, the build, the udev rule, and the kernel driver of
  `module/REUSE_ASSESSMENT.md`, which is a plan without code.
* The firmware, other than what the library and the tool expect of it.

## 6. Finding

`docs/USERSPACE_DRIVER.md:54` lists the detection of header CRC errors among what the unit
tests cover. `test_decode_rejects_bad_crc` (`tests/test_proto.c:53`) flips a bit of byte
0, which is the magic number: the frame is refused by `check_header_shape`
(`src/proto.c:78`) with the same `CH32MUX_ERR_PROTO`, and the comparison of the checksum
is never reached. The run `bad_crc_test` shows it. The code is right; the test would pass
without the comparison.

## 7. Plan

What could be added, in this order:

1. `RemoteCall` across sessions: a weaker promise in which an answer of an earlier session
   may be accepted when the numbers coincide.
2. Tests beside the code for what `BadCrcIsFoundByCrc`, `BacklogFails` and
   `BehindStaysBehind` show.
