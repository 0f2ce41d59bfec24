# A verification development for fpga-device-server

`fpga-device-server` owns the FTDI-based FPGA boards of a host and shares them
with clients over TCP. It programs each board when it is plugged in, lets
clients read and write its registers, and tells all clients which boards come
and go and how watched registers change. Everything runs in one thread, on a
boost::asio `io_service`; the difficulty is not parallelism but the order of
handlers, handlers that meet a world that changed since they were queued, and
USB operations that fail half-way.

This directory holds TLA+ modules translated from the source, configurations
that TLC checks on small instances, and proofs that TLAPS checks for every
instance. `PROJECT.json` lists the runs, the mutants, the map from definitions
to source lines, the hazards and the theorems.

## 1. Inventory

| Part | State it keeps | Operations | Talks to |
|---|---|---|---|
| Device manager (`devices/DeviceManager.cpp`) | `m_device_map` (libusb address to device), `m_serial_map` (serial to device), timer, three callbacks | arrival, departure, periodic poll, reprogram, list, look-up, stop | libusb service (hotplug), devices, programmer, server (callbacks) |
| Device (`devices/Device.cpp`) | FTDI handle, watched registers with their last values | open, close, read and write of registers, blocks and raw bytes, poll of watched registers | libftdi, FPGA |
| Programmer (`devices/DeviceProgrammer.cpp`) | JTAG cable and chain | identify, program a bit file | xc3sprog: `jtag`, `ioftdi`, `progalgxc3s`, `bitfile` |
| TCP server (`network/`) | acceptor; set of connections; per connection a socket, an unpacker, a queue of packets with an offset | accept, read, send, write, broadcast, stop | clients, request handler |
| Request handler (`DeviceRequestHandler.cpp`) | table of commands | eight commands, replies and errors | device manager, devices |
| libusb service (`libusb_asio/`) | descriptor watchers, hotplug handlers | watch, unwatch, dispatch, stop | libusb, io_service |
| Main (`fpga-device-server.cpp`) | signal set | start-up, callbacks to broadcasts, shutdown | all |
| Python client (`client/python/`) | mirror of the device list, queue of answers, unpacker | the calls, parsing of packets, events | server |
| libftdi (`libftdi/`, a vendored copy) | context with a read buffer; control blocks of submitted transfers; `struct ftdi_eeprom` with its image | open, close, reset, read, write; submit and wait; fill, build, write, read, decode and erase an EEPROM (the server uses the first line only) | libusb, the chip, its EEPROM |
| Configuration (`config/`) | port, descriptions | read `config.json` | main |

How they interact. libusb calls the hotplug callback from within *any* libusb
call, also from the synchronous transfers of a handler, so the callback only
posts a handler with the raw `libusb_device*`. The timer handler polls every
listed device. A client's chunk of bytes is parsed in a read handler, every
complete request in it is executed on the spot (a reprogram request blocks the
loop for seconds), and replies are queued on the connection. Device events are
queued on all connections, at once, from inside whichever handler caused them.

What is hard, and what makes each part correct:

* **Manager.** Handlers with stale pointers, reused addresses, two boards with
  one serial, removal while iterating, failure after the first of two
  interfaces was claimed. Correct: the two maps are inverse; no open handle is
  lost; a listing is that of the attached board; events and list agree; boards
  that stay attached get listed, boards that are gone get delisted.
* **Device.** Nothing in the byte stream ties an answer to a command. Correct:
  a read returns its own answer; events tell the truth; block headers count.
* **Network.** `send` and write handlers share a queue; completions that are
  already queued when a connection or the server is stopped. Correct: one write
  at a time, no stall, a clean byte stream, and everything is released.
* **Client.** Answers and events share a stream, chunks cut it anywhere, calls
  time out. Correct: an answer belongs to its call; the mirror follows.
* **Shutdown.** `run()` returns only if every part gives up its work.
* **JTAG and programming.** A software shadow of the TAP state; a command buffer
  of fixed size; a wait without a bound; bit files that are cut off. Correct:
  what is shifted arrives, success means a configured FPGA, a bad file leaves
  the running design alone.
* **Transfers of libftdi.** Status bytes inside of the data, a buffer that
  outlives calls, callbacks that submit again, transfers that fail in between.
  Correct: bytes in order, none lost unnoticed, nothing freed in flight.
* **EEPROM of libftdi.** Fifty fields packed into bits for eight chips by one
  function and unpacked by another; strings that wrap around; writes and reads
  that stop half-way. Correct: what was written is read back; no mixture and no
  image of another chip passes for a configuration.

## 2. Modules

| Module | Models | Composes |
|---|---|---|
| `DeviceEvents` | serials and batches of events | |
| `DeviceRegistry` | abstract: the list of devices and the events that tell how it changes | `DeviceEvents` |
| `DeviceManager` | manager, device handles, hotplug, event loop, boards | `DeviceEvents`; implements `DeviceRegistry` |
| `DeviceManager_proofs` | theorems about it | |
| `Network` | server, connections, asio, TCP peers | |
| `Network_proofs` | theorems about it | |
| `ClientSession` | request handler, one connection, Python client | `DeviceRegistry` |
| `ClientSession_proofs` | theorems about it | |
| `EventLoop` | descriptor watchers, timer, signal, return of `run()` | |
| `EventLoop_proofs` | theorems about it | |
| `DeviceRegisters` | register access of one device, FTDI FIFOs, FPGA | |
| `DeviceRegisters_proofs` | theorems about it | |
| `Reprogramming` | open, close and programming of one device, call by call | has only the outcomes `DeviceManager` gives them |
| `Reprogramming_proofs` | theorems about it | |
| `Jtag` | the programmer's path to the FPGA: TAP shadow, TMS and command buffers, MPSSE, chain | |
| `Jtag_proofs` | theorems about it | |
| `BitFile` | the reader of `.bit` files, as operators | used by `Reprogramming` |
| `FtdiTransfers` | libftdi's transfers: waiting and submitted reads and writes, status bytes, the read buffer | |
| `FtdiTransfers_proofs` | theorems about it and about `FtdiEeprom` | |
| `FtdiImage` | libftdi's EEPROM images: build, checksum and decode, as operators | |
| `FtdiEeprom` | the EEPROM calls, the memory, failing transfers, other devices | `FtdiImage` |
| `MCDeviceManager`, `MCDeviceRegisters`, `MCFtdiEeprom` | instances for TLC | |

The layers meet in `DeviceRegistry`: the manager is shown to implement it, and
the client session is built on it, so that what is shown of a client's mirror
holds over the real manager. `ClientSession` takes the connection as a FIFO in
both directions; that is `StreamInOrder` and `NoStall` of `Network`.

A definition named "... Seeded fault" in its comment is a plausible bug in the
definition below it. No specification uses it; substituted for the original, it
breaks a property, which shows that the property depends on that code.

### DeviceManager

State: `deviceMap` and `serialMap` are the two maps; `isOpen[d]` says that
`m_ftdi` of the device at address `d` is not null; `leaked[d]` are interfaces
claimed by handles that nothing refers to any more; `posted` is the FIFO of
handlers in the io_service, `hotplug` what libusb has not dispatched yet;
`plugged` the boards. `emitted` holds the callbacks of the latest step.

One action per handler, as the single thread runs it to its end:
`usbDeviceAdded`, `usbDeviceRemoved`, `periodicRegisterUpdates`,
`ReprogramRequest`, `ReadRegister`, and the environment: `Plug`, `Unplug`,
`HotplugCallback`, `TimerExpires`.

Choices worth knowing:

* A failing USB operation costs one of `MaxFaults` unless the board is gone.
  A board that leaves in the middle of a handler is that failure, followed by
  `Unplug`.
* `Opening` and `Programming` yield the outcomes of `Device::open`,
  `DeviceProgrammer` and their error paths. Two of these leave an interface
  claimed: `Device::open` releases only the context of interface B when B cannot
  be opened or purged, and the constructor of `IOFtdi` throws without closing.
  From then on no open of that device succeeds, which the model contains.
* An address stays allocated while a board, an undispatched departure or an open
  handle refers to it; afterwards libusb may reuse it (`Allocated`). A handler
  with a stale pointer then meets the new board. A stale pointer to freed memory
  is a failing device.
* Boards attached before the start are announced by callbacks as well, so they
  are `Plug` actions at the beginning.
* `stop()` only cancels the timer; `EventLoop` has it.

### Network

Per connection: the socket, the outstanding read, `out` and `offset` (the packet
queue), `posted` (do_write handlers posted by `send`), `writing` (outstanding
writes, with the buffer they refer to), `written` (completions whose handlers
are queued), and `stream` (what the kernel took). An asynchronous operation is
outstanding, then completed, then handled, and other handlers may run in between;
handlers of different operations run in any order. `stop` may throw from
`shutdown` for a client that left, in which case the socket stays open. The parse
of a chunk is the number of complete requests in it.

### ClientSession

The server executes a request in one step: any register event first, then the
reply. `reprogram` packs the array and the OK code before the device is
programmed (the reply macro evaluates its value last), so an exception arrives as
an OK whose value is the error. The client is `_parse_data` packet by packet,
`_wait_for_answer`, `get_device_list` with the replacement of the mirror, and
the time-out of `_require_data`. `overtaken` and `later` are history: the
serials whose newest event an older list has undone. Not modelled: packets of an
unknown kind, lost connections (`Network` has them), and a raw read of zero
bytes whose empty answer a late `get_device_list` takes for an empty list.

### DeviceRegisters

One device. The server is in at most one operation (`op`), while the FPGA
executes commands and its registers change. Bytes carry, for the properties
only, the register and word they were read for and whether the present operation
asked for them (`mine`); the program sees digits. A failed write may have sent
any number of the commands; that a transfer ends inside a command is left out.
`Reprogram` is that of a device with a bit file, and takes the reset of the chip
to empty both FIFOs (external). Counts on the wire wrap at `MaxPacket + 1`,
2^16 in the code.

### EventLoop

What keeps `io_service::run` from returning. `pollfds` are the descriptors
libusb wants to be watched, `watch` is `m_fd_watchers` with the operation of each
watcher; `orphans` counts queued handlers of watchers that were stopped, which
run without a descriptor. `posted`, `timer` and `network` are the other sources
of work, each reduced to what it may still start: a device handler or a request
may open and close devices (new descriptors, whose numbers are used again), the
poll arms the timer. The end of the network after `Server::stop` is one step;
that it comes is `NothingIsKept` of `Network`. An
exception that leaves a handler ends the program and is left out.

Two ways remain in which the shutdown does not end, and `ShutdownEnds` says that
there are no others: the timer had expired when the signal was handled, so that
its handler arms it again and nobody cancels it (`LatePollRunsForever`), or a
handler queued by then opened a device, whose watcher nobody stops
(`lateWatch`). The signal is consumed, so only another kind of signal helps.

### Reprogramming

One device with its two interfaces. `holder` says who claims each of them:
"open" and "device" are the two contexts of `Device::open`, "cable" that of
`IOFtdi`, and "nobody" a context that went out of scope while it was open.
`routine` and `at` are the routine that runs and its next call; every call may
fail, and the board may leave before it. `CreateDevice`, `Reprogram` and
`Remove` are what the manager starts. The FPGA (external) is running,
"triggered" by JPROGRAM, which takes effect at once or later, clearing, blank or
starting; `Capture` is what the instruction capture tells of it. `captured` and
`polls` are the locals of `array_program`, `overtaken` says that a poll came
before the FPGA started to clear. Whatever can go wrong with the chain or a
transfer throws (`ProgramThrows`). `ReadBitfile` reads any file of up to two
sections (`BitFile`), each of which may be cut off; `bits` is what it made of
it, `begun.fpga` what the FPGA did when the routine started.

`ManagerKnowsOutcomes` compares each end of a routine with the sets `Opening` and
`Programming` of `DeviceManager`, taken by INSTANCE: what that module treats as
one step has no other outcome here.

### Jtag

`s` holds the Jtag object (`state`, the shadow), the TMS buffer (`tms`), the
command buffer (`bptr` bytes, `usbuf` the commands completed in it), what was
read (`rbuf`), and the chain behind the FTDI chip: the TAP, its register, the
instructions and data it has taken (`latched`), and the bytes to be read
(`fifo`). The functions of `Jtag` and `IOBase` are the sequences of calls they
make on the cable (`set_tms`, `flush_tms`, `shiftTDITDO`, `shift`, ...), which
`Perform` carries out one after the other; `txrx_block`, `tx_tms` and `readusb`
are the pieces they give to `mpsse_add_cmd`. `Each` does one thing with each element
of a sequence; the loops over clocks, commands, pieces and calls are uses of it. An
action is a call of `DeviceProgrammer` or `ProgAlgXC3S`, which make them in any
order here. A bit is a token that says where it comes from. `TapNext` is the
table of IEEE 1149.1, `Hop` the switch of `setTapState`.

The programmer accepts a chain of one device only, so the bits before and behind
a target, the alignment and shifts that are continued are always absent and left
out; so are reads of data, which the families in use never ask for. A transfer
that fails is `Destroy`, after which the chain may be in any state.

### FtdiTransfers

The chip has sent `sent` bytes, numbered from one, and `taken` of them were
transferred, in packets that start with two status bytes (external). `call` is
the call the program is in: `ftdi_read_data` or `ftdi_write_data`, one transfer a
step, or `ftdi_transfer_data_done`, which handles events until its request is
complete. `tc` holds the control blocks of submitted requests. Callbacks run
while a call handles events, for any transfer in flight. `delivered` is what the
program got, `gaps` where it knows that something was lost. A transfer ends
complete (its buffer full, or with a short packet), or by time or error behind
a whole packet. `inFlight` is libusb's side, `state` that of the code, and
"freed" a request that was freed while its transfer was in flight, which happens
when `libusb_handle_events` fails twice.

A program has one read at a time, since the reads of a context share one buffer;
callbacks of the program, allocation failures and the interrupted event loop
(`LIBUSB_ERROR_INTERRUPTED`, which only repeats) are left out.

### FtdiImage and FtdiEeprom

An image is the set of its one bits. `Image` is `ftdi_eeprom_build`: rows of
(byte, bit, width, number) for the header, the strings and each type of chip,
and the checksum in closed form. `DecodedValues` and `TextAt` are
`ftdi_eeprom_decode`, again as rows. `FtdiEeprom` has one action per call, in
any order: `ee` is `struct ftdi_eeprom`, `mem` the memory behind the chip, of 64,
128 or 256 words whose addresses wrap around, so that a long image overwrites
itself in a small memory. A write or read may fail at each of the `FailPoints`.
`bufOf` and `memOf` are history: which image a content is, or that it is a mixture.

Left out: a structure of 64 bytes, a size that `ftdi_read_eeprom` can guess but
no memory has, is not built from; printing; `ftdi_get_eeprom_buf` and
`ftdi_read_chipid`, which change nothing.

## 3. Runs

| Run | Question | Instance | Result |
|---|---|---|---|
| `device_manager` | safety and refinement of the manager; are arrival, departure and unclaimed devices resolved? | 2 addresses, 3 serials (programmed and watched; programmed; no description), 3 plug-ins, 1 fault | holds, 141 396 states |
| `unclaimed_device` | is a listed device claimed between handlers? | as `device_manager`, 2 faults | violated (finding) |
| `network` | one writer, no stall, clean stream; is everything delivered or dropped, and released in the end? | 2 connections, packets of 2 units, 2 packets each | holds, 110 897 states |
| `client_session` | answers, failures and the mirror | 2 serials, 3 calls, 1 time-out, 2 device changes | holds, 6.9 million states |
| `client_in_sync` | is the mirror in sync after `get_device_list`? | 1 serial, 1 call, 1 change | violated (finding) |
| `device_registers` | answers, truth of events, block headers; does the poll catch up? | 2 watched registers, an aliased key, blocks of 2 packets, 1 fault | holds, 1 073 792 states |
| `read_without_handle` | is a null handle reported? | 1 fault | violated (finding) |
| `event_loop` | are exactly the polled descriptors watched? can the poll be stopped? are hotplug events dispatched, does `run()` return? | 1 libusb and 2 device descriptors, 3 hotplug events | holds, 71 874 states |
| `reprogramming` | claims and outcomes of opening and programming; can it block? | 3 polls, bit files of 2 sections | holds, 14 713 states |
| `jtag` | does the TAP shadow stay right? does all data arrive, and every read get its own bits? | bytes of 3 bits, a command buffer of 8 bytes, words up to 36 bits, 5 words | holds, 14 780 states |
| `ftdi_eeprom` | is what was written read back, rebuilt the same, and nothing else taken for an image? | 8 types of chip, 7 groups of fields at their highest values, longest and no strings; 3 types with 2 changing calls, 1 fault | holds, 30 440 states |
| `ftdi_transfers` | are data in order, is nothing freed in flight, does every call return? | packets of 4 bytes, transfers of 12, 6 bytes from the chip, reads of 1 and 4, writes of 3 in chunks of 2, 2 faults | holds, 482 014 states |

Why the bounds are enough. *Manager:* two addresses with three plug-ins let an
address be freed and reused by another board while the handlers of the first are
queued, and let two boards have one serial; one fault can leak an
interface, and every later operation on it then meets the leak. *Network:* a packet of two units is split
or not; two packets make the queue empty and non-empty in turn; two connections
let one be stopped by the broadcast or failure of the other. *Client:* two
serials distinguish the serial a list overtakes from another; after one time-out
two more calls show the shift. *Registers:* one failed read shifts all that
follow; two watched registers distinguish the order of the answers; with
`MaxPacket` 1 a block of two words takes two packets, and the header would wrap
at 2. *Event loop:* two device descriptors let a request close one and get the
other; `MaxOrphans` lets two stopped watchers leave handlers behind.
*Reprogramming:* the 50 polls of the code are 3, which have a first, a middle
and a last one; nothing else is bounded. *Jtag:* bytes, buffers and words keep the
order of their sizes in the code: an instruction is shorter than a byte, an IDCODE
has whole bytes, data has up to several chunks of the command buffer with an
incomplete byte behind them, walks of the TAP overflow the TMS buffer; with
`MaxDevices` 3 a chain of none, one or two devices ends before the limit.
*Transfers:* a transfer of up to three packets has a first, a middle and a last
one, which is short, empty or full; a read of one byte leaves a rest, one of four
takes a rest and more than a transfer; two faults are a failure and one while it
is cleaned up. *EEPROM:* the code treats each type on its own, so each is taken,
with the smallest memory that holds its images (which then wrap around) or a
larger one. Fields are numbered, and the group of a binary digit sets all fields
whose number has it: of any two fields some group sets exactly one, so that
two that share a bit show; a last group sets all.
The longest strings reach every byte that strings may reach. Three types, with
an external memory, an internal one and one with a reserved section, add writes,
reads, failures and the exchange of the device to it.

Deadlock is checked in all runs but those of `Network` and `EventLoop`, where the
server really stops (after the last handler nothing is left to do), and of
`FtdiEeprom`, where a program without a call in mind is done.

## 4. Fairness

* Manager: weak fairness of the dispatch of libusb events (its descriptors are
  watched by the io_service), of the timer and of the event loop. All three are
  provided by asio, which runs every queued handler. Boards and clients owe
  nothing.
* Network: weak fairness of each handler, for the same reason. A client that
  stays takes what was sent (`WriteSucceeds`); operations on a dead connection
  end with an error; a read that could fail infinitely often fails at last,
  since only finitely many bytes were sent before the client left (`ReadFails`,
  strong).
* Event loop: weak fairness of every handler; libusb's own descriptor gets ready
  while an event is pending, a device's need not. No fairness of boards, clients
  and the user.
* Reprogramming: weak fairness of the next call, which need not fail while the
  board is there and throws when it is not. The FPGA starts to clear after
  JPROGRAM; that it gets cleared, or comes up, is not assumed.
* Transfers: libusb ends every transfer, in the end with the data there are,
  and calls callbacks while a call handles events; the chip sends all of its
  `MaxBytes`. Failures and time-outs are never fair. A read of more than the
  chip ever sends times out for ever, which `CallsReturn` excepts (`Starving`).
* Registers: strong fairness of the poll, whose timer handler is queued behind
  the requests that are there; weak fairness of the FPGA and of the reading loop;
  a read that nothing answers gives up after 100 attempts.

## 5. Proofs

`DeviceManager_proofs` proves, for any sets of addresses and serials, any
descriptions and any bounds, from the assumption `DMAssumption` on the constants:

* `TypeCorrect`, `MapsAlwaysAgree`, `OpenAlwaysOwned`, `ListingAlwaysCurrent`:
  the four invariants of the run `device_manager`;
* `RegistryImplemented`: every behaviour of the manager is one of
  `DeviceRegistry`.

The argument. The inductive invariant `IInv` is the conjunction of the four
invariants. They need each other: a departure handler finds a device by its
address and erases it by its serial, so the maps stay inverse only because they
were; a removal closes exactly the dropped devices, so handles stay owned only
if the maps agree; and a listing stays current because a device is entered under
the serial of the board that is there, the departure of a board is queued in the
same step in which it leaves, and the handler of that departure drops what is
listed at its address. The USB operations are handled by lemmas about the sets
of their outcomes (what `Opening`, `Programming`, `reprogramDevice` and
`Creating` may return), each proved once, so that the proof of a step has one
case per action. The refinement maps the list to the serials in `serialMap`:
`Init` maps to `RegistryInit`, an arrival to `AddDevice`, departures and polls
to `Update`, everything else to `Silent` or `Update` with changed registers.

`EventLoop_proofs` proves, for any descriptors and bounds, from `LoopAssumption`,
the three invariants of the run `event_loop` (`LoopTypeCorrect`,
`WatchedAlwaysPolled`, `LatePollAlwaysRuns`). They are inductive together with
`Counted` (no hotplug event is queued twice). Every handler is first shown to be
a `WatchStep(S, T)`, some descriptors lose their watcher and some get one, which
keeps `WatchedIsPolled` whoever does it; only the signal handler is different.

`Network_proofs` proves, for any connections, any message size and any number of
messages, from `NetAssumption`, `AlwaysOneWriter` and `NeverStalled`. The two
need each other and three facts more: a connection without a socket has no
queue, no write and no read (`Unstarted`); a completed accept left such a one
(`AcceptedIsNew`); and only a connection that left the manager has an aborted
write (`AbortedHasLeft`), for the handler of an aborted write ends the writing
and leaves the queue. Each part of a handler (`send`, `do_write`, `stop`) has a
lemma that says by how much it changes the number of writes in progress; every
step is then a `ConnStep` of every connection.

It proves `StreamAlwaysInOrder` from the same assumption. Its invariant adds `Flow`, one predicate on the queue, the number of messages, the
offset, the writes and the stream of a connection: the queue holds the last
messages given to `send`, the outstanding write is that of the front packet from
the offset on, and the length of the stream is what was popped, the offset and
what the completed write took. `Flow` speaks of values only, so that each part of
a handler is one lemma about it, and the steps put the parts together. It needs
`OneWriter`: with two writes the second would repeat the first.

`Reprogramming_proofs` proves `ManagerKnowsAll`, `IdleHoldsNoMore` and
`SuccessIsConfigured`, for any number of polls and any bit files. The first is what
`DeviceManager` takes for granted: however the calls of a routine fail, and
whenever the board leaves, the routine ends with an outcome of `Opening` or
`Programming`. The invariant says before each call how far the routine is and with
what device (`Stage`), who claims the two interfaces (`Claims`), what has not changed
since the routine began (`Since`: nothing is lost on the way, and the board was
there if the first claim worked) and what the programmer may know of the FPGA
(`Flow`). `Flow` carries the exception of `SuccessMeansConfigured`: a status captured
before the FPGA was cleared is possible only after a poll was overtaken.

`FtdiTransfers_proofs` proves `DataStaysInOrder` and `InFlightExactlyOpen`, from
`SizesAssumption` (the chunks are whole packets, the packets longer than their
status) and `BlocksAssumption` (the reader is not a writer), for any sizes of
packets, chunks and requests. `Stream` says what the program got, in order and with
the gaps it knows of; `Reading` continues it with what a request has and what the
buffer keeps, up to the next byte of the chip. Every way in which bytes move has a
lemma about these two: a transfer is stripped of its status bytes (`MovedBytes`,
which needs that the quotient and remainder of a position in a transfer are those of
the byte it holds), a request takes what it wants (`ReadingTakes`), is served from the
buffer (`ReadsHit`), starts with what is kept (`ReadsStart`), is delivered
(`ReadsDelivered`), or is lost and leaves a gap. `OneRead` is needed because both
kinds of read share the one buffer: a call that waits and a submitted read that is
open at the same time would interleave. A block's part (`BlockOK`) says that an open
one is in flight and what a writer has sent.

It also proves `ImagesStayWithChip` of `FtdiEeprom`, an instance of which it takes: for
any fields, memories, types of chip, failing transfers and exchanged devices, no EEPROM
receives an image that was built for another type of chip. The invariant says where an
image for this chip may be: in the memory, or in the buffer while the structure counts
as initialized for the connected device; exchanging the device ends that.

`Jtag_proofs` proves `ShadowFollowsTap` and `WordsArriveInOrder`, from `JtagAssumption`, for
any sizes of bytes, registers and buffers, any lengths of data and any calls. What a
cable holds is `Waiting`: the clocks of the commands in the command buffer, then those of
the bits in the TMS buffer. `Ideal` is the chain after them. The first half is that a
call on the cable `Advances` it by exactly the clocks that the call stands for: whatever
is sent on the way, `Ideal` is where those clocks lead, and what is still waiting is the
end of them. This is proved from the bottom up, for a part of a command (`mpsse_add_cmd`,
with a buffer that is full or not), for the pieces of `tx_tms` and the chunks, bytes,
bits and last bit of `txrx_block` (which are shown to be a division of the data), and for
sequences of calls. Each level is a recursion over a sequence, whose function is shown to
exist and to be unique, and the laws for a sequence that is appended follow from its
equation by `SetInduction`. The second half follows the ideal chain: a walk of
`setTapState` leads along the table of the TAP to its target (every pair of states that
is used), a shift fills the register, and `Trail`, what is latched on the way, is exactly
the word of a scan. The invariant `IInv` says that the ideal chain is `Settled`: in the
state the shadow says, with all words that were issued latched, while the real one, which
lags behind by `Waiting`, has latched the first of them. The words latched so far have to
be part of it: before the program sleeps nothing waits, and only then the two are the
same. The invariant also says that a programmer in use has a device: a chain without one
answers only ones (`Silent`, kept from the cable to the buffer that is read by `Yields`,
`BlockYields` and `AllOnes`), `getChain` takes these for the end of the chain
(`getChainNone`), and the constructor refuses it (`NoneIsFound`).

`DeviceRegisters_proofs` proves, from `RegistersAssumption`, for any keys, any watch list,
any sizes of packets and blocks and any number of failures: `PacketsStayWhole`,
`OwedStays`, `EventsStayTrue` and `CleanAnswersAreOwn`. The invariant `InLine` gives each
byte that is on its way to the host, and each command that is on its way to the FPGA,
a place: the number of bytes that come before it, those that commands further
ahead will cause included. A byte in a place below `owed` is an old one, and one
behind has the register and the half of the word that its place says. So a read that
started with nothing owed gets its own bytes, and one that did not gets others
(`OwnAnswerIffClean` in both directions). How many bytes a queue of commands will
cause is a sum over the queue, which has no bound; the sums are a recursive function
that is shown to exist and to be unique by induction (`SumsExist`, `SumsUnique`), and
the lemmas for a command that is appended, answered or half answered follow from
its equation. Induction over the numbers is `SetInduction`, derived here from the
well-foundedness of < in the library, as a theorem about sets: a set of naturals with
0 that is closed under the successor has them all.

`ClientSession_proofs` proves, from `SessionAssumption`, for any serials and any number
of calls, time-outs and changes, all four invariants of the run `client_session`:
`OrderIsKept`, `NoSilentFailure`, `MirrorIsTrue` and `ChangesAreHandled`. The order
follows from one sequence, the numbers of the answers that wait, of the answers in the
inbox and in the stream, and of the requests: a call adds the next number at its end,
a return takes the first, and every other step leaves it as it is (the lemmas `Way...`).
That an answer which does not raise was carried out needs that the items fit the call
they are numbered for (`Fits`) and say what happened (`Honest`). For the mirror, the
invariant `Consistent` is about the inbox and the stream as one sequence: what was told
last of a serial, by an event, by an answer with a list, or before all of them by the
mirror or a list that waits (`Sources`), is what the server lists at the end, and "added"
wherever a register change follows. `Sources` leaves out exactly the overtaken serials and
the lists that are older than an event; so no list that may still be applied tells
anything else than the events. One packet at the end (`ConsistentNext`), one taken from
the front (`ConsistentRest`) and fewer sources (`ConsistentLess`) keep it, and a batch is
one packet after the other: `Kept`, the recursive function behind `EventPackets` and
`AnswersIn`, is shown to satisfy its equation (`UptoIs`) and the rest follows by
`SetInduction`.

Each of the new invariants was first checked as an invariant of its run.

Model-checked only: all liveness properties (fairness is out of reach of the
prover); `AnswersAreOwn` of `Jtag`, which needs the bits of every byte that is read,
through the division of `txrx_block` and `Assemble`, where the proofs follow what is
written, and of what is read only that an empty chain answers ones; and three properties
of `FtdiEeprom`, which are about concrete images. `WrittenIsReadBack` and `RebuildIsSame`
hold because of the layout of the fields of each type, bit by bit, with nothing general in
it.
`OnlyImagesDecode` holds because the checksum tells a mixture from an image: that is
true of the contents the run uses, and no theorem, as other contents collide. Type
invariants are checked or proved where the proofs use them.

## 6. Findings

1. `reprogramDevice` may leave a device listed without a claim
   (`unclaimed_device`): "release the usb device and reprogram before claiming it
   again" fails if opening fails, and a leaked interface makes it fail forever.
   The poll drops such a device if it has watched registers
   (`UnclaimedWatchedIsResolved`); without any it stays.
2. `get_device_list` may leave the mirror out of sync for good
   (`client_in_sync`). `MirrorFollows` says exactly when: for serials whose
   event came in one chunk with an older list.
3. `ftdi_read_data` dereferences a null context before its test for null
   (`read_without_handle`), which a raw read reaches through finding 1.

Seen while modelling and stated by the properties, without a document to
contradict: the error of a failed `reprogram` reaches the client as a value
(`FailureIsRaised` excepts it); after one time-out a client takes the answer of
the previous call forever (`AnswersInOrder`); after one failed register read, or
a poll between a raw command and its raw read, all later reads of that device are
shifted (`OwnAnswerIffClean`, `OwedIsKept`); a signal that comes while an expired
poll is queued is consumed without ending the server (`LatePollRunsForever`); an FPGA that never
gets cleared blocks the server (`OnlyClearingBlocks`); and the second wait of
`array_program` believes a status that was captured before the FPGA was cleared
(`SuccessMeansConfigured`); it also decides by the counter of its loop, so that an
FPGA that comes up at the last of the 50 polls counts as "failed to configure"
(`Finish`, progalgxc3s.cpp:245); and a bit file with an empty data section, which
`readBitfile` means to refuse but does not (its test of the length is
unreachable), makes the TAP shadow wrong (`ShadowAgrees` excepts it).

In libftdi, stated by the properties or visible in their exceptions:

* a request that was freed after a second failure of `libusb_handle_events` is
  still in flight (`InFlightIffOpen` excepts it); a transfer that was cancelled
  is submitted again by its callback, so the wait ends only when the request is
  complete; an error is forgotten when the callback submits again, as only the
  last status counts;
* bytes that a call copied before a transfer failed are lost with the error
  (`DataInOrder`, `gaps`);
* `ftdi_eeprom_decode` takes the strings and the common fields before it looks at
  the checksum; for types AM and BM it sets the kind of memory to -1, after which
  nothing can be built (`RebuildIsSame`); `is_not_pnp` and three CBUS pins of a
  FT230X are stored but never decoded (`NotDecoded`), other fields are decoded
  from bytes that hold something else (`NotStored`);
* `ftdi_eeprom_set_strings`, `ftdi_set_eeprom_buf`, decode, read and erase leave a
  buffer "initialized", so that what is written then is not what was set;
* `ftdi_get_eeprom_value` answers `CBUS_FUNCTION_9` with pin 8 (ftdi.c:3714);
* a memory is blank for `ftdi_read_eeprom` only if none of its bytes is zero, and
  the search then runs on behind the buffer (`LooksBlank`);
* `ftdi_readstream`, not modelled, frees its array while transfers are out
  (ftdi_stream.c:292), where its comment says that they are cancelled.

Real, but out of the reach of a property here: the queue of a client that does
not read grows without a bound (ClientConnection.cpp:47); an accept that fails
for want of descriptors is started again at once (Server.cpp:50); bit files are
opened for every programming and never closed (DeviceProgrammer.cpp:46); the
removed callback is guarded by a test of the added one (DeviceManager.cpp:163,
`main` installs both); the destructor of the cable sends a static buffer that an
earlier call modified (ioftdi.cpp:654).

## 7. Plan

In order of what matters most; done: `DeviceManager`, `EventLoop`, `Network`,
`ClientSession`, `DeviceRegisters`, `Reprogramming` with `BitFile`, `FtdiTransfers`
and `Jtag`, each with its proofs; `FtdiImage` and `FtdiEeprom`. What is left to prove is
`AnswersAreOwn` of `Jtag`; of `FtdiEeprom` what depends on concrete images stays with TLC.
All other invariants of the runs are theorems.

Not modelled: the configuration and `json11` (read once at the start, in one
thread, vendored; the result is a constant of `DeviceManager`); of libftdi the
streaming read and the bit-bang, baud rate, line and modem settings (unused by
the server, or one request without state each) and the search for devices;
msgpack (external); the connection handling of the Qt client and its test
application; the file formats, chip families and flows of xc3sprog that the
server never selects.
