# Verification of the CAN bootloader

TLA+ models of the CAN bootloader in `src/`, the TLC runs that check them on
small instances, and TLAPS proofs for every value of their parameters. The
models follow the STM32F4 port as built for the nucleo-board-stm32f446re.

    tlc -workers 2 -config MCBootLoop.cfg MCBootLoop      # a run
    tlapm FlashWriterProofs.tla                           # a proof

## 1. The system

A board runs the bootloader from reset until it starts its application. A
client on the CAN bus sends it *datagrams*, each a sequence of CAN frames that
carries one command; the board answers by datagrams of its own.

| Component | Source | State | Operations | Module |
|---|---|---|---|---|
| Configuration pages | `config.c`, `command.c` 244–308, `bootloader.c` 132–157 | two flash pages with a CRC, the configuration in RAM, two bits of the driver's record of erased sectors | choice at start-up, update, save | `ConfigStore` |
| Flash driver and flash commands | `command.c` 45–159, `stm32f4/flash_writer.c` | flash, record of erased sectors, retry counter | erase, write | `FlashWriter` |
| CAN reception | `stm32f4/can_interface.c`, `can_fifo.[ch]` | hardware FIFO, ring buffer with two indices | receive interrupt, read | `CanFifo` |
| Main loop, timeouts, boot argument | `bootloader.c`, `command.c` 180–195 and 318–379, `armv7-m/*` | argument in RAM, clock, two timers, reader, status, output buffer | reset, tick, read a frame, execute, reply, jump | `BootLoop` |
| Datagram codec | `can_datagram.c`, `client/can/datagram.py` | state of the byte-wise reader and writer | input byte, validate, output bytes; encode, decode, cut into frames | `Datagram` |
| CAN transmission | `stm32f4/can_interface.c` 263–297, 422–456 | three mailboxes | send with timeout, abort | `CanSend` |
| Request and reply over the bus | `bootloader.c` 45–85 and 240–310, `utils.py` 120–150 | frames on the way, the client's buffers by source | send, read, answer, put together | `Exchange` |
| Client: commands with retries | `client/cvra_bootloader/utils.py` | answers by board | send, collect, send again | `FlashTool` |
| Client: flashing tool | `client/cvra_bootloader/bootloader_flash.py` | page, boards, retries | enumerate, erase, write, configure, verify, start | `FlashTool` |
| Client: configuration tools | `client/cvra_bootloader/change_id.py`, `write_config.py`, ... | none that lasts | change the ID, write a configuration; the others send one command | `FlashTool`, in part |
| Client: adapters | `client/can/adapters/**` | — | I/O | no |
| LEDs, clocks, other microcontrollers | `platform/**` | — | set-up | no |

How they interact. The receive **interrupt** moves frames from the controller to
the ring buffer and may preempt the main loop between any two instructions.
The **main loop** takes frames out, feeds the datagram reader and, on a valid
datagram for this board, calls the handler of a command. Handlers work on
**flash** through the driver, on the **configuration in RAM**, and on the output
buffer. The millisecond **interrupt** moves the clock both timeouts are taken
from. A **reset**, asked for by the jump command, a fault, the application or
the outside, forgets everything but flash and two words of RAM, through which
the argument of the next start travels. Over all this the **client** retries what
was not answered.

What is hard:

* resets and power losses between two flash operations, and flash operations
  that fail without telling (`ConfigStore`, `FlashWriter`);
* a record in RAM of what is erased in flash (`FlashWriter`, `ConfigStore`);
* an interrupt in the middle of a copy, and a bounded buffer (`CanFifo`);
* lost and interleaved frames, two timeouts on a clock that overflows, and a
  decision taken before a reset and acted on after it (`BootLoop`);
* integers: `uint8_t` retry counter, reply length and `update_count`;
* a send timeout that wraps, and a status that is that of mailbox 0 whichever
  mailbox was used (`CanSend`);
* a reader that keeps what was left of a lost datagram, and whose two buffers nothing
  protects from the lengths it reads (`Datagram`, `Exchange`);
* retries of commands that are not idempotent, answers that are counted without a
  look at what they answer, and a wait without a bound (`FlashTool`).

What makes each component correct:

* *Configuration pages*: some page stays valid; an abandoned configuration never
  comes back; the reply of a save is right; both pages together are one durable
  variable.
* *Flash commands*: bootloader and configuration are never touched; what is on
  record as erased is blank; a command that reports success has done its work.
* *Reception*: frames come out whole, in order, once; the loop goes on reading.
* *Main loop*: only a checked application is started, only after the full
  timeout or on command; a datagram is given up when and only when it stopped
  coming; the client learns of errors.
* *Transmission*: frames are not overtaken; "true" means that the frame was sent.
* *Codec, exchange*: exactly the datagrams that arrived whole are accepted; the
  reader stays within its buffers; the client yields whole answers, in order, and all of them when nothing is lost.
* *Tools*: success is never reported over a board that does not hold the image;
  without a fault the tools succeed; they come to an end.

## 2. The modules

### ConfigStore — two configuration pages

`flash` holds the two pages, `config` the copy in RAM; `saving`, `page`, `step`
follow `command_config_write_to_flash` through the erase, programming and read back
of each page. Pages are `Blank`, `Corrupt` or a configuration, which is an opaque
body and an `update_count` that wraps at `CountLimit`; the CRC of a page is
valid when the page holds a configuration. Every flash operation may fail,
leaving the page corrupted or as it was, and the driver reports nothing; `Down`
is a reset between any two steps. `Boot` is the choice of the page at start-up.
A page that was never erased may be programmed over (`Programmed`), because the
driver skips an erase its record says was done.

Auxiliary variables remember the last configuration committed and those of the
saves attempted since; they never guard an action.

`DurableConfig` is the abstract specification: one durable configuration,
written by a commit, where an interrupted save leaves the old one or the new
one. `ImplementsDurable` is the refinement.

### FlashWriter — erase and write commands

Flash is an array of cells of 16 KiB; the sectors of 1, 4 and 8 cells and the
address arithmetic of the driver are those of the source. An erase command
checks its address and loops over `flash_writer_page_erase` and the check of
the result, with the `uint8_t` counter of retries; a write command checks that
its target is blank and calls `flash_writer_page_write`, whose two loops (mark
sectors, program) are followed iteration by iteration (`MarkSector`, `MarkEnds`,
`ProgramDone`). Flash operations fail; resets come anywhere; checking a range
that runs past the end of flash faults (`ReadPastEnd`).

### FrameQueue, CanFifo — reception

`CanFifo` has the controller's FIFO (unlocked: a frame that finds it full
replaces the newest), the interrupt handler, the ring buffer of `N` slots and
the main loop's copy, field by field (`CopyId`, `CopyDlc`, `CopyData`), between
which the handler may run. Frames are numbered so that a torn frame can be told.
`FrameQueue` is the abstract specification: a bounded queue of whole frames.

### BootLoop — from reset to application

`reset_handler` (boot.s) reads and clears the argument in RAM; `bootloader_main`
starts the timeout. One turn of the loop goes through `pc` = `top` (bootloader
timeout), `datagram` (datagram timeout), `read`, `execute` and `respond`, and
`systick_handler` may come between any two of them; every other entry of the vector table that is in use,
but for CAN reception, leads to `fault_handler` (`Exception`). A datagram is a number of
frames of which the first has the start bit; any frame of any datagram may come
next, which covers loss, repetition and several senders. The byte-wise reader is
abstracted by what its CRC decides: `Received` is a valid datagram exactly when
its frames came in order. The content of the application area and the size and
CRC in the configuration are members of one set `Images`; the CRC check is their
equality. `reply_length` is a `uint8_t` and `output_buf` keeps the previous
reply, as in the source. Auxiliary variables (`uptime`, `silence`, `heard`,
`granted`) measure real time and remember why the application may start.

### CanSend — sending a frame

`can_interface_send_message` as its code goes: `Abort`, `Transmit`, one poll at a
time (`PollAgain`, `Complete`), `EvaluateTimeout` or `EvaluateStatus`, and the
retries. Between any two of them the controller works (`StartTx`, `TxDone`,
`TxFailed`), and it does so after the function has returned. `timeout` is unsigned
and wraps at `CounterLimit`, so that after a timeout it is not 0: the branch
meant for the timeout is taken only when a frame completes at the last poll. The
bits polled are those of mailbox 0. A frame on the bus survives an abort; it just
is not tried again (`aborting`). Calls are numbered to tell their frames apart.

### Datagram — both codecs

Pure operators. `Input`, `is_complete`, `is_valid`, `Start`, `output_bytes` are those of
the boards, with the counters of bytes, the state kept from the datagram before, and the test
for the end of a list after an element was stored; `encode_datagram`,
`decode_datagram`, `datagram_to_frames` those of the client. The checksum is a
parameter `Crc` of four bytes. `Accepts` says in one formula, without a reader, which
bytes the board's reader takes for a datagram.

The reader has a buffer for `AddressSize` destinations (128 in the code) and one for
`InputSize` bytes of data, and tests neither length against them. One destination too
many is written past the first buffer: from then on the reader is in the state `overrun`,
which is not one of the code and says only that nothing is known any more. Data that does
not fit ends the datagram, and the CRC is then read on past the second buffer
(`OverRead`): it may match or not (`Verdicts`), or the read may fault. `Overruns` and
`OverReads` say of bytes, without a reader, when that happens.

### Exchange — a client and a board

Extends both. The client cuts a request into frames (`Request`, `SendFrame`); the board
reads them (`ReadFrame`), gives up a slow datagram (`DatagramTimeOut`: when exactly is
`BootLoop`'s subject), executes or complains, and answers frame by frame through `CanSend`
(`ReplyFrame`, `ReplyEnds`, `Sending`); `read_can_datagrams` puts together what comes
(`Transmission`), with frames of another board in between, which the filters of the board
(`Filters`, `can_set_filters`) keep from it. Frames get lost on both ways, are tried again,
or are late. A request may have no destinations: `bootloader_run_application` without an
argument sends that. Auxiliary variables number the frames that arrived and remember what
was answered and yielded. `Whole` is about the frames that arrived, not about the request
they were sent in: they are byte for byte those of a request. `Splice` describes what the
bus can make of requests, and `NoCollision` says that the checksum tells it from
them; the properties do not use it, a theorem does.

When the board runs past a buffer (`RunOver`), `undefined` is set and its main loop takes no more
steps: what the code does then is not told by the code, and nothing is claimed of it. This is
not out of the way: a lost start frame makes any byte the number of destinations, and the requests
of the run have too many of them, or too much data.

### FlashTool — the client's tools and several boards

`bootloader_flash`, `bootloader_write_config` and `bootloader_change_id` as jobs of
the same stages: `ping` (`enumerate_online_nodes`), `erase` and `write` page by page,
`update` and `save` (`config_update_and_save`), `verify`, `run`. `Send`, `Receive`,
`Retry`, `Complete` and `GiveUp` are `write_command_retry`; `Evaluate` is what
`flash_image` makes of the answers. The boards stand for what the modules above
say of them, told by their replies: a board deals with its datagrams in order, an
erase may fail with a reply of two objects that the client cannot decode, a
write may fail and reply success, and so may a save, whatever configuration the board
is left with (`SaveFails`: the read back only compares each page with its own CRC). A write
of a page that begins inside the last sector is dropped, with success for an answer and
nothing gone wrong (`StoredPage`; `dropped` says which pages of an image do). A board may be reset and stays in the
bootloader, as it does when it hears a command before its timeout. A datagram sent to several boards reaches any of them, damaged or
not; a damaged one is complained about by every board that received it. `faults`
counts what goes wrong; being late is one fault (`Late`). Which codes end the tool depends on
the stage (`Fatal`): the refusal of an erase that is counted for a write is printed as
unrecognized, and the tool goes on. Auxiliary: `unheeded`, when a
stage was left with answers that are not answers to its command or that tell of a
failure nobody looked at; `lapsed`, boards that were reset before they saved or whose
flash failed when they did.

### MC modules and proofs

`MC*` instantiate a module for TLC. `ConfigStoreProofs`, `CanFifoProofs`,
`FlashWriterProofs`, `BootLoopProofs`, `DatagramProofs` (the codecs),
`ExchangeProofs` (which builds on them), `FlashToolProofs` and
`FlashToolCleanProofs` (runs without a fault) hold the proofs.
Operators named after another with a suffix (`Bumped_NoWrap`, `Since_NoWrap`, ...)
are deliberate mistakes; each property is known to be violated when one of them
replaces the right definition.

## 3. What the runs check

| Run | Module | Distinct states |
|---|---|---|
| `config_store` | `MCConfigStore` | 79 924 |
| `can_fifo` | `MCCanFifo` | 3 558 |
| `flash_writer` | `MCFlashWriter` | 14 408 |
| `boot_loop` | `MCBootLoop` | 243 176 |
| `exchange` | `MCExchange` | 597 789 |
| `flash_tool` | `MCFlashTool` | 295 015 |

**config_store.** `SomePageStaysValid`: once a page is valid, one is at every
instant, with resets and failures anywhere. `OnlyCandidatesStored`: a valid page
holds the last committed configuration or a later attempt. `ErasedMarkSound`: the
driver's record of an erased page is right, so no erase is skipped wrongly.
`SaveReplyRight`: a save whose flash operations worked replies ok, with both
pages holding the configuration. `ImplementsDurable`. Bounds: two bodies and three counts tell an old from a new
configuration and let the count wrap.

**can_fifo.** `DeliveredInOrder`: the frames the main loop got are whole and in
the order stored. `BusOrderKept`: what comes out is in bus order, although
the controller replaces frames. `ReadUnlessStarved`: a stored frame is read
unless the interrupt keeps the processor. `ImplementsQueue`; that the handler writes no
slot that still holds an unread frame (`NothingOverwritten`) follows from it and is proved. Bounds: four slots, three
hardware slots and nine frames fill and wrap both buffers; the bus then falls
silent, which is why that run alone does not look for deadlock.

**flash_writer.** `BootloaderUntouched`; `MarkSound`: a
sector on record as erased is blank unless a write that began in another sector
ran into it (the driver misses that sector; the exception is part of the
property and of what the code does); `EraseWorks`, `WriteWorks`: when no flash
operation failed, an erased sector is blank and a write stored its data, except
for a write that begins inside the last sector; `CommandEnds`. Bounds: a flash of
four small, one middle and one large sector, addresses at both ends and inside
of each, sizes that cross a border.

**boot_loop.** `StartJustified`: the reset handler starts the application only
on a request granted after the CRC matched, or by the application itself, and
one request starts it once, whatever resets follow. `TimeoutJustified`: the
bootloader leaves by itself only after its full timeout, with no command heard
and not told to stay. `GivenUpInTime`: a datagram is given up only after a full
timeout without a frame, also across the overflow of the clock.
`LeavesBootloader`: a board left alone leaves; left alone also by a flood of frames, which
can keep the loop from running at all (`keeps_reading`) and which the fairness of the
loop leaves out here. `DatagramEnds`: a begun datagram
is finished or given up. Bounds: a clock of five values with timeouts of two
overflows within one timeout (2^32 ms against seconds: the relation that
matters, a timeout and the length of a turn below the range of the clock, is
`TimesAssumption`); two frames are a start frame and a continuation; two images
match or do not; replies of 1 and 256 bytes are those a `uint8_t` tells apart
badly; a turn takes at most one tick (`MaxLag`).

**exchange.** `MailboxFree`: `can_transmit`, whose result is dropped, always finds an
empty mailbox. `NeverOvertaken`: no frame is overtaken by one sent later.
`TrueMeansSent`: a call that returns true has sent its frame; or else, and only when the call
before it had failed, it was told of a frame left in mailbox 0, and its own is still being
sent from another mailbox. Both happen in the run.
`WholeAccepted`: the board accepts every datagram that arrived whole, provided it has
a destination, data, and no more of either than the buffers take (`Readable`). `OthersRefused`: it
accepts no other, nor one of those it cannot read, as long as it has not run past a buffer.
`StaysInBounds`: it does not, while no frame is lost and the request is one it can read,
whatever was lost before. Otherwise it may, and does in this run. `RepliesIntact`: what the client takes for an
answer is one, whole, in order, none twice. `AnswersInTurn`: while nothing is lost or
late, the client has yielded all answers but the one being sent. `Answered`: if nothing is lost and the
bus is in time, every answer is yielded, whatever the exchange before it left in the
readers. Bounds: two requests, so that the second meets what a loss in the first left behind; two
faults; requests of two frames, of two full ones, with data that just fits the buffer and
with data that does not (`InputSize` of 4), without a destination, with two and with one too many
(`AddressSize` of 2, which the later bytes of all requests exceed when they are taken for a length), replies of two and three frames; `Polls`
of 1 and a counter that wraps at 4 (the relation that matters is that the counter
has values above the initial one); one retry and `MaxTransmissions` above the
longest reply; a `FifoDepth` of 1, as the order in the FIFO is `CanFifo`'s subject.
The checksum is two polynomials modulo primes near 2^16; that it has no collision among
what losses make of these requests is an assumption of `MCExchange` (`MCNoCollision`) that TLC evaluates. Deadlock is not looked for: the run ends when
the requests are used up. The board's reader cannot tell two copies of one request apart, nor a frame from the
same bytes in another request: the frames of the second may complete what arrived of the
first (`Whole`).

**flash_tool.** `VerifiedMeansStored`: the tool reports success or starts the
application only when all boards named hold the image, although it counts answers
whatever they answer and does not look at some of them. `SavedWhenDone`: on
success a board has saved its configuration, unless it was reset in between, its flash
failed when it saved, or an answer was passed over. `WrongClassKeepsConfig`: a board of another class keeps its
configuration, with the same exception. `CleanRunSucceeds`: without a fault the
tools do what they are asked, for at most as many boards as there are rounds of
pings; but an image with a page that begins inside the last sector always ends as not
verified. `OnlyVerificationHangs`: a tool ends, unless a reply to the
verification is lost or a board is named twice. A write is sent again without a limit
(`bootloader_flash.py` 197) and ends only because faults are finite here: a board that is
silent for good keeps the tool in it. Bounds: two boards and two pages, so that
boards differ and a page is followed by another; each retry limit at the smallest value
with a retry; three faults, enough for a lost answer, its late copy and a failing
flash operation. Deadlock is not looked for: the tools end.

### Fairness

* `ConfigStore`: none, as its properties are about what is so at every instant.
* `FlashWriter`: weak fairness of the steps of a command in
  progress. The interrupt handlers return, so they
  are executed unless the board is reset; failures may come every time.
* `CanFifo`: weak fairness of the interrupt handler and of the main loop, each
  when it can run. Interrupts come first: `MainRuns` is false while one is pending.
* `BootLoop`: weak fairness of start-up, of the loop and of the tick. Frames, faults,
  resets and power losses are never owed. The loop never blocks: a read
  returns at once when the buffer is empty, and sending has a bounded number of tries.
* `Exchange`: weak fairness of the client's sending, of reading a frame, of the loop
  of a reply, of the steps of the sending function, and of the controller, which starts and completes a
  transmission. Losses and failed transmissions are never owed; a bus on
  which every transmission fails is not assumed away, only bounded (`MaxFaults`).
* `FlashTool`: weak fairness of the tool, a loop in one process whose waits have a
  timeout, and of each board, whose loop `BootLoop` shows not to block. Nothing is owed
  of faults: a reply may be lost every time, up to `MaxFaults`.

## 4. What the code does otherwise than it says

Each of these runs checks one claim of the documentation and finds it violated.

* `save_ok_stored` — a save replies "ok" with the old configuration in flash,
  because a page is verified against its own CRC only (`command.c:264`).
* `keeps_reading` — a full ring buffer leaves the receive interrupt pending for
  ever, and the main loop never runs again (`can_interface.c:307`).
* `write_ok_stored` — a write that begins inside the last sector is dropped and
  reported as success (`flash_writer.c:232`).
* `erase_ok_erased` — when all retries of an erase fail, the counter has wrapped
  and success is replied (`command.c:87`).
* `refusals_reported` — a refused command is answered by 251 to 253 bytes of an
  older reply and status success (`bootloader.c:190`, `299`).
* `status_reported` — the status command can never report an error, since its
  own reception has overwritten it (`bootloader.c:282`).

Differences seen without a run of their own: README.markdown:18 promises that an invalid page
is replaced by the redundant one at start-up. No code does it until the next save.
`can_interface.h:40` says of `can_interface_send_message` "returns true if write was
successful"; the exception in `TrueMeansSent` is a call that returns true with its frame
not yet transmitted, and the next call aborts it (`can_interface.c:266`).

## 5. What is proved

All theorems hold for every value of the constants that satisfies the
assumption of the module (`ConstantsAssumption`, `SizesAssumption`,
`ParametersAssumption`, `TimesAssumption`, `SendAssumption`, `DatagramAssumption`,
`ExchangeAssumption`, `RequestsAssumption`, `FlashToolAssumption`), which TLC also evaluates. `ExchangeAssumption`
says that the two boards have different IDs and that the other one does not answer under the broadcast
ID 0, which the filters and the main loop (`bootloader.c` 252) would take for the client.

**ConfigStoreProofs.** `IInv` = `TypeOK`, `OnlyCandidatesStored`,
`ErasedMarkSound` and four conjuncts: a save works on a page only while the
other is valid or none was to begin with (`Redundant`), the second page is the other one
(`PlanKept`), what the page holds at each step of the save (`ProgressKept`), and
the configuration saved is among the candidates (`SavedIsCandidate`). Without
`ProgressKept` a read back could find anything. From it: `TypeCorrect`,
`StoredAreCandidates`, `ErasedMarksRight`, `ValidPageKept`, `ReplyRight`, and
`Refinement` (initial states map to initial states, every step to a step or a
stutter of `DurableConfig`).

**CanFifoProofs.** `CInv` = `TypeOK`, the two indices as counts of frames stored
and read modulo `N` (`Indices`), what each slot between them holds (`Stored`), how
far the copy in progress has come (`Reading`) and what was returned
(`Returned`). Full and empty can be told apart because the counts differ by less
than `N`; that is what the lemmas on remainders are for. From it `TypeCorrect`, `InOrder`,
`NotOverwritten`, and `Refinement`: the slots in use, read from `pop_index` on, are
the queue of `FrameQueue` (`RingInvariant`); the handler puts a frame in, the end of the copy
takes one out, all other steps stutter. `OrderKept` has an invariant of
its own, `OInv`: the controller's frames are in order and newer than all stored ones.

**FlashWriterProofs.** `FInv` = `TypeOK`, `BootloaderUntouched`, `MarkSound`,
that the target of a write is still blank where it is to be programmed
(`TargetBlank`), and what a write (`WriteInProgress`) and an erase
(`EraseInProgress`) in progress have done and still may do, and that nothing was
replied before the end (`Unanswered`). The sector layout enters by lemmas on
the driver's address arithmetic. From it `TypeCorrect`, `BootloaderSafe`,
`MarksRight`, `ErasesRight`, `WritesRight`.

**BootLoopProofs.** `BInv` = `TypeOK` and: the argument that starts the
application stands in RAM only on a grant (`StartGranted`) and no argument outlives
its reset (`ArgumentUsedUp`); outside the loop no timeout runs (`OutsideLoop`);
the bootloader timeout runs only while no command was heard and the board was
not told to stay (`Undecided`); and while a timeout runs and has not passed, the
difference of two readings of the clock is the time really passed
(`UptimeMeasured`, `SilenceMeasured`). The last two are what the overflow could
break: `ClockTick` shows that the difference modulo the range of the clock grows by one with every
tick. From it `TypeCorrect`, `StartsJustified`, `TimeoutsJustified`,
`GivenUpLate`.

**DatagramProofs.** The two codecs, for datagrams of any length. `Concatenation`
and `PartOf` say where the fields of an encoding are, `FramesOfBytes` that cutting
it gives eight bytes a frame and never an empty one. From these
`EncodedIsDecoded`, and `BeginningIsNotDecoded`: the client, which tries to decode
after every frame, cannot take a datagram too early, whatever the checksum.
For the boards, `HasRead(d, r, n)` says what each field of the reader holds after the first `n`
bytes of the datagram `r`, and `ReadByte` that one more byte keeps it so, through
all states and counters; `Wrote` and `OutputByte` are the same for the writer, whose frames
are those of `datagram_to_frames` (`NextFrame`). These are steps, and not inductions
over bytes: the invariants of `Exchange` carry them from frame to frame.
`ReaderAccepts` is about bytes of any origin: `Parsed(d, B, n)` says what each field of a reader
holds after the first `n` bytes `B`, `ParseByte` that one more byte keeps it so. A
reader in that state has run past the list of destinations exactly when `Overruns` says so of the
bytes, is about to read past the data exactly when `OverReads` does, and otherwise is complete and
valid exactly when `Accepts` says so: version, checksum, list of destinations and data are where the
lengths put them, with nothing missing, neither list is empty, and both fit.

**ExchangeProofs.** `SendInv` = shape of the mailboxes, their frames are not older than
what was transmitted (`InOrder`), at most one frame that could not be aborted and one
that waits for it (`AtMostOneWaits`), whose completion the bits of mailbox 0 tell
(`Completion`), and that the frame of the call is transmitted or still being sent (`Underway`). It is stated of the whole exchange: whatever frames the board sends
and however the client behaves. From it `MailboxFound`, `FramesInOrder`, `TrueIsTrue`.

`LinkInv` = `WholeAccepted` and: the reader is in one of the states it can leave behind
(`Shaped`), the frames on the way are those their tags say (`TagsTrue`), and when the frames
that arrived are the first ones of a request the board can read, the reader has read their bytes
and is not at the end (`ReaderInStep`), nor past a buffer. `WholeAccepted` alone is not inductive: it looks
at the last frame only. From it `WholeIsAccepted`, for every checksum of four bytes.

`SpliceInv` is what `OthersRefused` needs besides: the frames on the way and those the
reader has taken are in the order they were sent in (`SentInOrder`), those the
reader has taken are full (`FullFrames`), and the reader holds their bytes (`ReaderHolds`, by
`ParseByte`). From it, for every checksum of four bytes and without a further hypothesis, `VerdictsSaid`:
the frames of every verdict are a splice of the requests, and the verdict is what
`Accepts` says of their bytes, or else the board is `undefined` and `Overruns` or `OverReads` says so
of them. `OnlyWholeAccepted`, which claims nothing once the board is undefined, adds one hypothesis,
`NoCollision`: no splice of at most `MaxRequests` requests is accepted unless it begins with
a request the board can read. It names exactly the collisions that must not happen; four
bytes of checksum cannot exclude them for all requests there are, and for the requests of a
run TLC evaluates it.

`ReplyInStep` says that while `return_datagram` runs, its writer has put out the
frames counted by `transmission_count` and handed over the last of them. From it
`RepliesInFrames`: the frames of a reply are those the client would have made,
all of them unless a call failed or `MaxTransmissions` was reached. With both, and
`TypeInv` for the rest, `TypeCorrect`. The last two assume `RepliesFit`: the
checksum is of four bytes (the value of `crc32` is a `uint32_t`), and replies are bytes, fewer
than 2^24 of them (their length is a `uint8_t`).

`AnswersInv` says what is so while no frame was lost, tried again or late: a frame waits in
mailbox 0 alone, the counter of the polls does not run out, and the call is told of its
success (`InTime`); and of the reply being sent the client holds the bytes of all frames
transmitted, behind a start frame that dropped whatever was there, and has yielded all
replies before (`InTurn`, `Has`). That it decodes them with the last frame and not
before is `EncodedIsDecoded` and `BeginningIsNotDecoded`. From it `AnswersYielded`, for
every checksum of four bytes. It assumes `RepliesFit` and `RepliesShort`: no reply takes more than
`MaxTransmissions` frames: `reply_length` is a `uint8_t`, and 255 bytes take 34 frames of the up to 100 that
`return_datagram` sends.

**FlashToolProofs.** `IInv` = `TypeOK` and: on its way to a board no erase or write
follows a verification (`VerifyLast`), before the verification nothing of it is on the
bus (`NotYetVerified`), and an answer with the checksum of the image comes from a board
that holds it and has nothing waiting that would change it (`ChecksumTrue`,
`Settled`). The last is why late copies of writes do no harm: they stand before the
verification in the queue of the board. From it `TypeCorrect` and `SuccessIsTrue`, for any number of
boards, pages, retries and faults.

`ConfigInv` says what every answer, on its way or counted, tells of the board it comes
from (`RepliesTrue`: a success to an update means the board has the configuration, or has
lapsed, or an answer was passed over), that no command is sent, or still waits to be dealt with,
before what the stage before it was to achieve (`CommandsTrue`, `StageTrue`, both through
`Reached`), and what a board saves and a board of another class keeps (`BoardsTrue`).
The step from answers to boards is a count: as many answers as destinations, each
from another board, are answers of all of them (`Covered`). What was achieved remains so (`Stable`). From it
`ConfigSaved` and `ClassKept`.

**FlashToolCleanProofs.** `CleanInv`: as long as nothing went wrong, the boards are in
step with the tool. Of each board exactly one holds: the command waits to be dealt with, its
answer is on its way, or it was counted (`Exchange`); between two commands nothing is
on its way but pings (`Between`); the enumeration, which sends a ping per round and
reads one answer per round, has enough answers from its first ping for all its rounds
(`Enumeration`); and flash and configuration are as far as page and stage say (`Progress`).
Pages that are dropped stay blank while every erase and write of them succeeds, and then no board
answers that it holds the image (`Unverified`). From it `CleanSucceeds`.

Only model-checked: everything about liveness (`ReadUnlessStarved`,
`CommandEnds`, `LeavesBootloader`, `DatagramEnds`, `Answered`,
`OnlyVerificationHangs`), which needs fairness and is out of the prover's reach;
`StaysInBounds`, of which `WholeIsAccepted` proves the end of a datagram; and
`RepliesIntact` where frames were lost (where none was, `AnswersInTurn` says more). It
does not hold of every checksum and every set of replies: a reply that shares a later frame, byte for byte, with
an older one could complete what the client still holds of it, and without a start frame the client reads on
from the middle of a datagram. Unlike the board, whose requests are bounded by
`MaxRequests`, the client may put together frames of any number of replies, and a hypothesis
on all of them would be one no checksum satisfies. TLC finds it true of the replies and the
checksum of `MCExchange`.

## 6. Plan

Done, the most important first: `ConfigStore` with `DurableConfig`, `CanFifo` with
`FrameQueue`, `FlashWriter`, `BootLoop`, `CanSend`, `Datagram` with `Exchange`,
`FlashTool`, and the proofs of every safety property the runs check, but for
`RepliesIntact` and `StaysInBounds`. Left: the bounds of `command_crc_region` and `command_read_flash` against a
reference.

## 7. What is not modelled, and why

*Hardware and platforms.* Clocks and LEDs are set once and read by nothing
that matters here. Of the filters, `Exchange` has those of a board whose ID stays what it was at
start-up. The drivers of other microcontrollers differ in sector layout; the
boards that use them do not build against the present timer. `config_update` of the node
ID changes which frames pass; `BootLoop` lets any frame be for this board or for
another, which covers it.

*Commands that change nothing.* Reading flash and the CRC of a region.
`command_crc_region` refuses a region that ends exactly at the end of flash
(`command.c:227`); `FlashTool` takes an image that ends below it.

*Client.* The CAN adapters are I/O. The conversion of ELF files, reading
configurations, starting applications, `ping_board` and `get_status` and the
command lines send one command or none and keep nothing.

*Undefined behaviour.* What a board does after it wrote past `addr_buf` or read past
`data_buf` (`bootloader.c:166`, `can_datagram.c:56`, `205`): the models stop there, and
say when it comes to that.

*Data.* An image without a blank page: a page of 0xff bytes reads as written when it was
only erased, so that dropping it would not show. MessagePack decoding is abstracted to the values decoded, device classes to
equal or not, CRC-32 to a function of four bytes. The operators of `Datagram` that
stand for a loop over bytes (`Readings`, `Writings`) are recursive functions whose values are sets of
one reader or writer: TLC then evaluates each intermediate state once.

Limits that the models show and that are part of their properties: a datagram with an
empty list of destinations or of data is never accepted; more boards than rounds of
enumeration are reported offline; a board named twice makes a write wait for ever; the
answers to an update and a save of the configuration are not looked at.
