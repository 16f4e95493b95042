# TLA+ verification of the STM32F446 CAN bootloader

This directory models, model-checks and proves properties of the CAN bootloader in this
repository: the bootloader itself (`src/bootloader.c`, `src/flash_if.c`, `src/boot_request.c`,
`src/can_if.c`, `src/main.c`), the applications it starts (`src/app_test/main.c` and
`examples/app_bootloader_integration.c`) and the host program that uploads firmware to it
(`tools/can_uploader.py`).

## 1. The system

| Component | State it keeps | Operations | Model |
|---|---|---|---|
| Flash interface (`flash_if.c`, `boot_config.h`) | the flash: application area, metadata in the last 16 bytes | region checks, erase of sectors 4-7, word programming with read-back, metadata | `FlashIf` |
| Bootloader (`bootloader.c`) | write address, two expected sequence numbers, last legacy word, last fast frame, `app_crc_valid`, `runtime_app_state` | start-up, update window, PING, INFO, ERASE, SET_ADDR, DATA, fast and raw frames, CRC, BOOT, RESET | `Bootloader` |
| Boot request (`boot_request.c`) | `RTC->BKP0R` | set, clear, test | `bkp0r` in `Bootloader` |
| Board set-up (`main.c`) | none; succeeds or stops for ever | start | `BoardFails` in `Bootloader` |
| CAN interface (`can_if.c`) | `can_started`, receive FIFO, transmit mailboxes | start with filters, poll, send | `CanIf`, `CanBus`; `can_started` in `Bootloader` |
| Test application (`app_test/main.c`) | none of its own | set-up, PING, RESET | `TestApp` |
| Integration example (`app_bootloader_integration.c`) | none of its own | PING, RESET in another order | `ExampleApp` |
| CRC-32 (`bootloader.c:59-84`) | none | over an area of the flash | `Crc32` |
| Uploader (`can_uploader.py`) | position in the upload, attempts left | send and wait, retry, give up, run again | `UploadSystem` |
| `integrate_platformio_app.py`, `test_can_bootloader.py`, linker script | - | - | not modelled, see section 8 |

**How they interact.** The device is single-threaded: it polls the CAN FIFO and handles one
packet at a time, with no callbacks and no interrupts that touch its state. Concurrency comes
from outside: the host, whose frames queue in a FIFO of three while a handler runs; loss of
power and reset, which may fall between any two flash operations; and the application, which
hands control back through a backup register. RAM is lost at each reset, so that the only
memory that counts is the flash, and everything the bootloader concludes about an application
it concludes from the flash alone.

**What is hard here.** Power lost in the middle of an erase or between the metadata words;
an operation of which the first half succeeded; flags in RAM that describe the flash and go
stale; three data commands that share one write address but have separate sequence numbers;
frames repeated by the host because an answer was late, and answers to the first copy taken
for an answer to the next frame; answers that overtake each other in the mailboxes; sequence
numbers that wrap after 16; a receive FIFO that overwrites its newest frame; an update window
of 500 ms that foreign traffic must not disturb; sixteen nodes on one bus, and filters that do
not look at the kind of a frame. `PROJECT.json` lists each of these hazards with its line and
the properties aimed at it.

**What makes it correct.**

- *Flash interface*: nothing outside the application area is written by data; metadata is
  written only at the end of CMD_CRC and erased only by CMD_ERASE.
- *Bootloader*: only an image whose CRC a host has confirmed runs; an acknowledgement means
  that what was asked for is in the flash; a refusal leaves the transfer where it was; the
  state reported over INFO is true.
- *CAN interface*: the packet handler gets the frames meant for this node, in order, as what
  they were meant; traffic of other nodes costs it nothing.
- *CRC*: it is the CRC of the host, and notices a word that is missing.
- *Boot request and update window*: a request reaches the bootloader; without a request a
  valid application starts.
- *Upload protocol*: success means installed; the flash holds a prefix of the image at all
  times; whatever was lost, running the uploader again succeeds.

## 2. Modules

- **`FlashIf`** - the flash. A word is the set of its one bits: erasing gives all bits,
  programming intersects, the read-back compares. Addresses count words. Erase and
  programming may report errors (`EraseMayFail`, `ProgramMayFail`), and then leave the words
  erased or not, programmed or not. `Crc` is a constant function on images.
- **`Bootloader`** (extends `FlashIf`) - the device. `pc` is what the CPU is executing; one
  action per packet handler, and one per flash operation for CMD_ERASE, fast frames and
  CMD_CRC, so that `PowerLoss` falls between them; inside an erase it leaves any subset of
  the sector's words erased, and inside a metadata word any subset of `TornBits` uncleared.
  `BoardFails` and `StartApp` are the set-up of the board, which may stop for ever. `sent` is
  the response queued by the last step. `verified` is a ghost: the images a host has confirmed
  by their CRC since CMD_ERASE last succeeded.
- **`BootloaderSafety`** - the inductive invariant `SafetyInv`, the invariant `DataInv`
  behind truthful acknowledgements, and the mapping to `SafeBoot`.
- **`SafeBoot`** - what the bootloader promises, without flash or packets: images are
  approved, an approved image may run, approvals change only while nothing runs.
- **`TestApp`** (extends `Bootloader`) - the packet handler of the test application;
  **`ExampleApp`** adds that of the example, in which CMD_RESET is answered a step before the
  boot request is stored. An image of `ExampleImages` runs as the example, any other as the
  test application.
- **`CanIf`** - identifiers of every node, filter banks, receive FIFO with overrun, and
  transmit mailboxes, of which the lowest is sent first.
- **`CanBus`** (extends `CanIf`) - the receiver of one device on a bus with several uploaders
  and devices: frames carry what their sender means, under identifiers that the uploader
  computes in its way and the filters of the device in theirs, and look-alikes (remote and
  extended frames) pass the filters too. `due` is a ghost: the places on the bus of the frames
  the packet handler should get.
- **`Crc32`** - the loop of `crc32_update` and `crc32_calculate` over two messages side by
  side, and the polynomial division that defines CRC-32.
- **`UploadSystem`** (extends `ExampleApp` and `CanIf`) - the composition: the uploader's
  script for each command line and `transact`, the FIFO, the mailboxes and the bus, and at
  most `MaxFaults` faults: a lost frame, a lost answer, an answer later than the time-out, a
  loss of power, a board or a CAN peripheral that fails.
- **`UploadSafety`** (extends `UploadSystem`) - `QuietUploadSpec`, and the inductive invariants
  behind what the upload promises: `SessionInv`, `FlowInv` and `PrefixInv` (section 5).
- **`FlashIfProofs`** - lemmas about the flash and the region check; **`BootloaderProofs`** -
  type correctness, `SafetyInv`, and that `Bootloader` implements `SafeBoot`;
  **`Crc32Proofs`** - what the CRC loop computes and notices; **`AnswerProofs`** - what acknowledgements and refusals promise; **`CanProofs`** -
  what reaches the packet handler; **`UploadProofs`** - the properties of the bootloader in the
  composed system; **`SessionProofs`** - the order of packets and answers, the request for the
  bootloader, and the end of an upload; **`TransferProofs`** - the frames, the uploader's
  position and the contents of the flash.
- **`MCBootloader`, `MCUploadSystem`, `MCCanBus`, `MCCrc32`** - instances for TLC.

Operators that a comment marks as *Mutant* are deliberate mistakes. No specification uses
them; each shows, put in the place of the definition that follows it, that some property
would notice it.

### How the state corresponds to the code

| Model | Code |
|---|---|
| `current_write_addr`, `expected_seq`, `expected_fast_seq`, `app_crc_valid`, `runtime_app_state` | the statics of the same names, `bootloader.c:25-38` |
| `last_legacy`, `last_fast` | `last_legacy_*`, `last_fast_*`; when not valid they have one fixed value, since the code then reads none of the others |
| `pc = "wait"`, `"loop"` | `bootloader_wait_update_request`, `bootloader_loop` |
| `pc = "erase"`, `"fast"`, `"meta"` | inside `flash_if_erase_app`, between the words of a frame, inside `flash_if_write_metadata` |
| `pc = "booting"`, `"resetting"` | the 20 ms after the answer to CMD_BOOT and CMD_RESET |
| `pc = "app"` | the application runs; in `Bootloader` it may do anything but write the flash |
| `pc = "asked"` | the example between its answer to CMD_RESET and `boot_request_set` |
| `pc = "hung"` | a `while (1)` after a set-up that failed |
| `rx`, `mailbox` | receive FIFO 0 and the three transmit mailboxes of the bxCAN |
| `wire` | answers on their way to the host, or in its receive queue |
| `item`, `tries`, `waiting` | where `upload()` is, the rest of `range(attempts)`, inside `recv_response` |
| `frame` | the packet being handled |

## 3. Runs

| Run | Question | Bounds | Distinct states |
|---|---|---|---|
| `Fast` | do fast uploads of two images, from any address, with resets and loss of power at every step, implement `SafeBoot`; is an acknowledged CRC sealed and an update in progress never bootable? | 11 packets, no flash errors | 212,276 |
| `Mixed` | with CMD_DATA, fast and raw frames interleaved, malformed packets among them, and writes that fail: is acknowledged data in the flash, does a refusal keep the position, is the metadata out of reach; and does the update window end in the application, whatever the traffic? | 31 packets, dead boards, no reset | 196,782 |
| `Faults` | with erases and writes that fail and loss of power inside them, and inside a metadata word: does only a confirmed image run? | 7 packets, all faults, one torn bit | 440,719 |
| `Upload` | fast and raw frames, `--no-erase`, `--no-crc`, three contents of the flash, both applications: does success mean installed, does the request of CMD_RESET reach the bootloader, and are lost, late and repeated frames harmless? | 4 frames, 2 retries, 2 faults | 1,714,813 |
| `Quiet` | with fast and CMD_DATA frames, which are sent again, and writes that fail in either word: do the inductive invariants of the proofs about an upload hold? | as `Upload`, `LegacySeqMod = 4`, writes may fail, after a run with a late answer the next only on a quiet bus | 1,537,290 |
| `UploadRecovers` | CMD_DATA, a FIFO that overruns and a mailbox that is full: does running the uploader again succeed in the end, and does success mean installed? | 3 words, 1 retry, 2 faults, dead boards, one place in the FIFO, one mailbox | 275,537 |
| `Can` | does the packet handler get what was meant for it, all that the FIFO has not lost, in order, undisturbed by other nodes? | 3 nodes, 2 numbers, 5 frames | 149,112 |
| `Crc` | do device and host compute one CRC, and does it notice a word that changed? | messages of up to 7 bytes | 18,505 |
| `StaleDuplicate`, `StaleCrcFailed`, `UploadAhead`, `UploadStaleInfo` | see below | as `Fast` and `Upload` | stop at a violation |

The component runs use one word of bootloader, four words of application in two sectors, the
second of which holds the metadata as sector 7 does, and three cell values: `A`, `B` inside
`A` (so that one can be programmed over the other but not back) and erased. Four words are
the least that hold two fast frames, a frame that straddles the two sectors, and a position
from which a frame would run into the metadata. Sequence numbers count modulo 2, so that they
wrap within one upload. `A` is the only stack pointer and `B` the only reset handler, so that an image can
have a right CRC and no valid vector table. Two images are confirmable, a short and a long
one, so that metadata of one meets words of the other.

The upload runs use an image of eight words (four fast frames) that fills the area exactly,
or of three words sent by CMD_DATA. `FastSeqMod = 3` with two faults keeps the ratio that
the code has: numbers wrap within the upload, and there are more numbers than late answers.
With `FastSeqMod = 2` TLC finds a violation of `InProgressIsPrefix`, so the bound is tight:
in the code it takes 15 late answers within one upload, and the CRC then refuses the image.
`Quiet` sends the eight words by CMD_DATA as well, and there needs a fourth number, since one
word tells fewer frames apart than two: that numbers and words suffice is the hypothesis
`FramesToldApart` of the proofs, and `MCUploadSystem` assumes it of each instance for as many
late answers as there may be faults. FIFO and mailboxes have their real depth of three, which
two faults cannot exhaust: the uploader has one packet on its way, and each fault adds one. That
is what `UploadRecovers` is for. With one place in the FIFO a packet that is sent again overwrites
another, and with one mailbox the answer to the first copy keeps the answer to the second from
being sent. In `Quiet` writes may fail: a frame is refused after its first word and sent again
when the refusal is lost. Raw frames, which are never repeated, are left to `Upload` and to the proofs.
Two faults are the least that make the host
a frame ahead and then lose one, and with a second command line after a failure they also
leave frames of a first run for the next. The device may start blank, with the firmware
already there, or with an older image, which runs the example's handler.

`Can` is about node 1 with a neighbour on each side of its ranges in use (0, and 15 for the
upper end) and itself, and data frames 15 and 16, around the wrap. Five frames are the least
that fill the FIFO, overrun it and show what came of it. In `Crc`, three bytes of every
combination of no, one and all bits, and two longer messages in which a burst of four bytes
has room to move, with bytes that have only their first or their last bit; the check value of
CRC-32 is an assumption of `MCCrc32`, so that the reference definition is the right CRC.

`CHECK_DEADLOCK FALSE` is said where the system may stop: the upload runs end when the
uploader is done, in `Mixed` a device whose CAN peripheral did not start waits for ever, and
`Can` and `Crc` end with their bounds.

### Disagreements between code and documentation

Four runs expect a violation; each checks something that a document or a message promises.

- `StaleDuplicate`: after an erase that failed, a repeated frame is acknowledged although its
  words are erased (`bootloader.c:363-365`, against `docs/stage1_app_jump.md:427`).
- `StaleCrcFailed`: `CRC_FAILED` is reported over an application that is valid and that
  CMD_BOOT starts (`bootloader.c:189`, against `tools/can_uploader.py:292`).
- `UploadAhead`: after a late answer the uploader counts frames as written one ahead of the
  flash for the rest of the upload (`can_uploader.py:148`, against `stage1_app_jump.md:427`).
  `AheadByFaults` in the run `Upload` says how far ahead it can get, and that raw frames do
  not have the problem.
- `UploadStaleInfo`: after a late answer one INFO page is taken for the next
  (`can_uploader.py:148`, against `stage1_app_jump.md:387`).

A fifth point is a matter of wording rather than of behaviour: `stage1_app_jump.md:151` says
that byte 2 of the application's answer to CMD_RESET tells that the request was written. The
test application reads it back; the example answers a constant 1 before it writes. The request
is then lost if power is lost in between, and kept otherwise (`RequestReachesBootloader`).

None of them lets a wrong image run: `RunsVerifiedImage` and `DoneMeansInstalled` hold in the
same models.

## 4. Fairness

`FairSpec` gives weak fairness to `DeviceStep`, what the CPU does without waiting for anybody:
`bootloader_main` runs to its loop, the update window ends after 500 ms because it compares
`HAL_GetTick` and nothing in it blocks, flash operations end. Nothing is assumed about packets.
`FairUploadSpec` adds that the device polls its FIFO (`bootloader_loop`, and the loop of the
application, do nothing else), that the bus sends what waits in a mailbox (automatic
retransmission is on), and that the host goes on: it sends, reads what has arrived, times out,
and is run again after a failure. A device that is dead - its board stopped, or its CAN never
started - is powered up again (`PowerCycle`) before the uploader is; the code offers no other
way out. Faults are never fair. `HostTimeout` waits until neither an answer nor a running
flash operation is outstanding; giving up earlier is the fault `AnswerLate`.
`EventuallyInstalled` therefore says: after the last fault, success.

## 5. What is proved

TLAPS checks the following for every layout, number of sectors, set of packets, sequence
modulus and combination of faults that the assumptions of the modules allow.

| Theorem | Says | Besides the common assumptions |
|---|---|---|
| `TypeCorrect` | `TypeOK`: among others, the write address stays in the application area | |
| `JumpIsValid` | `JumpOnlyValid` | `CrcIdealised` |
| `SafetyInvariant` | `SafetyInv` | `CrcIdealised` |
| `RunsOnlyVerified` | `RunsVerifiedImage` | `CrcIdealised` |
| `Refinement` | `ImplementsSafeBoot`: initial states map to initial states, every step to a step or a stutter | `CrcIdealised` |
| `CrcAckIsTruthful` | `CrcAckTruthful` | `CrcIdealised` |
| `DataInvariant` | `DataInv` | no erase reports an error |
| `DataAckIsTruthful` | `DataAckTruthful` | no erase reports an error |
| `RefusalMovesNothing` | `NackKeepsPosition` | |
| `MetadataIsGuarded` | `MetadataOnlyByEraseAndCrc` | |
| `InProgressIsTrue` | `InProgressNotBootable` | programming reports no error of its own |
| `RegionCheckIsExact` | on words that wrap, the region check accepts exactly the ranges inside the area | the area ends below the wrap |
| `HostAgrees` | `HostAndDeviceAgree`, for messages of every length | |
| `BurstsAreDetected` | `BurstDetected`, for messages and bursts of up to four bytes at every place | |
| `OnlyOwnFrames` | `HandledAsMeant` | |
| `FramesArriveAsSent` | `HandledAsSent` | |
| `OthersAreFiltered` | `OthersDoNotDisturb` | |
| `SystemTypeCorrect` | `UploadTypeOK`, of the composed system | `CrcIdealised` |
| `SystemRunsOnlyVerified` | `RunsVerifiedImage`, of the composed system | `CrcIdealised` |
| `SystemImplementsSafeBoot` | `ImplementsSafeBoot`, of the composed system | `CrcIdealised` |
| `SessionInvariant` | `SessionInv` | `CrcIdealised`, quiet restarts |
| `RequestIsMet` | `RequestReachesBootloader`, and the same for any number of late answers | `CrcIdealised`, quiet restarts |
| `SuccessIsInstalled` | `DoneMeansInstalled` | `CrcIdealised`, quiet restarts, `FirmwareBoots` |
| `FlowInvariant` | `FlowInv` | `CrcIdealised`, quiet restarts, `[]FramesToldApart` |
| `AheadOnlyByFaults` | `AheadByFaults` | as `FlowInvariant` |
| `PrefixInvariant` | `PrefixInv` | as `FlowInvariant` |
| `InProgressMeansPrefix` | `InProgressIsPrefix` | as `FlowInvariant`, and no erase reports an error |
| `PromptSuccess` | `DoneMeansInstalled` in `UploadSpec`, until an answer is late | `CrcIdealised`, `FirmwareBoots` |
| `PromptPages` | `InfoFromItsPage` in `UploadSpec`, until an answer is late | `CrcIdealised` |
| `PromptFrames` | `AcknowledgedIsCommitted` and, if no erase reports an error, `InProgressIsPrefix` in `UploadSpec`, until an answer is late | `CrcIdealised` |

*The argument.* `JumpOnlyValid` and `RunsVerifiedImage` are not inductive. What makes them so
is `SafetyInv`:

- `SealInv`: if the state word says VALID, any image whose CRC is in the CRC word has been
  confirmed. It needs no knowledge of size or magic. The erase of the last sector destroys
  the state word before `verified` is emptied, and a partial erase can only turn the state or
  the CRC word into an erased one, which is neither VALID nor a CRC. A torn metadata word is
  the state word, and then the CRC was confirmed, or comes before it and leaves a CRC word
  that `CrcIdealised` tells from any CRC but the one under way.
- `MetaInv`: while metadata is written, the image below the write address has been confirmed,
  and the words already written hold what they should. It is needed at the last of the four
  steps, where the state word turns VALID: the CRC word must be the one just confirmed, also
  when it was programmed over the CRC of another image.
- `JumpOnlyValid`: in the window, before the jump and in the application nothing writes the
  flash, so that what was valid stays valid.

`Refinement` adds to it that no image is `NoImage`, so that starting and leaving an application
are visible steps of `SafeBoot`. `CrcAckIsTruthful` uses `MetaInv` at the last metadata word:
the three words before it hold what they should, so the image is found valid again.

`DataAckTruthful` rests on `DataInv`: the packet a duplicate is compared with lies in the flash
below the write address (`LastLegacyInv`, `LastFastInv`), and so does the first word of half a
frame (`HalfFrameInv`). Every command that moves the address or erases forgets the record,
except an erase that fails: the precondition is needed, as the run `StaleDuplicate` shows.

`InProgressNotBootable` rests on `InProgressInv`: the state word is not VALID while an update is
reported in progress. Its precondition is needed as well: when the HAL reports an error after
it has programmed the state word, CMD_CRC answers METADATA_WRITE and `runtime_app_state` stays
`UPDATE_IN_PROGRESS` over an image that CMD_BOOT starts (`bootloader.c:467-471`).

`OnlyOwnFrames` and `FramesArriveAsSent` rest on `BusInv`: what is in the FIFO passed the filters,
the frames handled, those in the FIFO and those to come are in the order of the bus (`PathInv`),
and the frames that are due are those handled and those in the FIFO (`DueInv`). The identifier
arithmetic is proved for all sixteen node numbers and all sequence numbers, as the uploader and
as the device do it.

The composed system is proved through one lemma (`StepOfDevice`): on the variables of
`Bootloader` each of its steps is a step of `Bootloader`, one of an application, or none,
because only packets of the script reach the FIFO. The applications' steps are those of
`AppStepEffect`: they touch neither flash nor approvals and only leave. The invariants and the
refinement then carry over without being proved again.

The properties of the upload need invariants of their own, about what is on its way between
uploader and device. They are invariants of `QuietUploadSpec`, and of `UploadSpec` until an
answer is late.

- `SessionInv` holds from the first packet on. `OrderInv` orders everything in flight by the
  stages of the script (PING and RESET, INFO, ERASE, SET_ADDR, data, CRC, BOOT): the packets in
  the FIFO and the one being handled are in order, none is of a stage before the last command
  that was answered, and no answer is of a later stage than a packet still queued. It holds
  although answers overtake each other in the mailboxes, because a stage begins only when the
  one before is answered. `RequestInv` follows the request of CMD_RESET from the answer through
  the backup register to the bootloader. `DoneInv` says that from the acknowledgement of CMD_CRC
  on the image is installed and only CMD_CRC and CMD_BOOT are queued: a repeated CMD_CRC programs
  the same words again, and changes nothing. `InTurn` adds that until an answer is late there is
  one packet or one answer on its way at most, so that nothing is left over when a run gives up,
  and that each INFO page is the one that was asked for.
- `FlowInv` is about the data stage. `Positioned` and `Remembered`: write address, expected
  number and remembered frame are those of the last frame written, `Committed`. `Pipeline`: the
  frames in the FIFO lie in a window that begins there and ends at the frame the uploader is at,
  in order. `Surplus` counts: frames the uploader was told of, answers on their way, answers that
  repeated frames in the FIFO will still get, and the one a repetition still to be sent will
  get, together are at most the frames written and the answers that came late. Each repetition
  is paid for by an answer that was lost or late, and a raw frame is never repeated.
  `AheadByFaults` is the inequality without the answers still to come. That a frame of the window
  is never taken for another is `FramesToldApart`, a condition on the state: no run has had so
  many late answers that numbers and words no longer tell apart the frames that can be on their
  way together. Lost frames and answers, losses of power and the number of runs do not count.
  For CMD_FAST_DATA it holds of any image up to fourteen late answers in one run, for CMD_DATA
  up to 65534; it is true of every state until an answer is late (`PromptFramesApart`), and of
  every raw upload.
- `PrefixInv` says of the flash what `Positioned` says of the address. The erase that fails is
  excluded outside a transfer only: it leaves the address of the transfer before it over words
  that are erased. CMD_SET_ADDR, which every upload sends, repairs that, so within a transfer
  `PrefixInv` needs no such condition.

The two theorems about the CRC are for every message and every `BurstBytes`. `BurstsAreDetected`
rests on `BurstInv`: the difference of the two registers goes its own way, whatever the messages
are (`UpdateOfXor`), and as the polynomial has its top bit, a round can be undone
(`RoundUndone`). From the first change on the difference has a bit beyond those that the rest
of the burst could put right, and after the burst it cannot vanish. `HostAgrees` rests on
`AgreeInv`: one round of the loop is one step of the division, with the bits reflected
(`DivisionIsRound`), so that the register of the device stands where the division of the whole
message does after as many bits. That the recursive
functions of the model exist at all takes induction; the library's theorems for it have an
operator as a parameter, and `LeastNumber`, the least element of a set of numbers, takes their
place.

*Quiet restarts.* `QuietUploadSpec` adds to `UploadSpec` that after a run in which an answer was
late, the next run of the uploader starts when nothing of the failed one is on its way any more. The run before
has waited for its time-out, a person or a script starts the next, and that opens the bus anew
(`can_uploader.py:111`), so that it reads none of the old answers. What the condition leaves out
is a run started, after one with a late answer, while the device still works on a packet of that
one. Late answers are counted for this run and for those before (`faults["late"]`,
`faults["past"]`). A run without one leaves nothing over when it fails, and the condition says
nothing of the next: the theorems `Prompt...` hold for every behaviour of `UploadSpec`, and they
show that what `UploadAhead` and `UploadStaleInfo` refute is promised as long as every answer
comes in time.

The condition cannot be dropped altogether. If every run fails one packet further on than the one
before and the next starts at once, the answers left over carry the next run through its script,
until a run takes the acknowledgement of an old CMD_CRC while its own still waits in the FIFO.
TLC finds this, for an image of one frame, with eleven late answers: as many as its script has
packets once the application has been left. The run `Upload` checks the same properties without
the condition, with two faults.

*Assumptions.* The layout (`LayoutAssumption`: at least two sectors, the metadata in the last),
the packet types, for the composed system the options and scripts, and `CrcIdealised`: no CRC
of an image lies, bit for bit, inside the CRC of another, also when the bits that may tear are
left out, and none is `0xFFFFFFFF`. CRC-32 does not have this property; it says that collisions
are out of scope, and it is used only where a CRC is compared with one that another image left.
An image that agrees with an unconfirmed one in its CRC is beyond the code's own notion of a
valid application. TLC evaluates every assumption on the instances.

## 6. What is only model-checked

- `UnattendedBoot` and `EventuallyInstalled`, which depend on fairness: liveness and ENABLED are
  out of the prover's reach.
- `RequestReachesBootloader`, `DoneMeansInstalled`, `InProgressIsPrefix` and `AheadByFaults` when
  a run of the uploader in which an answer was late fails, and the next starts while packets or
  answers of it are still on their way (runs `Upload` and `UploadRecovers`).

## 7. Abstractions

- A packet carries what the handlers test: command, length where it is checked, whether the
  checksum is right, sequence number, words. Response bytes that nobody reads are left out.
- A size the metadata cannot hold reads as one that is too large; the stack and reset-handler
  checks are two sets of cell values (`ValidStack`, `ValidReset`).
- A data word is programmed or not when power is lost; a metadata word may be torn, in the
  bits of `TornBits`; an erase reaches any subset of the words of a sector, whole words only.
- The device has power again, and its start-up is over, before the host's time-out of two
  seconds ends or within a later attempt.
- A host that sends a new packet finds the bus free of answers, and so does one that repeats a
  fast frame, which has the lower priority (`BusFreeFor`): an answer that waits is sent within
  the two seconds that `AnswerLate` gives up on.
- Leaving the bootloader or the application drops answers that still wait in a mailbox; since
  20 ms pass before it, this counts as a fault.
- In `UploadSystem` the traffic of other nodes is left out: `Can` shows that it does not reach
  the FIFO, and look-alike frames, which do, cost the uploader a frame as `FrameLost` does.
- The uploader writes at the start of the region: with `--address` elsewhere it warns, and
  CMD_CRC, which covers the region from its start, then refuses what it wrote.
- `RequestReachesBootloader` allows one late answer: with two a run that follows a failed one at
  once takes an old answer of the application for a new one, and its CMD_RESET goes to the
  bootloader. On a quiet bus this cannot happen (`RequestIsMet`).

## 8. Not modelled, and plan

Clock, pin and interrupt set-up beyond whether it succeeds (`main.c`, `stm32f4xx_hal_msp.c`,
`stm32f4xx_it.c`), the linker script and the build files are static. `integrate_platformio_app.py`
rewrites text files of another project once and has no state of this protocol;
`test_can_bootloader.py` is a test driver whose expectations are among the properties. The LED of
the test application and everything that is only printed are left out.

What a further state of the project could add:

1. The proofs of section 5 without the condition of quiet restarts, for fewer late answers than
   the script has packets: packets of several runs are then queued together, and `OrderInv` has
   to order them by run as well as by stage.
2. Data words torn by a loss of power, for uploads over an area that was not erased.
