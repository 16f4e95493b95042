---------------------------- MODULE UploadSystem ----------------------------
(***************************************************************************)
(* One run after another of tools/can_uploader.py against a device that    *)
(* runs the bootloader or an application, over CAN.                        *)
(*                                                                         *)
(* rx and mailbox are the receive FIFO and the transmit mailboxes of the   *)
(* device, and wire holds the answers the bus has taken, in the order the  *)
(* host will read them.  The host sends one packet of its script at a time *)
(* and waits for an answer to the same command.  A frame or an answer may  *)
(* get lost, an answer may come after the host has given up on it, the     *)
(* device may lose power, and its board or CAN may fail, at most MaxFaults *)
(* times in all.                                                           *)
(***************************************************************************)
EXTENDS ExampleApp, CanIf

CONSTANTS
    Firmware,         \* the words of the padded image
    Options,          \* command lines the uploader is run with
    Retries,          \* --retries
    MaxFaults,        \* faults in a behaviour
    RunAgain          \* the uploader is run again when it has failed

VARIABLES
    wire,
    options,          \* of the run of the uploader
    item,             \* position in Script
    tries,            \* attempts transact has left for it
    waiting,          \* the host is in recv_response
    info,             \* what it took as the answer to each INFO page
    outcome,          \* of the run of the uploader
    faults            \* faults so far, of each kind

busVars  == <<rx, mailbox, wire>>
hostVars == <<options, item, tries, waiting, info, outcome>>
allVars  == <<vars, busVars, hostVars, faults>>

(* Answers that came late are counted for this run of the uploader, and    *)
(* for those before it.                                                    *)
FaultKinds == {"late", "past", "power", "other"}

(* mode is "RAW" under --raw-fast-data and "DATA" under --legacy-data;     *)
(* --no-erase and --no-crc clear erase and crc, --boot sets boot.          *)
CommandLine == [mode : {"FAST", "RAW", "DATA"}, erase : BOOLEAN, crc : BOOLEAN, boot : BOOLEAN]

ASSUME UploadAssumption ==
    /\ Firmware \in Images /\ Firmware # <<>>
    /\ Options # {} /\ Options \subseteq CommandLine
    /\ (\E o \in Options : o.mode # "DATA") => Len(Firmware) % 2 = 0
    /\ Retries \in Nat /\ MaxFaults \in Nat
    /\ RunAgain \in BOOLEAN

-----------------------------------------------------------------------------
(* The packets of upload(), in the order it sends them.                    *)

Plain(cmd)    == [cmd |-> cmd]
Info(page)    == [cmd |-> "INFO", page |-> page]
FrameWords(mode) == IF mode = "DATA" THEN 1 ELSE 2
FrameCount(mode) == Len(Firmware) \div FrameWords(mode)

DataFrame(mode, k) ==
    CASE mode = "FAST" -> [cmd |-> "FAST", dlc |-> 8, seq |-> (k - 1) % FastSeqMod,
                           word0 |-> Firmware[2 * k - 1], word1 |-> Firmware[2 * k]]
      [] mode = "RAW"  -> [cmd |-> "RAW", dlc |-> 8,
                           word0 |-> Firmware[2 * k - 1], word1 |-> Firmware[2 * k]]
      [] mode = "DATA" -> [cmd |-> "DATA", dlc |-> 8, sum_ok |-> TRUE,
                           seq |-> (k - 1) % LegacySeqMod, word |-> Firmware[k]]

OnlyIf(asked, pkt) == IF asked THEN <<pkt>> ELSE <<>>

ScriptOf(o) ==
    <<Plain("PING"), Plain("RESET"), Plain("PING")>>
    \o [k \in 1 .. 6 |-> Info(k - 1)]
    \o OnlyIf(o.erase, Plain("ERASE"))
    \o <<[cmd |-> "SET_ADDR", dlc |-> 5, addr |-> APP_START_ADDR, low_bits |-> 0]>>
    \o [k \in 1 .. FrameCount(o.mode) |-> DataFrame(o.mode, k)]
    \o OnlyIf(o.crc, [cmd |-> "CRC", dlc |-> 5, crc |-> Crc[Firmware]])
    \o OnlyIf(o.boot, Plain("BOOT"))

Scripts == [o \in Options |-> ScriptOf(o)]

ASSUME ScriptAssumption == \A o \in Options : Scripts[o] \in Seq(Packets)

Script    == Scripts[options]
Pages     == 0 .. 5
LastInfo  == 9
FirstData == IF options.erase THEN 12 ELSE 11

ResponseCmd(pkt) == IF pkt.cmd \in {"FAST", "RAW"} THEN "DATA" ELSE pkt.cmd

(* Mutant: raw frames are sent again as well.                              *)
RetryableRaw(pkt) == pkt.cmd \notin {"BOOT", "RESET"}

Retryable(pkt) == pkt.cmd \notin {"BOOT", "RESET", "RAW"}

-----------------------------------------------------------------------------
(* Faults, at most MaxFaults of them.                                      *)

FaultSum == faults["late"] + faults["past"] + faults["power"] + faults["other"]

Fault(kind) == FaultSum < MaxFaults /\ faults' = [faults EXCEPT ![kind] = @ + 1]

CountAnew == faults' = [faults EXCEPT !["past"] = @ + faults["late"], !["late"] = 0]

FaultOnlyIf(kind, happens) == IF happens THEN Fault(kind) ELSE UNCHANGED faults

-----------------------------------------------------------------------------
(* The device on the bus.  The filter of an application lets only the      *)
(* command identifier through.                                             *)

Listening(pkt) ==
    CASE pc \in {"reset", "hung"} -> FALSE
      [] pc \in {"app", "asked"}  -> pkt.cmd \notin {"FAST", "RAW"}
      [] OTHER -> can_started

Transmit == IF sent' = NoResponse THEN UNCHANGED mailbox ELSE can_if_send_response(sent')

DeviceReceive ==
    /\ rx # <<>>
    /\ LET pkt == Head(rx)
       IN  WaitReceive(pkt) \/ bootloader_handle_packet(pkt) \/ AppHandles(pkt)
    /\ rx' = Tail(rx)
    /\ Transmit
    /\ UNCHANGED <<wire, hostVars, faults>>

(* Leaving the bootloader or the application stops the CAN peripheral, 20  *)
(* ms after the last answer: an answer is only lost when the bus was not   *)
(* free all that time.                                                     *)
Leaves == pc' \in {"app", "reset", "hung"}

DeviceRuns ==
    /\ DeviceStep \/ app_request_bootloader_reset
    /\ IF Leaves THEN CanReset ELSE Transmit /\ UNCHANGED rx
    /\ FaultOnlyIf("other", \/ Leaves /\ Pending # {}
                            \/ pc' = "hung"
                            \/ pc = "reset" /\ ~can_started')
    /\ UNCHANGED <<wire, hostVars>>

BusSends ==
    /\ SendNext
    /\ wire' = Append(wire, NextSent)
    /\ UNCHANGED <<vars, rx, hostVars, faults>>

-----------------------------------------------------------------------------
(* The host.                                                               *)

Running == outcome = "running"
NoInfo  == [page \in Pages |-> NoResponse]

HostStarts(o) == options = o /\ item = 1 /\ tries = Retries + 1 /\ waiting = FALSE /\ info = NoInfo

HostStartsAgain(o) ==
    /\ options' = o
    /\ item' = 1
    /\ tries' = Retries + 1
    /\ waiting' = FALSE
    /\ info' = NoInfo

(* Answers that wait for the bus are on the wire by the time the host      *)
(* sends something new.  When it repeats a packet they may wait still, but *)
(* a fast data frame has the lower priority and comes after them.          *)
BusFreeFor(pkt) == tries = Retries + 1 \/ pkt.cmd = "FAST" => Pending = {}

(* transact: drain_rx drops what has arrived, which is any prefix of what  *)
(* is on the way, and the packet is sent.  After CMD_RESET the host sleeps *)
(* until the device is up again.                                           *)
HostSends(arrives) ==
    /\ Running /\ ~waiting
    /\ item = 3 => pc \notin {"asked", "resetting", "reset"}
    /\ BusFreeFor(Script[item])
    /\ \E k \in 0 .. Len(wire) : wire' = SubSeq(wire, k + 1, Len(wire))
    /\ rx' = IF arrives /\ Listening(Script[item]) THEN FifoAdd(Script[item]) ELSE rx
    /\ waiting' = TRUE
    /\ UNCHANGED <<vars, mailbox, options, item, tries, info, outcome>>

HostSend == HostSends(TRUE) /\ UNCHANGED faults

(* Mutant: once the pages are read an answer is taken for any command.     *)
AnswersAny(r) == item <= LastInfo => r.cmd = ResponseCmd(Script[item])

(* recv_response: an answer to the command that was sent.                  *)
Answers(r) == r.cmd = ResponseCmd(Script[item])

FromApp(r) == r = AppPingReply

(* upload() after the last INFO page.                                      *)
MayUpload(pages) ==
    /\ APP_START_ADDR >= pages[1].addr
    /\ APP_START_ADDR + Len(Firmware) <= pages[2].addr
    /\ options.erase \/ pages[4].state = "VALID"

Advance(next) ==
    /\ tries' = Retries + 1
    /\ waiting' = FALSE
    /\ UNCHANGED options
    /\ item' = IF next > Len(Script) THEN item ELSE next
    /\ outcome' = IF next > Len(Script) THEN "done" ELSE outcome

Fail == outcome' = "failed" /\ waiting' = FALSE /\ UNCHANGED <<options, item, tries, info>>

HostAccept ==
    /\ Running /\ waiting
    /\ wire # <<>>
    /\ wire' = Tail(wire)
    /\ LET r   == Head(wire)
           pkt == Script[item]
           got == [info EXCEPT ![pkt.page] = r]
       IN  /\ Answers(r) /\ r.type = "ACK"
           /\ \/ /\ pkt.cmd = "PING" /\ item = 1
                 /\ Advance(IF FromApp(r) THEN 2 ELSE 4)
                 /\ UNCHANGED info
              \/ /\ pkt.cmd = "PING" /\ item = 3
                 /\ IF FromApp(r) THEN Fail ELSE Advance(4) /\ UNCHANGED info
              \/ /\ pkt.cmd = "INFO" /\ item < LastInfo
                 /\ Advance(item + 1)
                 /\ info' = got
              \/ /\ pkt.cmd = "INFO" /\ item = LastInfo
                 /\ IF MayUpload(got) THEN Advance(item + 1) /\ info' = NoInfo ELSE Fail
              \/ /\ pkt.cmd \notin {"PING", "INFO"}
                 /\ Advance(item + 1)
                 /\ UNCHANGED info
    /\ UNCHANGED <<vars, rx, mailbox, faults>>

HostRejected ==
    /\ Running /\ waiting
    /\ wire # <<>> /\ Answers(Head(wire)) /\ Head(wire).type = "NACK"
    /\ wire' = Tail(wire)
    /\ Fail
    /\ UNCHANGED <<vars, rx, mailbox, faults>>

HostIgnores ==
    /\ Running /\ waiting
    /\ wire # <<>> /\ ~Answers(Head(wire))
    /\ wire' = Tail(wire)
    /\ UNCHANGED <<vars, rx, mailbox, hostVars, faults>>

(* Mutant: one attempt too many.                                           *)
GiveUpWaitingTwice ==
    /\ Running /\ waiting
    /\ IF Retryable(Script[item]) /\ tries > 0
       THEN /\ tries' = tries - 1
            /\ waiting' = FALSE
            /\ UNCHANGED <<options, item, info, outcome>>
       ELSE Fail
    /\ UNCHANGED <<vars, busVars>>

GiveUpWaiting ==
    /\ Running /\ waiting
    /\ IF Retryable(Script[item]) /\ tries > 1
       THEN /\ tries' = tries - 1
            /\ waiting' = FALSE
            /\ UNCHANGED <<options, item, info, outcome>>
       ELSE Fail
    /\ UNCHANGED <<vars, busVars>>

(* An answer to the packet may still come.                                 *)
Answering == rx # <<>> \/ Pending # {} \/ wire # <<>> \/ pc \in {"erase", "fast", "meta"}

(* The time is up and no answer can come any more.                         *)
HostTimeout == ~Answering /\ GiveUpWaiting /\ UNCHANGED faults

(* The device does nothing until it is powered up again.                   *)
Dead == pc = "hung" \/ (pc = "loop" /\ ~can_started)

(* After a failure the device is powered up again if it is dead, and the   *)
(* uploader is run again.                                                  *)
PowerCycle ==
    /\ outcome = "failed" /\ Dead
    /\ PowerLoss
    /\ CanReset
    /\ UNCHANGED <<wire, hostVars, faults>>

NextSession ==
    /\ outcome = "failed" /\ ~Dead
    /\ RunAgain
    /\ outcome' = "running"
    /\ \E o \in Options : HostStartsAgain(o)
    /\ CountAnew
    /\ UNCHANGED <<vars, busVars>>

-----------------------------------------------------------------------------
(* What goes wrong.                                                        *)

FrameLost == HostSends(FALSE) /\ Fault("other")

AnswerLost ==
    /\ wire # <<>>
    /\ wire' = Tail(wire)
    /\ Fault("other")
    /\ UNCHANGED <<vars, rx, mailbox, hostVars>>

(* The host gives up on an answer that is still to come.                   *)
AnswerLate == Answering /\ GiveUpWaiting /\ Fault("late")

PowerLost ==
    /\ PowerLoss
    /\ CanReset
    /\ Fault("power")
    /\ UNCHANGED <<wire, hostVars>>

-----------------------------------------------------------------------------
HostStep ==
    HostSend \/ HostAccept \/ HostRejected \/ HostIgnores \/ HostTimeout \/ NextSession

UploadInit ==
    /\ Init
    /\ rx = <<>> /\ mailbox = [m \in Mailboxes |-> <<>>] /\ wire = <<>>
    /\ \E o \in Options : HostStarts(o)
    /\ outcome = "running"
    /\ faults = [kind \in FaultKinds |-> 0]

UploadNext ==
    \/ DeviceReceive \/ DeviceRuns \/ BusSends \/ HostStep \/ PowerCycle
    \/ FrameLost \/ AnswerLost \/ AnswerLate \/ PowerLost

UploadSpec == UploadInit /\ [][UploadNext]_allVars

(* The device polls its FIFO and finishes its handlers, and the host sends,*)
(* reads and times out; faults need not happen.                            *)
FairUploadSpec ==
    /\ UploadSpec
    /\ WF_allVars(DeviceReceive) /\ WF_allVars(DeviceRuns) /\ WF_allVars(BusSends)
    /\ WF_allVars(HostStep) /\ WF_allVars(PowerCycle)

-----------------------------------------------------------------------------
(* Properties.                                                             *)

(* The number of data frames the host has been told are written, and the   *)
(* number that are.                                                        *)
Acknowledged == item - FirstData
Committed    == AppSize \div FrameWords(options.mode)
InData       == Running /\ item \in FirstData .. FirstData + FrameCount(options.mode)

UploadTypeOK ==
    /\ TypeOK
    /\ rx \in Seq(Packets) /\ Len(rx) <= FifoDepth
    /\ options \in Options
    /\ item \in 1 .. Len(Script)
    /\ tries \in 1 .. Retries + 1
    /\ waiting \in BOOLEAN
    /\ outcome \in {"running", "done", "failed"}
    /\ faults \in [FaultKinds -> Nat] /\ FaultSum <= MaxFaults

(* An upload that reports success leaves exactly the padded image, valid   *)
(* and bootable, whatever was lost, late or interrupted on the way         *)
(* (can_uploader.py:230-343 against bootloader.c:441-485).                 *)
DoneMeansInstalled ==
    outcome = "done" /\ options.crc => bootloader_is_valid_app /\ InstalledImage = Firmware

(* While an update is in progress what lies below the write address is a   *)
(* prefix of the image: frames are neither skipped, nor written twice, nor *)
(* out of order, although the host repeats them (bootloader.c:102-116).    *)
InProgressIsPrefix ==
    runtime_app_state = "UPDATE_IN_PROGRESS" /\ pc # "erase" =>
        Image(AppSize) = SubSeq(Firmware, 1, AppSize)

(* Every answer that came late in a run puts the host at most one frame    *)
(* ahead of the flash, and it never catches up in that run: transact takes *)
(* the surplus answer for the next frame.  The sequence number must tell   *)
(* apart as many frames, and one more (can_uploader.py:136-178).           *)
AheadByFaults ==
    InData /\ runtime_app_state = "UPDATE_IN_PROGRESS" =>
        Acknowledged <= Committed + (IF options.mode = "RAW" THEN 0 ELSE faults["late"])

(* What the host is told is written is written                             *)
(* (can_uploader.py:322-334, stage1_app_jump.md:427).                      *)
AcknowledgedIsCommitted ==
    InData /\ runtime_app_state = "UPDATE_IN_PROGRESS" => Acknowledged <= Committed

(* What the host takes as the answer for an INFO page is of that page      *)
(* (can_uploader.py:248-259).                                              *)
InfoFromItsPage ==
    \A page \in Pages : info[page] # NoResponse => info[page].page = page

(* Once the application has acknowledged CMD_RESET the host meets the      *)
(* bootloader, not the application or its update window, as long as power  *)
(* is not lost (app_test/main.c:166-178, bootloader.c:209-221).            *)
RequestReachesBootloader ==
    Running /\ item = 3 /\ faults["power"] = 0 /\ faults["late"] + faults["past"] <= 1 =>
        pc \notin {"app", "wait"}

(* Run again after each failure, the uploader succeeds once no more faults *)
(* occur: no fault leaves the device in a state an upload cannot repair.   *)
EventuallyInstalled == <>(outcome = "done")
=============================================================================
