---------------------------- MODULE UploadSafety ----------------------------
(***************************************************************************)
(* The inductive invariants behind the safety of UploadSystem: what may be *)
(* on its way between the uploader and the device, and what it says about  *)
(* where each of them is.                                                  *)
(***************************************************************************)
EXTENDS UploadSystem

(* The uploader is a process: a new run of it opens the bus anew, after    *)
(* the one before has failed.  If an answer of that one was late, what was *)
(* on its way has arrived by then; if none was, nothing is (InTurn).       *)
StartsQuietly == NextSession /\ faults["late"] > 0 => ~Answering

NeverLate == faults["late"] = 0 /\ faults["past"] = 0

QuietUploadSpec == UploadInit /\ [][UploadNext /\ StartsQuietly]_allVars

-----------------------------------------------------------------------------
(* What is on its way.                                                     *)

Busy   == pc \in {"erase", "fast", "meta"}
Sent   == {Script[j] : j \in 1 .. item}
InFifo == {rx[i] : i \in DOMAIN rx}
Queued == InFifo \cup (IF Busy THEN {frame} ELSE {})
Coming == {wire[i] : i \in DOMAIN wire} \cup {mailbox[m][1] : m \in Pending}

Commands == {"PING", "RESET", "INFO", "ERASE", "SET_ADDR", "DATA", "CRC", "BOOT",
             "UNKNOWN"}

Errors == {"INVALID_LENGTH", "INVALID_ADDRESS", "CHECKSUM", "SEQUENCE", "FLASH_WRITE",
           "ERASE_FAILED", "CRC_MISMATCH", "METADATA_WRITE", "APP_INVALID", "UNKNOWN_CMD"}

Responses == [type : {"ACK"}, cmd : Commands]
             \cup [type : {"NACK"}, cmd : Commands, err : Errors]
             \cup [type : {"ACK"}, cmd : {"INFO"}, page : 0 .. 255, addr : Nat,
                   state : AppStates \cup {"METADATA_ERASED"}, word : Word]
             \cup {AppPingReply, AppResetReply}

(* The commands of upload() in the order it sends them, the packets of one *)
(* loop together.                                                          *)
Stage(cmd) ==
    CASE cmd \in {"PING", "RESET"}       -> 1
      [] cmd = "INFO"                    -> 2
      [] cmd = "ERASE"                   -> 3
      [] cmd = "SET_ADDR"                -> 4
      [] cmd \in {"DATA", "FAST", "RAW"} -> 5
      [] cmd = "CRC"                     -> 6
      [] OTHER                           -> 7

(* The last command that was answered.                                     *)
Answered ==
    IF outcome = "done" THEN Stage(Script[item].cmd)
    ELSE IF item = 1 THEN 1 ELSE Stage(Script[item - 1].cmd)

BusTypeOK ==
    /\ wire \in Seq(Responses)
    /\ mailbox \in [Mailboxes -> Seq(Responses)]
    /\ \A m \in Mailboxes : Len(mailbox[m]) <= 1

(* Packets and answers keep the order of the script: an answer is never    *)
(* overtaken by a packet of an earlier stage, although answers overtake    *)
(* each other in the mailboxes (can_uploader.py:136-178, can_if.c:69-90).  *)
OrderInv ==
    /\ Queued \subseteq Sent
    /\ \A i, j \in DOMAIN rx : i < j => Stage(rx[i].cmd) <= Stage(rx[j].cmd)
    /\ Busy => \A p \in InFifo : Stage(frame.cmd) <= Stage(p.cmd)
    /\ \A p \in Queued : Answered <= Stage(p.cmd)
    /\ \A r \in Coming : /\ \E p \in Sent : r.cmd = ResponseCmd(p)
                         /\ \A p \in Queued : Stage(r.cmd) <= Stage(p.cmd)
    /\ pc = "erase" => frame.cmd = "ERASE"
    /\ tries <= Retries => Retryable(Script[item])

(* Until an answer is late, each packet is answered, or lost with its      *)
(* answer, before the host goes on, and each INFO page is what was asked.  *)
OneAtATime ==
    /\ Answering => Running /\ waiting
    /\ Len(rx) <= 1 /\ Len(wire) <= 1 /\ \A m, n \in Pending : m = n
    /\ rx # <<>>    => Pending = {} /\ wire = <<>> /\ ~Busy
    /\ Pending # {} => wire = <<>> /\ ~Busy
    /\ wire # <<>>  => ~Busy

PagesMatch ==
    /\ info \in [Pages -> Responses \cup {NoResponse}]
    /\ InfoFromItsPage
    /\ Queued \subseteq {Script[item]}
    /\ \A r \in Coming : r.cmd = "INFO" /\ r.type = "ACK" => r.page = Script[item].page

InTurn == faults["late"] = 0 => OneAtATime /\ PagesMatch

-----------------------------------------------------------------------------
(* The way from the application to the bootloader.                         *)

Requested ==
    \/ pc \in {"asked", "loop", "hung"}
    \/ pc \in {"resetting", "reset"} /\ bkp0r

NoReset == \A p \in InFifo : p.cmd # "RESET"

RequestInv ==
    Running /\ faults["power"] = 0 =>
        /\ item = 1 /\ AppPingReply \in Coming => pc = "app"
        /\ item = 2 =>
             \/ /\ pc = "app"
                /\ \A r \in Coming : r.cmd # "RESET"
                /\ \A i \in DOMAIN rx : rx[i].cmd = "RESET" => waiting /\ i = Len(rx)
             \/ Requested /\ NoReset /\ waiting
        /\ item = 3 => Requested /\ NoReset

-----------------------------------------------------------------------------
(* The end of an upload.                                                   *)

Settled ==
    /\ bootloader_is_valid_metadata
    /\ InstalledImage = Firmware
    /\ \A p \in Queued : p.cmd \in {"CRC", "BOOT"}

DoneInv ==
    \/ Ack("CRC") \in Coming
    \/ options.crc /\ Running /\ Script[item].cmd = "BOOT"
    \/ options.crc /\ outcome = "done"
    => Settled

(* What is on its way between uploader and device, in which order, and     *)
(* what it means (can_uploader.py:136-178, 230-343, can_if.c:69-115,       *)
(* bootloader.c:207-225, 441-485).                                         *)
SessionInv ==
    /\ CrcAckTruthful
    /\ BusTypeOK
    /\ OrderInv
    /\ InTurn
    /\ RequestInv
    /\ DoneInv

-----------------------------------------------------------------------------
(* The transfer of the image.  Told is the number of frames whose answers  *)
(* the host has taken, Top the number of the last frame it has sent.       *)

SeqMod(mode) == IF mode = "FAST" THEN FastSeqMod ELSE LegacySeqMod
Frames    == FrameCount(options.mode)
Frame(k)  == DataFrame(options.mode, k)
IsData(p) == p.cmd \in {"DATA", "FAST", "RAW"}
Told      == IF Acknowledged < Frames THEN Acknowledged ELSE Frames
Top       == IF Told = Frames \/ (Running /\ ~waiting /\ tries = Retries + 1)
             THEN Told ELSE Told + 1

(* Sequence numbers and words tell any two frames apart that can be on     *)
(* their way together, after as many late answers in a run.  With the four *)
(* bits that a fast frame has for its number this is so for any image when *)
(* fewer than fifteen answers of a run are late, and for CMD_DATA, with    *)
(* sixteen bits, when fewer than 65535 are.                                *)
ToldApart(o, late) ==
    o.mode # "RAW" =>
        /\ late < SeqMod(o.mode)
        /\ \A j, k \in 1 .. FrameCount(o.mode) :
              j < k /\ k - j <= late + 1 => DataFrame(o.mode, j) # DataFrame(o.mode, k)

FramesToldApart == ToldApart(options, faults["late"])

(* The firmware has a vector table the bootloader accepts.                 *)
FirmwareBoots == Len(Firmware) >= 2 /\ Firmware[1] \in ValidStack /\ Firmware[2] \in ValidReset

(* Nothing is written and nothing remembered.                              *)
Fresh ==
    /\ current_write_addr = APP_START_ADDR
    /\ expected_seq = 0
    /\ expected_fast_seq = 0
    /\ ~last_legacy.valid
    /\ ~last_fast.valid

FreshInv == item = FirstData - 1 /\ Ack("SET_ADDR") \in Coming => Fresh

(* What is written is a prefix of the image.  An erase that fails leaves   *)
(* the write address of the transfer before it: that one is given up, and  *)
(* the next begins at an address of its own.                               *)
Content ==
    /\ AppSize <= Len(Firmware)
    /\ \A i \in 1 .. AppSize : flash[APP_START_ADDR + i - 1] = Firmware[i]

PrefixInv ==
    /\ runtime_app_state = "UPDATE_IN_PROGRESS" /\ pc # "erase"
    /\ ~EraseMayFail \/ item >= FirstData
    => /\ Content
       /\ pc = "fast" => flash[current_write_addr] = frame.word0

(* The device expects the frame after the last it has written, and         *)
(* remembers that one.                                                     *)
Positioned ==
    /\ Committed \in 0 .. Top
    /\ current_write_addr = APP_START_ADDR + FrameWords(options.mode) * Committed
    /\ options.mode = "FAST" => expected_fast_seq = Committed % FastSeqMod
    /\ options.mode = "DATA" => expected_seq = Committed % LegacySeqMod

Remembered ==
    /\ options.mode = "FAST" /\ last_fast.valid =>
         /\ Committed >= 1
         /\ last_fast.seq = Frame(Committed).seq
         /\ last_fast.word0 = Frame(Committed).word0
         /\ last_fast.word1 = Frame(Committed).word1
    /\ options.mode = "DATA" /\ last_legacy.valid =>
         /\ Committed >= 1
         /\ last_legacy.seq = Frame(Committed).seq
         /\ last_legacy.word = Frame(Committed).word

(* The frames on their way follow the last one that was written, in order. *)
Window == {k \in 1 .. Frames : Committed <= k /\ k <= Told + 1}

FramesInWindow ==
    /\ \A p \in InFifo : IsData(p) => \E k \in Window : k <= Top /\ p = Frame(k)
    /\ \A i, j \in DOMAIN rx : \A k, l \in Window :
          i < j /\ rx[i] = Frame(k) /\ rx[j] = Frame(l) => k <= l
    /\ pc = "fast" =>
         /\ Committed + 1 <= Top
         /\ frame = Frame(Committed + 1)
         /\ \A p \in InFifo : Committed >= 1 => p # Frame(Committed)

(* A raw frame is sent once, and only when all before it are written.      *)
RawFrames ==
    (\E p \in Queued : IsData(p)) =>
        /\ Told < Frames
        /\ Running => waiting
        /\ Committed = Told
        /\ \A p \in Queued : IsData(p) => p = Frame(Committed + 1)
        /\ \A i \in DOMAIN rx : IsData(rx[i]) => i = Len(rx) /\ pc # "fast"

(* Answers the host may take for the answer to a frame that is not         *)
(* written yet: those on their way, those the packets in the FIFO that     *)
(* repeat a frame will get, and the one to a repetition still to be sent.  *)
Repeats ==
    {i \in DOMAIN rx :
        /\ options.mode # "RAW"
        /\ IsData(rx[i])
        /\ \/ Committed >= 1 /\ rx[i] = Frame(Committed)
           \/ pc = "fast" /\ rx[i] = frame
           \/ \E j \in 1 .. i - 1 : rx[j] = rx[i]}
WireAcks    == {i \in DOMAIN wire : wire[i] = Ack("DATA")}
MailboxAcks == {m \in Pending : mailbox[m][1] = Ack("DATA")}
Acks        == Cardinality(WireAcks) + Cardinality(MailboxAcks)
RepeatsNext ==
    /\ Running /\ ~waiting /\ tries <= Retries
    /\ Told < Frames
    /\ Committed = Told + 1 \/ Frame(Told + 1) \in Queued

Late == IF options.mode = "RAW" THEN 0 ELSE faults["late"]

Surplus ==
    Told + Cardinality(Repeats) + Acks + (IF RepeatsNext THEN 1 ELSE 0) <= Committed + Late

(* An address that is still to come is that of an empty image.             *)
SetAddrFirst == (\E p \in InFifo : p.cmd = "SET_ADDR") => Committed = 0

Pipeline == IF options.mode = "RAW" THEN RawFrames ELSE FramesInWindow

InTransfer == item >= FirstData /\ runtime_app_state = "UPDATE_IN_PROGRESS"
Transfer   == Positioned /\ Remembered /\ SetAddrFirst /\ Pipeline /\ Surplus

TransferInv == InTransfer => Transfer

(* The host and the flash agree on where the transfer is, as far as the    *)
(* answers that came late allow (can_uploader.py:136-178, 310-334,         *)
(* bootloader.c:102-130, 363-440).                                         *)
FlowInv == FreshInv /\ TransferInv
=============================================================================
