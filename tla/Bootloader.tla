----------------------------- MODULE Bootloader -----------------------------
(***************************************************************************)
(* The CAN bootloader of src/bootloader.c on the flash of FlashIf, with    *)
(* the boot request register of boot_request.c, the start of the CAN       *)
(* peripheral of can_if.c, and an application that may run and come back.  *)
(*                                                                         *)
(* The environment is open: any packet of Packets may arrive whenever the  *)
(* code polls, the device may be reset or lose power between any two       *)
(* steps.  A command is handled in one step, except for the three that     *)
(* program or erase the flash several times (CMD_ERASE, a fast data frame  *)
(* and CMD_CRC), which take a step per flash operation so that a reset     *)
(* can fall between them.                                                  *)
(***************************************************************************)
EXTENDS FlashIf

CONSTANTS
    Packets,          \* packets hosts may send
    ValidStack,       \* values is_valid_sram_address accepts
    ValidReset,       \* values is_valid_reset_handler accepts
    FastSeqMod,       \* sequence numbers a fast data ID carries: 16
    LegacySeqMod,     \* sequence numbers CMD_DATA carries: 65536
    ResetMayHappen,   \* the device may be reset or lose power at any time
    CanMayFail,       \* can_if_start may fail
    BoardMayFail,     \* clock or CAN set-up may fail and stop for ever
    InitialFlash      \* contents of the flash at the first power-up

VARIABLES
    bkp0r,                \* RTC->BKP0R = BOOT_MAGIC_VALUE
    pc,                   \* what the CPU is executing
    can_started,
    current_write_addr,
    expected_seq,
    expected_fast_seq,
    last_legacy,          \* last_legacy_word_valid, _seq, _addr and _word
    last_fast,            \* last_fast_frame_valid, _seq, _addr, _word0, _word1
    app_crc_valid,
    runtime_app_state,
    frame,                \* the packet being handled, or the last one handled
    step,                 \* sector or metadata word the flash loop is at
    sent,                 \* the response queued by the last step, if any
    verified              \* ghost: images a host has confirmed by their CRC
                          \* (or the metadata at the first power-up) since
                          \* CMD_ERASE last succeeded

ramVars == <<current_write_addr, expected_seq, expected_fast_seq, last_legacy,
             last_fast, app_crc_valid, runtime_app_state>>
bootVars == <<bkp0r, can_started>>
vars == <<flash, bootVars, ramVars, pc, frame, step, sent, verified>>

-----------------------------------------------------------------------------
(* Packets as bootloader_handle_packet tells them apart: by identifier     *)
(* first (FAST, RAW, FOREIGN), then by command byte.                       *)

FastPacket == [cmd : {"FAST"}, dlc : 0 .. 8, seq : 0 .. FastSeqMod - 1,
               word0 : Cell, word1 : Cell]
RawPacket  == [cmd : {"RAW"}, dlc : 0 .. 8, word0 : Cell, word1 : Cell]
DataPacket == [cmd : {"DATA"}, dlc : 1 .. 8, sum_ok : BOOLEAN,
               seq : 0 .. LegacySeqMod - 1, word : Cell]
SetAddrPacket == [cmd : {"SET_ADDR"}, dlc : 1 .. 8, addr : Nat, low_bits : 0 .. 3]
CrcPacket     == [cmd : {"CRC"}, dlc : 1 .. 8, crc : Word]
InfoPacket    == [cmd : {"INFO"}, page : 0 .. 255]
PlainPacket   == [cmd : {"PING", "ERASE", "BOOT", "RESET", "UNKNOWN", "FOREIGN"}]

PacketType == FastPacket \cup RawPacket \cup DataPacket \cup SetAddrPacket
              \cup CrcPacket \cup InfoPacket \cup PlainPacket

NoPacket   == [cmd |-> "NONE"]
NoResponse == [type |-> "NONE"]

Ack(cmd)       == [type |-> "ACK", cmd |-> cmd]
Nack(cmd, err) == [type |-> "NACK", cmd |-> cmd, err |-> err]
InfoReply(page, addr, state, word) ==
    [type |-> "ACK", cmd |-> "INFO", page |-> page, addr |-> addr,
     state |-> state, word |-> word]

ASSUME PacketAssumption == Packets \subseteq PacketType

ASSUME HandlerAssumption ==
    /\ ValidStack \subseteq Cell
    /\ ValidReset \subseteq Cell
    /\ Erased \notin ValidStack \cup ValidReset

ASSUME SequenceAssumption ==
    FastSeqMod \in Nat \ {0, 1} /\ LegacySeqMod \in Nat \ {0, 1}

ASSUME EnvironmentAssumption ==
    /\ ResetMayHappen \in BOOLEAN /\ CanMayFail \in BOOLEAN /\ BoardMayFail \in BOOLEAN
    /\ InitialFlash \subseteq [Address -> Word]
    /\ \A f \in InitialFlash : \A a \in AppAddress : f[a] \in Cell

-----------------------------------------------------------------------------
(* What the code concludes from the flash.                                 *)

(* Mutant: the CRC of the application is not computed again.               *)
MetadataWithoutCrc ==
    /\ flash[MagicAddr] = APP_META_MAGIC
    /\ flash[StateAddr] = APP_META_STATE_VALID
    /\ flash_if_is_in_app_region(APP_START_ADDR, ReadSize(flash[SizeAddr]))

bootloader_is_valid_metadata ==
    LET size == ReadSize(flash[SizeAddr])
    IN  /\ flash[MagicAddr] = APP_META_MAGIC
        /\ flash[StateAddr] = APP_META_STATE_VALID
        /\ flash_if_is_in_app_region(APP_START_ADDR, size)
        /\ Crc[Image(size)] = flash[CrcAddr]

bootloader_is_valid_app ==
    /\ flash[APP_START_ADDR] \in ValidStack
    /\ flash[APP_START_ADDR + 1] \in ValidReset
    /\ bootloader_is_valid_metadata

MetadataErased == \A a \in MetaAddress : flash[a] = Erased

bootloader_get_app_state ==
    CASE runtime_app_state \in {"UPDATE_IN_PROGRESS", "CRC_FAILED"} -> runtime_app_state
      [] OTHER -> IF MetadataErased THEN "METADATA_ERASED"
                  ELSE IF bootloader_is_valid_app THEN "VALID" ELSE "INVALID"

(* The image the metadata describes: what the application runs as.         *)
InstalledImage == Image(ReadSize(flash[SizeAddr]))

-----------------------------------------------------------------------------
(* RAM after a reset: the initialisers of the statics.  The other fields   *)
(* of last_legacy and last_fast are never read while valid is FALSE.       *)

NoLegacy == [valid |-> FALSE, seq |-> 0, addr |-> APP_START_ADDR, word |-> Erased]
NoFast   == [valid |-> FALSE, seq |-> 0, addr |-> APP_START_ADDR,
             word0 |-> Erased, word1 |-> Erased]

RamInit ==
    /\ current_write_addr = APP_START_ADDR
    /\ expected_seq = 0
    /\ expected_fast_seq = 0
    /\ last_legacy = NoLegacy
    /\ last_fast = NoFast
    /\ app_crc_valid = FALSE
    /\ runtime_app_state = "INVALID"

RamReset ==
    /\ current_write_addr' = APP_START_ADDR
    /\ expected_seq' = 0
    /\ expected_fast_seq' = 0
    /\ last_legacy' = NoLegacy
    /\ last_fast' = NoFast
    /\ app_crc_valid' = FALSE
    /\ runtime_app_state' = "INVALID"

(* Mutant: the last fast frame is remembered across transfers.             *)
StartTransferKeepsFrame(addr) ==
    /\ current_write_addr' = addr
    /\ expected_seq' = 0
    /\ expected_fast_seq' = 0
    /\ last_legacy' = NoLegacy
    /\ UNCHANGED last_fast
    /\ app_crc_valid' = FALSE

(* CMD_ERASE and CMD_SET_ADDR start a transfer at addr.                    *)
StartTransfer(addr) ==
    /\ current_write_addr' = addr
    /\ expected_seq' = 0
    /\ expected_fast_seq' = 0
    /\ last_legacy' = NoLegacy
    /\ last_fast' = NoFast
    /\ app_crc_valid' = FALSE

Init ==
    /\ flash \in InitialFlash
    /\ bkp0r \in BOOLEAN
    /\ pc = "reset"
    /\ can_started = FALSE
    /\ RamInit
    /\ frame = NoPacket
    /\ step = 0
    /\ sent = NoResponse
    /\ verified = {im \in Images : /\ flash[StateAddr] = APP_META_STATE_VALID
                                   /\ flash[CrcAddr] = Crc[im]}

-----------------------------------------------------------------------------
(* SystemClock_Config or MX_CAN1_Init fails before bootloader_main and     *)
(* stops for ever.                                                         *)
BoardFails ==
    /\ BoardMayFail
    /\ pc = "reset"
    /\ pc' = "hung"
    /\ sent' = NoResponse
    /\ UNCHANGED <<flash, bootVars, ramVars, frame, step, verified>>

(* bootloader_main: consume the boot request, start the CAN peripheral     *)
(* and choose between the update window and the command loop.              *)
Startup ==
    /\ pc = "reset"
    /\ bkp0r' = FALSE
    /\ can_started' \in {TRUE, ~CanMayFail}
    /\ pc' = IF ~bkp0r /\ bootloader_is_valid_app THEN "wait" ELSE "loop"
    /\ sent' = NoResponse
    /\ UNCHANGED <<flash, ramVars, frame, step, verified>>

(* Mutant: any packet ends the update window.                              *)
WaitReceiveAny(pkt) ==
    /\ pc = "wait"
    /\ can_started
    /\ frame' = pkt
    /\ pc' = "loop" /\ sent' = NoResponse
    /\ UNCHANGED <<flash, bootVars, ramVars, step, verified>>

(* bootloader_wait_update_request: CMD_PING ends the window, every other   *)
(* packet is read and dropped.                                             *)
WaitReceive(pkt) ==
    /\ pc = "wait"
    /\ can_started
    /\ frame' = pkt
    /\ IF pkt.cmd = "PING"
       THEN pc' = "loop" /\ sent' = Ack("PING")
       ELSE pc' = "wait" /\ sent' = NoResponse
    /\ UNCHANGED <<flash, bootVars, ramVars, step, verified>>

(* The application sets up the board and its CAN peripheral before it      *)
(* polls, and stops for ever when that fails.                              *)
StartApp ==
    \/ pc' = "app"
    \/ BoardMayFail /\ pc' = "hung"

(* BOOT_UPDATE_WAIT_MS have passed: bootloader_jump_to_app.                *)
WaitTimeout ==
    /\ pc = "wait"
    /\ StartApp
    /\ sent' = NoResponse
    /\ UNCHANGED <<flash, bootVars, ramVars, frame, step, verified>>

-----------------------------------------------------------------------------
(* The command loop.  Reply(r) ends a handler that changes nothing.        *)

Loop(pkt) == pc = "loop" /\ can_started /\ frame' = pkt

Reply(r) ==
    /\ sent' = r
    /\ UNCHANGED <<flash, bootVars, ramVars, pc, step, verified>>

HandlePing(pkt) == Loop(pkt) /\ pkt.cmd = "PING" /\ Reply(Ack("PING"))

InfoPage(page) ==
    CASE page = 0 -> InfoReply(page, 0, "INVALID", Erased)
      [] page = 1 -> InfoReply(page, APP_START_ADDR, "INVALID", Erased)
      [] page = 2 -> InfoReply(page, APP_FLASH_END_ADDR, "INVALID", Erased)
      [] page = 3 -> InfoReply(page, APP_META_ADDR, "INVALID", Erased)
      [] page = 4 -> InfoReply(page, 0, bootloader_get_app_state, flash[SizeAddr])
      [] page = 5 -> InfoReply(page, 0, "INVALID", flash[CrcAddr])
      [] OTHER -> Nack("INFO", "INVALID_ADDRESS")

HandleInfo(pkt) == Loop(pkt) /\ pkt.cmd = "INFO" /\ Reply(InfoPage(pkt.page))

HandleErase(pkt) ==
    /\ Loop(pkt)
    /\ pkt.cmd = "ERASE"
    /\ pc' = "erase"
    /\ step' = FirstSector
    /\ sent' = NoResponse
    /\ UNCHANGED <<flash, bootVars, ramVars, verified>>

(* flash_if_erase_app, one sector; the last one holds the metadata, which  *)
(* withdraws every confirmation given before.                              *)
EraseNextSector ==
    /\ pc = "erase"
    /\ step < LastSector
    /\ EraseSector(step, TRUE)
    /\ step' = step + 1
    /\ sent' = NoResponse
    /\ UNCHANGED <<bootVars, ramVars, pc, frame, verified>>

EraseLastSector ==
    /\ pc = "erase"
    /\ step = LastSector
    /\ EraseSector(step, TRUE)
    /\ StartTransfer(APP_START_ADDR)
    /\ runtime_app_state' = "UPDATE_IN_PROGRESS"
    /\ pc' = "loop"
    /\ step' = 0
    /\ sent' = Ack("ERASE")
    /\ verified' = {}
    /\ UNCHANGED <<bootVars, frame>>

EraseFails ==
    /\ pc = "erase"
    /\ EraseSector(step, FALSE)
    /\ pc' = "loop"
    /\ step' = 0
    /\ sent' = Nack("ERASE", "ERASE_FAILED")
    /\ UNCHANGED <<bootVars, ramVars, frame, verified>>

HandleSetAddr(pkt) ==
    /\ Loop(pkt)
    /\ pkt.cmd = "SET_ADDR"
    /\ \/ /\ pkt.dlc < 5
          /\ Reply(Nack("SET_ADDR", "INVALID_LENGTH"))
       \/ /\ pkt.dlc >= 5
          /\ pkt.low_bits # 0 \/ ~flash_if_is_in_app_region(pkt.addr, 1)
          /\ Reply(Nack("SET_ADDR", "INVALID_ADDRESS"))
       \/ /\ pkt.dlc >= 5
          /\ pkt.low_bits = 0
          /\ flash_if_is_in_app_region(pkt.addr, 1)
          /\ StartTransfer(pkt.addr)
          /\ sent' = Ack("SET_ADDR")
          /\ UNCHANGED <<flash, bootVars, runtime_app_state, pc, step, verified>>

(* CMD_DATA: one word under a 16-bit sequence number.                      *)
IsDuplicateWord(pkt) ==
    /\ last_legacy.valid
    /\ pkt.seq = last_legacy.seq
    /\ last_legacy.addr + 1 = current_write_addr
    /\ pkt.word = last_legacy.word

CommitWord(pkt) ==
    /\ last_legacy' = [valid |-> TRUE, seq |-> pkt.seq,
                       addr |-> current_write_addr, word |-> pkt.word]
    /\ current_write_addr' = current_write_addr + 1
    /\ expected_seq' = (expected_seq + 1) % LegacySeqMod
    /\ app_crc_valid' = FALSE
    /\ sent' = Ack("DATA")
    /\ UNCHANGED <<bootVars, expected_fast_seq, last_fast, runtime_app_state,
                   pc, step, verified>>

HandleData(pkt) ==
    /\ Loop(pkt)
    /\ pkt.cmd = "DATA"
    /\ \/ /\ pkt.dlc # 8
          /\ Reply(Nack("DATA", "INVALID_LENGTH"))
       \/ /\ pkt.dlc = 8 /\ ~pkt.sum_ok
          /\ Reply(Nack("DATA", "CHECKSUM"))
       \/ /\ pkt.dlc = 8 /\ pkt.sum_ok /\ pkt.seq # expected_seq
          /\ Reply(IF IsDuplicateWord(pkt) THEN Ack("DATA") ELSE Nack("DATA", "SEQUENCE"))
       \/ /\ pkt.dlc = 8 /\ pkt.sum_ok /\ pkt.seq = expected_seq
          /\ \/ /\ flash_if_write_word(current_write_addr, pkt.word, TRUE)
                /\ CommitWord(pkt)
             \/ /\ flash_if_write_word(current_write_addr, pkt.word, FALSE)
                /\ sent' = Nack("DATA", "FLASH_WRITE")
                /\ UNCHANGED <<bootVars, ramVars, pc, step, verified>>

(* Fast data: two words, under a 4-bit sequence number when check_seq.     *)

(* Mutant: a frame repeats the last one as soon as it has its number.      *)
IsDuplicateFrameByNumber(pkt) == last_fast.valid /\ pkt.seq = last_fast.seq

(* Mutant: any frame is a repetition once one was written.                 *)
IsDuplicateFrameUnchecked(pkt) == last_fast.valid

IsDuplicateFrame(pkt) ==
    /\ last_fast.valid
    /\ pkt.seq = last_fast.seq
    /\ last_fast.addr + 2 = current_write_addr
    /\ pkt.word0 = last_fast.word0
    /\ pkt.word1 = last_fast.word1

(* Mutant: the sequence number is not looked at.                           *)
InSequenceAlways(pkt) == TRUE

InSequence(pkt) == pkt.cmd = "FAST" => pkt.seq = expected_fast_seq

(* Mutant: the region check of one word instead of two.                    *)
FrameFitsOneWord == flash_if_is_in_app_region(current_write_addr, 1)

FrameFits == flash_if_is_in_app_region(current_write_addr, 2)

HandleFast(pkt) ==
    /\ Loop(pkt)
    /\ pkt.cmd \in {"FAST", "RAW"}
    /\ \/ /\ pkt.dlc # 8
          /\ Reply(Nack("DATA", "INVALID_LENGTH"))
       \/ /\ pkt.dlc = 8 /\ ~InSequence(pkt)
          /\ Reply(IF IsDuplicateFrame(pkt) THEN Ack("DATA") ELSE Nack("DATA", "SEQUENCE"))
       \/ /\ pkt.dlc = 8 /\ InSequence(pkt)
          /\ ~FrameFits
          /\ Reply(Nack("DATA", "INVALID_ADDRESS"))
       \/ /\ pkt.dlc = 8 /\ InSequence(pkt) /\ FrameFits
          /\ \/ /\ flash_if_write_word(current_write_addr, pkt.word0, TRUE)
                /\ pc' = "fast"
                /\ sent' = NoResponse
                /\ UNCHANGED <<bootVars, ramVars, step, verified>>
             \/ /\ flash_if_write_word(current_write_addr, pkt.word0, FALSE)
                /\ sent' = Nack("DATA", "FLASH_WRITE")
                /\ UNCHANGED <<bootVars, ramVars, pc, step, verified>>

(* The second word of the frame, and what follows it.                      *)
RecordFrame ==
    /\ last_fast' = [valid |-> TRUE, seq |-> frame.seq, addr |-> current_write_addr,
                     word0 |-> frame.word0, word1 |-> frame.word1]
    /\ expected_fast_seq' = (expected_fast_seq + 1) % FastSeqMod

CommitFrame ==
    /\ pc = "fast"
    /\ flash_if_write_word(current_write_addr + 1, frame.word1, TRUE)
    /\ current_write_addr' = current_write_addr + 2
    /\ IF frame.cmd = "FAST" THEN RecordFrame ELSE UNCHANGED <<last_fast, expected_fast_seq>>
    /\ app_crc_valid' = FALSE
    /\ pc' = "loop"
    /\ sent' = Ack("DATA")
    /\ UNCHANGED <<bootVars, expected_seq, last_legacy, runtime_app_state, frame,
                   step, verified>>

(* Mutant: the address of the first word is kept when the second fails.    *)
FrameFailsHalfway ==
    /\ pc = "fast"
    /\ flash_if_write_word(current_write_addr + 1, frame.word1, FALSE)
    /\ current_write_addr' = current_write_addr + 1
    /\ pc' = "loop"
    /\ sent' = Nack("DATA", "FLASH_WRITE")
    /\ UNCHANGED <<bootVars, expected_seq, expected_fast_seq, last_legacy, last_fast,
                   app_crc_valid, runtime_app_state, frame, step, verified>>

FrameFails ==
    /\ pc = "fast"
    /\ flash_if_write_word(current_write_addr + 1, frame.word1, FALSE)
    /\ pc' = "loop"
    /\ sent' = Nack("DATA", "FLASH_WRITE")
    /\ UNCHANGED <<bootVars, ramVars, frame, step, verified>>

(* CMD_CRC: compare the image up to the write address, then write the      *)
(* metadata that declares it valid.                                        *)
AppSize == current_write_addr - APP_START_ADDR

HandleCrc(pkt) ==
    /\ Loop(pkt)
    /\ pkt.cmd = "CRC"
    /\ \/ /\ pkt.dlc < 5
          /\ Reply(Nack("CRC", "INVALID_LENGTH"))
       \/ /\ pkt.dlc >= 5
          /\ ~flash_if_is_in_app_region(APP_START_ADDR, AppSize)
          /\ Reply(Nack("CRC", "INVALID_ADDRESS"))
       \/ /\ pkt.dlc >= 5
          /\ flash_if_is_in_app_region(APP_START_ADDR, AppSize)
          /\ Crc[Image(AppSize)] # pkt.crc
          /\ app_crc_valid' = FALSE
          /\ runtime_app_state' = "CRC_FAILED"
          /\ sent' = Nack("CRC", "CRC_MISMATCH")
          /\ UNCHANGED <<flash, bootVars, current_write_addr, expected_seq, expected_fast_seq,
                         last_legacy, last_fast, pc, step, verified>>
       \/ /\ pkt.dlc >= 5
          /\ flash_if_is_in_app_region(APP_START_ADDR, AppSize)
          /\ Crc[Image(AppSize)] = pkt.crc
          /\ pc' = "meta"
          /\ step' = 0
          /\ verified' = verified \cup {Image(AppSize)}
          /\ sent' = NoResponse
          /\ UNCHANGED <<flash, bootVars, ramVars>>

WriteNextMetadata ==
    /\ pc = "meta"
    /\ step < 3
    /\ WriteMetadataWord(step, AppSize, frame.crc, TRUE)
    /\ step' = step + 1
    /\ sent' = NoResponse
    /\ UNCHANGED <<bootVars, ramVars, pc, frame, verified>>

WriteLastMetadata ==
    /\ pc = "meta"
    /\ step = 3
    /\ WriteMetadataWord(step, AppSize, frame.crc, TRUE)
    /\ app_crc_valid' = TRUE
    /\ runtime_app_state' = "VALID"
    /\ pc' = "loop"
    /\ step' = 0
    /\ sent' = Ack("CRC")
    /\ UNCHANGED <<bootVars, current_write_addr, expected_seq, expected_fast_seq,
                   last_legacy, last_fast, frame, verified>>

MetadataFails ==
    /\ pc = "meta"
    /\ WriteMetadataWord(step, AppSize, frame.crc, FALSE)
    /\ app_crc_valid' = FALSE
    /\ pc' = "loop"
    /\ step' = 0
    /\ sent' = Nack("CRC", "METADATA_WRITE")
    /\ UNCHANGED <<bootVars, current_write_addr, expected_seq, expected_fast_seq,
                   last_legacy, last_fast, runtime_app_state, frame, verified>>

(* CMD_BOOT and CMD_RESET answer, wait 20 ms, and leave the bootloader.    *)

(* Mutant: a confirmed CRC is enough, without the vector table.            *)
MayBootByCrc == app_crc_valid \/ bootloader_is_valid_metadata

MayBoot == bootloader_is_valid_app /\ (app_crc_valid \/ bootloader_is_valid_metadata)

HandleBoot(pkt) ==
    /\ Loop(pkt)
    /\ pkt.cmd = "BOOT"
    /\ \/ /\ MayBoot
          /\ pc' = "booting"
          /\ sent' = Ack("BOOT")
          /\ UNCHANGED <<flash, bootVars, ramVars, step, verified>>
       \/ /\ ~MayBoot
          /\ Reply(Nack("BOOT", "APP_INVALID"))

bootloader_jump_to_app ==
    /\ pc = "booting"
    /\ StartApp
    /\ sent' = NoResponse
    /\ UNCHANGED <<flash, bootVars, ramVars, frame, step, verified>>

HandleReset(pkt) ==
    /\ Loop(pkt)
    /\ pkt.cmd = "RESET"
    /\ pc' = "resetting"
    /\ sent' = Ack("RESET")
    /\ UNCHANGED <<flash, bootVars, ramVars, step, verified>>

HandleOther(pkt) ==
    /\ Loop(pkt)
    /\ \/ pkt.cmd = "UNKNOWN" /\ Reply(Nack("UNKNOWN", "UNKNOWN_CMD"))
       \/ pkt.cmd = "FOREIGN" /\ Reply(NoResponse)

bootloader_handle_packet(pkt) ==
    \/ HandlePing(pkt) \/ HandleInfo(pkt) \/ HandleErase(pkt) \/ HandleSetAddr(pkt)
    \/ HandleData(pkt) \/ HandleFast(pkt) \/ HandleCrc(pkt) \/ HandleBoot(pkt)
    \/ HandleReset(pkt) \/ HandleOther(pkt)

-----------------------------------------------------------------------------
(* Leaving and re-entering the bootloader.                                 *)

Restart ==
    /\ pc' = "reset"
    /\ can_started' = FALSE
    /\ RamReset
    /\ frame' = NoPacket
    /\ step' = 0
    /\ sent' = NoResponse
    /\ UNCHANGED verified

(* NVIC_SystemReset after CMD_RESET.                                       *)
SystemReset == pc = "resetting" /\ Restart /\ UNCHANGED <<flash, bkp0r>>

(* The application may ask for an update through the backup register, and  *)
(* may reset the device with or without having done so.                    *)
AppRequestsUpdate ==
    /\ pc = "app"
    /\ bkp0r' = TRUE
    /\ sent' = NoResponse
    /\ UNCHANGED <<flash, can_started, ramVars, pc, frame, step, verified>>

AppResets == pc = "app" /\ Restart /\ UNCHANGED <<flash, bkp0r>>

(* Reset pin or loss of power: the backup register survives only the       *)
(* first; an erase under way has reached some words of its sector, and the *)
(* metadata word under way some of its bits.                               *)
PowerLoss ==
    /\ ResetMayHappen
    /\ Restart
    /\ bkp0r' \in {bkp0r, FALSE}
    /\ \/ UNCHANGED flash
       \/ pc = "erase" /\ \E D \in SUBSET SectorWords(step) : flash' = ErasedIn(D)
       \/ pc = "meta" /\ flash' \in TornMetadataWord(step, AppSize, frame.crc)

-----------------------------------------------------------------------------
(* What the CPU does next without waiting for anybody.                     *)
DeviceStep ==
    \/ BoardFails \/ Startup \/ WaitTimeout
    \/ EraseNextSector \/ EraseLastSector \/ EraseFails
    \/ CommitFrame \/ FrameFails
    \/ WriteNextMetadata \/ WriteLastMetadata \/ MetadataFails
    \/ bootloader_jump_to_app \/ SystemReset

Next ==
    \/ DeviceStep
    \/ \E pkt \in Packets : WaitReceive(pkt) \/ bootloader_handle_packet(pkt)
    \/ AppRequestsUpdate \/ AppResets
    \/ PowerLoss

Spec     == Init /\ [][Next]_vars
FairSpec == Spec /\ WF_vars(DeviceStep)

-----------------------------------------------------------------------------
(* Properties.                                                             *)

AppStates == {"INVALID", "VALID", "UPDATE_IN_PROGRESS", "CRC_FAILED"}

LegacyRecord == [valid : BOOLEAN, seq : 0 .. LegacySeqMod - 1, addr : AppAddress, word : Cell]
FastRecord   == [valid : BOOLEAN, seq : 0 .. FastSeqMod - 1, addr : AppAddress,
                 word0 : Cell, word1 : Cell]

(* Every variable has its type, and the steps that loop over the flash     *)
(* hold the packet and the index they need: a frame is only half written   *)
(* where both of its words fit, and metadata is only written for a size    *)
(* that has room in the region (bootloader.c:118-131, 451-467).            *)
TypeOK ==
    /\ TypeOKFlash
    /\ bkp0r \in BOOLEAN
    /\ pc \in {"reset", "wait", "loop", "erase", "fast", "meta",
               "booting", "app", "asked", "resetting", "hung"}
    /\ can_started \in BOOLEAN
    /\ current_write_addr \in APP_START_ADDR .. APP_FLASH_END_ADDR
    /\ expected_seq \in 0 .. LegacySeqMod - 1
    /\ expected_fast_seq \in 0 .. FastSeqMod - 1
    /\ last_legacy \in LegacyRecord
    /\ last_fast \in FastRecord
    /\ app_crc_valid \in BOOLEAN
    /\ runtime_app_state \in AppStates
    /\ frame \in PacketType \cup {NoPacket}
    /\ verified \subseteq Images
    /\ pc = "erase" => step \in Sectors
    /\ pc = "fast" => /\ frame \in FastPacket \cup RawPacket
                     /\ flash_if_is_in_app_region(current_write_addr, 2)
    /\ pc = "meta" => /\ step \in 0 .. 3
                     /\ frame \in CrcPacket
                     /\ flash_if_is_in_app_region(APP_START_ADDR, AppSize)

(* The bootloader leaves for the application, or opens the window that may *)
(* end there, only over an application that passes every check of          *)
(* bootloader_is_valid_app: stack, reset handler, metadata and CRC         *)
(* (bootloader.c:216-221, 478-481).                                        *)
JumpOnlyValid == pc \in {"wait", "booting", "app"} => bootloader_is_valid_app

(* The application that runs is byte for byte an image whose CRC a host    *)
(* has confirmed since the metadata was last erased: no power loss, failed *)
(* erase, failed write or late data packet lets a partial or altered image *)
(* run (flash_if.c:120-152, bootloader.c:160-179, 441-485).                *)
RunsVerifiedImage == pc = "app" => InstalledImage \in verified

(* CMD_DATA is acknowledged only when the words of the packet lie in the   *)
(* flash just below the write address, whether they were written now or by *)
(* the packet this one repeats (bootloader.c:104-111, 413-420).            *)
DataAckTruthful ==
    sent = Ack("DATA") =>
        IF frame.cmd = "DATA"
        THEN flash[current_write_addr - 1] = frame.word
        ELSE /\ flash[current_write_addr - 2] = frame.word0
             /\ flash[current_write_addr - 1] = frame.word1

(* CMD_CRC is acknowledged only when the metadata seals exactly the words  *)
(* below the write address under the CRC the host sent, so that the next   *)
(* reset finds them valid (bootloader.c:459-473).                          *)
CrcAckTruthful ==
    sent = Ack("CRC") => /\ bootloader_is_valid_metadata
                         /\ InstalledImage = Image(AppSize)
                         /\ flash[CrcAddr] = frame.crc

(* A refused packet leaves the transfer where it was, so that the host can *)
(* send the packet again or the one that was expected: every NACK, also    *)
(* after half a frame was written, keeps the write address, the expected   *)
(* numbers and the packet a duplicate is compared with                     *)
(* (bootloader.c:113-130, 363-365, 421-428).                               *)
NackKeepsPosition ==
    [][sent'.type = "NACK" =>
         UNCHANGED <<current_write_addr, expected_seq, expected_fast_seq,
                     last_legacy, last_fast>>]_vars

(* While the device reports an update in progress no application in it is  *)
(* bootable (bootloader.c:185-187 against 160-179): the report outlives    *)
(* neither the erase that precedes it nor the CRC that ends it.            *)
InProgressNotBootable ==
    runtime_app_state = "UPDATE_IN_PROGRESS" => ~bootloader_is_valid_metadata

(* A host that is told CRC_FAILED is told the truth: what is installed     *)
(* cannot be booted and a full upload is required                          *)
(* (tools/can_uploader.py:292).                                            *)
CrcFailedNotBootable ==
    runtime_app_state = "CRC_FAILED" => ~bootloader_is_valid_app

(* No step writes the bootloader's own sectors, and the metadata changes   *)
(* only by CMD_ERASE and by the end of CMD_CRC: data packets cannot forge  *)
(* it, whatever SET_ADDR they follow (flash_if.c:10-25).                   *)
MetadataOnlyByEraseAndCrc ==
    [][/\ \A a \in BootAddress : flash'[a] = flash[a]
       /\ pc \notin {"erase", "meta"} => \A a \in MetaAddress : flash'[a] = flash[a]]_vars

(* A device that starts without a boot request on a valid application runs *)
(* it, unless a host answers the update window with CMD_PING or the board  *)
(* fails: traffic of other kinds cannot hold it in the bootloader          *)
(* (bootloader.c:499-518).                                                 *)
UnattendedBoot ==
    (pc = "reset" /\ ~bkp0r /\ bootloader_is_valid_app)
        ~> (pc \in {"app", "hung"} \/ sent = Ack("PING"))
=============================================================================
