---------------------------- MODULE AnswerProofs ----------------------------
(***************************************************************************)
(* What the answers of the bootloader promise: acknowledged data and an    *)
(* acknowledged CRC are in the flash, a refusal changes nothing, metadata  *)
(* changes by CMD_ERASE and CMD_CRC only, and an update that is reported   *)
(* in progress is in progress.                                             *)
(***************************************************************************)
EXTENDS BootloaderProofs

USE DEF Loop, Reply, vars, ramVars, bootVars

-----------------------------------------------------------------------------
(* Refusals.                                                               *)


LEMMA OnlyNackRefuses ==
    /\ \A cmd : Ack(cmd).type # "NACK"
    /\ NoResponse.type # "NACK"
  BY DEF Ack, NoResponse

TransferKept == UNCHANGED <<current_write_addr, expected_seq, expected_fast_seq,
                            last_legacy, last_fast>>

(* A step that moves the transfer does not refuse the packet.              *)
LEMMA MovesOnlyOnSuccess ==
    ASSUME [Next]_vars
    PROVE  TransferKept \/ sent' = NoResponse \/ \E cmd : sent' = Ack(cmd)
  <1>1. CASE \/ BoardFails \/ Startup \/ WaitTimeout \/ EraseNextSector \/ EraseFails \/ FrameFails
             \/ WriteNextMetadata \/ WriteLastMetadata \/ MetadataFails
             \/ bootloader_jump_to_app \/ AppRequestsUpdate \/ UNCHANGED vars
    BY <1>1 DEF TransferKept, BoardFails, Startup, WaitTimeout, EraseNextSector, EraseFails, FrameFails,
                WriteNextMetadata, WriteLastMetadata, MetadataFails, bootloader_jump_to_app,
                AppRequestsUpdate
  <1>2. CASE EraseLastSector \/ CommitFrame
    BY <1>2 DEF EraseLastSector, CommitFrame
  <1>3. CASE SystemReset \/ AppResets \/ PowerLoss
    BY <1>3 DEF SystemReset, AppResets, PowerLoss, Restart
  <1>4. ASSUME NEW pkt \in Packets, HandleSetAddr(pkt)
        PROVE  TransferKept \/ \E cmd : sent' = Ack(cmd)
    BY <1>4 DEF TransferKept, HandleSetAddr
  <1>5. ASSUME NEW pkt \in Packets, HandleData(pkt)
        PROVE  TransferKept \/ \E cmd : sent' = Ack(cmd)
    BY <1>5 DEF TransferKept, HandleData, CommitWord
  <1>6. ASSUME NEW pkt \in Packets,
               \/ WaitReceive(pkt) \/ HandlePing(pkt) \/ HandleInfo(pkt) \/ HandleErase(pkt)
               \/ HandleFast(pkt) \/ HandleCrc(pkt) \/ HandleBoot(pkt)
               \/ HandleReset(pkt) \/ HandleOther(pkt)
        PROVE  TransferKept
    BY <1>6 DEF TransferKept, WaitReceive, HandlePing, HandleInfo, HandleErase, HandleFast,
                HandleCrc, HandleBoot, HandleReset, HandleOther
  <1> QED
    BY <1>1, <1>2, <1>3, <1>4, <1>5, <1>6 DEF Next, DeviceStep, bootloader_handle_packet

(* Sending a packet again is safe after any NACK: no step that refuses one *)
(* moves the transfer.                                                     *)
THEOREM RefusalMovesNothing == Spec => NackKeepsPosition
  <1>1. [Next]_vars => [sent'.type = "NACK" =>
                          UNCHANGED <<current_write_addr, expected_seq, expected_fast_seq,
                                      last_legacy, last_fast>>]_vars
    BY MovesOnlyOnSuccess, OnlyNackRefuses DEF TransferKept
  <1> QED
    BY <1>1, PTL DEF Spec, NackKeepsPosition

-----------------------------------------------------------------------------
(* The metadata and the bootloader's own sectors.                          *)

(* A sector that may be erased lies above the bootloader.                  *)
LEMMA SectorAboveBootloader ==
    ASSUME NEW s \in Sectors
    PROVE  \A a \in SectorWords(s) : a \notin BootAddress
  <1>1. SectorBase[s] >= APP_START_ADDR /\ SectorBase[s] \in Nat /\ APP_START_ADDR \in Nat
    BY LayoutAssumption
  <1> QED
    BY <1>1 DEF SectorWords, BootAddress, Address

LEMMA FixedAddresses ==
    /\ BootAddress \subseteq Address /\ MetaAddress \subseteq Address
    /\ \A a \in AppAddress : a \notin BootAddress /\ a \notin MetaAddress
    /\ \A i \in 0 .. 3 : APP_META_ADDR + i \notin BootAddress
  BY LayoutAssumption DEF BootAddress, MetaAddress, Address, AppAddress, FLASH_END_ADDR,
                          APP_META_ADDR, APP_FLASH_END_ADDR

(* The words outside the application area keep their contents.             *)
FixedWordsKept ==
    \A a \in Address : a \notin AppAddress => flash'[a] = flash[a]

BootWordsKept == \A a \in BootAddress : flash'[a] = flash[a]

LEMMA DataKeepsFixedWords ==
    ASSUME TypeOK, [Next]_vars, pc \notin {"erase", "meta"}
    PROVE  FixedWordsKept
  <1>type. /\ TypeOKFlash
           /\ current_write_addr \in Nat /\ current_write_addr + 1 \in Nat
    BY PositionType DEF TypeOK
  <1>1. CASE UNCHANGED flash
    BY <1>1 DEF FixedWordsKept
  <1>2. ASSUME NEW pkt \in Packets, HandleData(pkt) PROVE FixedWordsKept
    <2>1. pkt.word \in Cell
      BY <1>2, PacketAssumption, PacketFields DEF HandleData, DataPacket
    <2>2. UNCHANGED flash
          \/ \E ok \in BOOLEAN : flash_if_write_word(current_write_addr, pkt.word, ok)
      BY <1>2 DEF HandleData
    <2> QED
      BY <1>1, <1>type, <2>1, <2>2, WriteWordEffect DEF FixedWordsKept
  <1>3. ASSUME NEW pkt \in Packets, HandleFast(pkt) PROVE FixedWordsKept
    <2>1. pkt.word0 \in Cell
      BY <1>3, PacketAssumption, PacketFields DEF HandleFast, FastPacket, RawPacket
    <2>2. UNCHANGED flash
          \/ \E ok \in BOOLEAN : flash_if_write_word(current_write_addr, pkt.word0, ok)
      BY <1>3 DEF HandleFast
    <2> QED
      BY <1>1, <1>type, <2>1, <2>2, WriteWordEffect DEF FixedWordsKept
  <1>4. CASE CommitFrame \/ FrameFails
    <2>1. frame.word1 \in Cell
      BY <1>4 DEF CommitFrame, FrameFails, TypeOK, FastPacket, RawPacket
    <2>2. PICK ok \in BOOLEAN : flash_if_write_word(current_write_addr + 1, frame.word1, ok)
      BY <1>4 DEF CommitFrame, FrameFails
    <2> QED
      BY <1>type, <2>1, <2>2, WriteWordEffect DEF FixedWordsKept
  <1>5. ASSUME NEW pkt \in Packets,
               \/ WaitReceive(pkt) \/ HandlePing(pkt) \/ HandleInfo(pkt) \/ HandleErase(pkt)
               \/ HandleSetAddr(pkt) \/ HandleCrc(pkt) \/ HandleBoot(pkt)
               \/ HandleReset(pkt) \/ HandleOther(pkt)
        PROVE  UNCHANGED flash
    BY <1>5 DEF WaitReceive, HandlePing, HandleInfo, HandleErase, HandleSetAddr, HandleCrc,
                HandleBoot, HandleReset, HandleOther
  <1>6. CASE \/ BoardFails \/ Startup \/ WaitTimeout \/ bootloader_jump_to_app \/ SystemReset
             \/ AppRequestsUpdate \/ AppResets \/ PowerLoss
    <2>1. UNCHANGED flash
      BY <1>6 DEF BoardFails, Startup, WaitTimeout, bootloader_jump_to_app, SystemReset,
                  AppRequestsUpdate, AppResets, PowerLoss
    <2> QED
      BY <1>1, <2>1
  <1>7. CASE \/ EraseNextSector \/ EraseLastSector \/ EraseFails
             \/ WriteNextMetadata \/ WriteLastMetadata \/ MetadataFails
    BY <1>7 DEF EraseNextSector, EraseLastSector, EraseFails,
                WriteNextMetadata, WriteLastMetadata, MetadataFails
  <1>8. CASE UNCHANGED vars
    BY <1>1, <1>8
  <1> QED
    BY <1>1, <1>2, <1>3, <1>4, <1>5, <1>6, <1>7, <1>8
       DEF Next, DeviceStep, bootloader_handle_packet

LEMMA EraseKeepsBootloader ==
    ASSUME TypeOK, NEW D \in SUBSET SectorWords(step), step \in Sectors, flash' = ErasedIn(D)
    PROVE  BootWordsKept
  BY EraseWords, SectorAboveBootloader, FixedAddresses DEF TypeOK, BootWordsKept

(* Whatever the device does to the flash, it keeps the bootloader.         *)
LEMMA BootloaderKept ==
    ASSUME TypeOK, [Next]_vars, pc \in {"erase", "meta"}
    PROVE  BootWordsKept
  <1>1. CASE UNCHANGED flash
    BY <1>1 DEF BootWordsKept
  <1>2. CASE EraseNextSector \/ EraseLastSector \/ EraseFails
    <2>1. PICK ok \in BOOLEAN : EraseSector(step, ok)
      BY <1>2 DEF EraseNextSector, EraseLastSector, EraseFails
    <2>2. step \in Sectors
      BY <1>2 DEF EraseNextSector, EraseLastSector, EraseFails, TypeOK
    <2> QED
      BY <2>1, <2>2, EraseKeepsBootloader DEF EraseSector
  <1>3. CASE WriteNextMetadata \/ WriteLastMetadata \/ MetadataFails
    <2>1. PICK ok \in BOOLEAN : WriteMetadataWord(step, AppSize, frame.crc, ok)
      BY <1>3 DEF WriteNextMetadata, WriteLastMetadata, MetadataFails
    <2>2. /\ TypeOKFlash /\ AppSize \in 0 .. AppWords
          /\ step \in 0 .. 3 /\ frame.crc \in Word
      BY <1>3, PositionType DEF WriteNextMetadata, WriteLastMetadata, MetadataFails, TypeOK,
                                AppSize, CrcPacket
    <2> QED
      BY <2>1, <2>2, ProgramMetadataWord, FixedAddresses DEF BootWordsKept
  <1>4. CASE PowerLoss
    <2>1. CASE pc = "meta" /\ flash' \in TornMetadataWord(step, AppSize, frame.crc)
      <3>1. /\ TypeOKFlash /\ AppSize \in 0 .. AppWords
            /\ step \in 0 .. 3 /\ frame.crc \in Word
        BY <2>1, PositionType DEF TypeOK, AppSize, CrcPacket
      <3> QED
        BY <2>1, <3>1, TearMetadataWord, FixedAddresses DEF BootWordsKept
    <2>2. CASE pc = "erase" /\ \E D \in SUBSET SectorWords(step) : flash' = ErasedIn(D)
      BY <2>2, EraseKeepsBootloader DEF TypeOK
    <2> QED
      BY <1>1, <1>4, <2>1, <2>2 DEF PowerLoss
  <1>5. CASE UNCHANGED vars
    BY <1>1, <1>5
  <1>6. CASE \/ BoardFails \/ Startup \/ WaitTimeout \/ bootloader_jump_to_app \/ SystemReset
             \/ CommitFrame \/ FrameFails \/ AppRequestsUpdate \/ AppResets
    BY <1>6 DEF BoardFails, Startup, WaitTimeout, bootloader_jump_to_app, SystemReset, CommitFrame,
                FrameFails, AppRequestsUpdate, AppResets
  <1>7. ASSUME NEW pkt \in Packets, WaitReceive(pkt) \/ bootloader_handle_packet(pkt)
        PROVE  FALSE
    BY <1>7 DEF WaitReceive, bootloader_handle_packet, HandlePing, HandleInfo, HandleErase,
                HandleSetAddr, HandleData, HandleFast, HandleCrc, HandleBoot, HandleReset,
                HandleOther
  <1> QED
    BY <1>2, <1>3, <1>4, <1>5, <1>6, <1>7 DEF Next, DeviceStep

(* Data packets forge no metadata, and nothing touches the bootloader.     *)
THEOREM MetadataIsGuarded == Spec => MetadataOnlyByEraseAndCrc
  <1>1. ASSUME TypeOK, [Next]_vars
        PROVE  /\ BootWordsKept
               /\ pc \notin {"erase", "meta"} => \A a \in MetaAddress : flash'[a] = flash[a]
    <2>1. CASE pc \in {"erase", "meta"}
      BY <1>1, <2>1, BootloaderKept
    <2>2. CASE pc \notin {"erase", "meta"}
      <3>1. \A a \in BootAddress \cup MetaAddress : a \in Address /\ a \notin AppAddress
        BY FixedAddresses
      <3> QED
        BY <1>1, <2>2, <3>1, DataKeepsFixedWords DEF FixedWordsKept, BootWordsKept
    <2> QED
      BY <2>1, <2>2
  <1>2. TypeOK /\ [Next]_vars =>
          [/\ \A a \in BootAddress : flash'[a] = flash[a]
           /\ pc \notin {"erase", "meta"} =>
                \A a \in MetaAddress : flash'[a] = flash[a]]_vars
    BY <1>1 DEF BootWordsKept
  <1> QED
    BY <1>2, TypeCorrect, PTL DEF Spec, MetadataOnlyByEraseAndCrc
-----------------------------------------------------------------------------
(* The CRC that is acknowledged.                                           *)

LEMMA AnswersDiffer ==
    /\ \A c, d : c # d => Ack(c) # Ack(d)
    /\ \A c, d, e : Nack(c, e) # Ack(d)
    /\ \A c : NoResponse # Ack(c)
    /\ \A page, d : d # "INFO" => InfoPage(page) # Ack(d)
  <1>1. \A c, d : Ack(c).cmd = c /\ Ack(c).type = "ACK"
    BY DEF Ack
  <1>2. \A c, e : Nack(c, e).type = "NACK"
    BY DEF Nack
  <1>3. NoResponse.type = "NONE"
    BY DEF NoResponse
  <1>4. \A page, addr, state, word : InfoReply(page, addr, state, word).cmd = "INFO"
    BY DEF InfoReply
  <1>5. \A e : Nack("INFO", e).cmd = "INFO"
    BY DEF Nack
  <1>6. \A page : InfoPage(page).cmd = "INFO"
    BY <1>4, <1>5 DEF InfoPage
  <1> QED
    BY <1>1, <1>2, <1>3, <1>6

LEMMA CrcAckStep ==
    ASSUME [Next]_vars, sent' = Ack("CRC")
    PROVE  WriteLastMetadata \/ UNCHANGED vars
  <1>1. CASE \/ BoardFails \/ Startup \/ WaitTimeout \/ EraseNextSector \/ EraseLastSector \/ EraseFails
             \/ CommitFrame \/ FrameFails \/ WriteNextMetadata \/ MetadataFails
             \/ bootloader_jump_to_app \/ SystemReset
             \/ AppRequestsUpdate \/ AppResets \/ PowerLoss
    BY <1>1, AnswersDiffer
       DEF BoardFails, Startup, WaitTimeout, EraseNextSector, EraseLastSector, EraseFails, CommitFrame,
           FrameFails, WriteNextMetadata, MetadataFails, bootloader_jump_to_app, SystemReset,
           AppRequestsUpdate, AppResets, PowerLoss, Restart
  <1>2. ASSUME NEW pkt \in Packets, WaitReceive(pkt) \/ HandlePing(pkt) \/ HandleInfo(pkt)
                                    \/ HandleErase(pkt) \/ HandleSetAddr(pkt)
        PROVE  sent' # Ack("CRC")
    BY <1>2, AnswersDiffer
       DEF WaitReceive, HandlePing, HandleInfo, HandleErase, HandleSetAddr
  <1>3. ASSUME NEW pkt \in Packets, HandleData(pkt) \/ HandleFast(pkt)
        PROVE  sent' # Ack("CRC")
    BY <1>3, AnswersDiffer DEF HandleData, CommitWord, HandleFast
  <1>4. ASSUME NEW pkt \in Packets, HandleCrc(pkt) \/ HandleBoot(pkt)
                                    \/ HandleReset(pkt) \/ HandleOther(pkt)
        PROVE  sent' # Ack("CRC")
    BY <1>4, AnswersDiffer DEF HandleCrc, HandleBoot, HandleReset, HandleOther
  <1> QED
    BY <1>1, <1>2, <1>3, <1>4 DEF Next, DeviceStep, bootloader_handle_packet

(* A size that was written is read back.                                   *)
LEMMA ReadWrittenSize ==
    ASSUME NEW n \in 0 .. AppWords
    PROVE  ReadSize(SizeWord[n]) = n
  <1>1. IsSize(SizeWord[n])
    BY DEF IsSize
  <1>2. \A m \in 0 .. AppWords : SizeWord[m] = SizeWord[n] => m = n
    BY MetadataAssumption
  <1> QED
    BY <1>1, <1>2 DEF ReadSize

LEMMA CrcAckInit == Init => CrcAckTruthful
  BY AnswersDiffer DEF Init, CrcAckTruthful

LEMMA CrcAckNext == SafetyInv /\ CrcAckTruthful /\ [Next]_vars => CrcAckTruthful'
  <1> SUFFICES ASSUME SafetyInv, CrcAckTruthful, [Next]_vars, sent' = Ack("CRC")
               PROVE  /\ bootloader_is_valid_metadata'
                      /\ InstalledImage' = Image(AppSize)'
                      /\ flash'[CrcAddr] = frame'.crc
    BY DEF CrcAckTruthful
  <1>1. CASE UNCHANGED vars
    <2>1. /\ bootloader_is_valid_metadata
          /\ InstalledImage = Image(AppSize)
          /\ flash[CrcAddr] = frame.crc
      BY <1>1 DEF CrcAckTruthful
    <2>2. Image(AppSize)' = Image(AppSize)
      BY <1>1 DEF Image, AppSize
    <2>3. bootloader_is_valid_metadata' <=> bootloader_is_valid_metadata
      BY <1>1 DEF bootloader_is_valid_metadata, Image
    <2>4. InstalledImage' = InstalledImage /\ flash' = flash /\ frame' = frame
      BY <1>1, StableFlash
    <2>5. bootloader_is_valid_metadata'
      BY <2>1, <2>3
    <2>6. InstalledImage' = Image(AppSize)'
      BY <2>1, <2>2, <2>4
    <2> QED
      BY <2>1, <2>4, <2>5, <2>6
  <1>2. CASE WriteLastMetadata
    <2>1. /\ TypeOKFlash /\ AppSize \in 0 .. AppWords /\ frame.crc \in Word
          /\ step = 3 /\ step \in 0 .. 3
          /\ flash_if_is_in_app_region(APP_START_ADDR, AppSize)
      BY <1>2, PositionType DEF WriteLastMetadata, SafetyInv, TypeOK, AppSize, CrcPacket
    <2>2. /\ \A a \in Address : a # APP_META_ADDR + 3 => flash'[a] = flash[a]
          /\ flash'[APP_META_ADDR + 3] = MetadataWord(3, AppSize, frame.crc)
      <3>1. WriteMetadataWord(step, AppSize, frame.crc, TRUE)
        BY <1>2 DEF WriteLastMetadata
      <3>2. /\ \A a \in Address : a # APP_META_ADDR + step => flash'[a] = flash[a]
            /\ flash'[APP_META_ADDR + step] = MetadataWord(step, AppSize, frame.crc)
        BY <2>1, <3>1, ProgramWholeWord
      <3>3. step = 3
        BY <1>2 DEF WriteLastMetadata
      <3> QED
        BY <3>2, <3>3
    <2>3. /\ frame.crc = Crc[Image(AppSize)]
          /\ \A i \in 0 .. 2 : flash[APP_META_ADDR + i] = MetadataWord(i, AppSize, frame.crc)
      BY <1>2, <2>1 DEF WriteLastMetadata, SafetyInv, MetaInv
    <2>4. \A i \in 0 .. 2 : APP_META_ADDR + i \in Address /\ APP_META_ADDR + i # APP_META_ADDR + 3
      BY LayoutAssumption DEF Address, FLASH_END_ADDR, APP_META_ADDR, APP_FLASH_END_ADDR
    <2>5. \A i \in 0 .. 2 : flash'[APP_META_ADDR + i] = MetadataWord(i, AppSize, frame.crc)
      BY <2>2, <2>3, <2>4
    <2>6. APP_META_ADDR + 0 = MagicAddr
      BY LayoutAssumption DEF MagicAddr, APP_META_ADDR, APP_FLASH_END_ADDR
    <2>7. /\ flash'[MagicAddr] = APP_META_MAGIC
          /\ flash'[SizeAddr] = SizeWord[AppSize]
          /\ flash'[CrcAddr] = frame.crc
          /\ flash'[StateAddr] = APP_META_STATE_VALID
      BY <2>2, <2>5, <2>6 DEF MetadataWord, SizeAddr, CrcAddr, StateAddr
    <2>8. Image(AppSize)' = Image(AppSize) /\ AppSize' = AppSize /\ frame' = frame
      <3>1. AppSize' = AppSize /\ frame' = frame
        BY <1>2 DEF WriteLastMetadata, AppSize
      <3>2. \A i \in 1 .. AppSize : /\ APP_START_ADDR + i - 1 \in Address
                                    /\ APP_START_ADDR + i - 1 # APP_META_ADDR + 3
        BY <2>1, LayoutAssumption DEF Address, FLASH_END_ADDR, APP_META_ADDR, APP_FLASH_END_ADDR
      <3> QED
        BY <3>1, <3>2, <2>2 DEF Image
    <2>9. ReadSize(flash'[SizeAddr]) = AppSize
      BY <2>1, <2>7, ReadWrittenSize
    <2> QED
      BY <2>1, <2>3, <2>7, <2>8, <2>9 DEF bootloader_is_valid_metadata, InstalledImage, Image
  <1> QED
    BY <1>1, <1>2, CrcAckStep

(* An acknowledged CMD_CRC has sealed the words below the write address,   *)
(* over whatever metadata was there before.                                *)
THEOREM CrcAckIsTruthful == Spec => []CrcAckTruthful
  BY CrcAckInit, CrcAckNext, SafetyInvariant, PTL DEF Spec
-----------------------------------------------------------------------------
(* An update that is reported in progress.                                 *)

LEMMA ErasedIsNotValid == Erased # APP_META_STATE_VALID
  BY BitsAssumption DEF Erased, APP_META_STATE_VALID

LEMMA StateAddress ==
    /\ StateAddr \in Address /\ StateAddr \notin AppAddress
    /\ \A i \in 0 .. 2 : StateAddr # APP_META_ADDR + i
  <1>1. APP_META_ADDR \in Nat
    BY LayoutAssumption DEF APP_META_ADDR, APP_FLASH_END_ADDR
  <1> QED
    BY <1>1, Layout DEF StateAddr

(* The state word changes only where metadata is erased or written.        *)
LEMMA SameStateWord ==
    ASSUME TypeOK, InProgressInv, [Next]_vars, pc \notin {"erase", "meta"},
           runtime_app_state' = "UPDATE_IN_PROGRESS" => UNCHANGED runtime_app_state
    PROVE  InProgressInv'
  <1>1. flash'[StateAddr] = flash[StateAddr]
    BY DataKeepsFixedWords, StateAddress DEF FixedWordsKept
  <1> QED
    BY <1>1 DEF InProgressInv

LEMMA InProgressNext ==
    ASSUME ~ProgramMayFail
    PROVE  TypeOK /\ InProgressInv /\ [Next]_vars => InProgressInv'
  <1> SUFFICES ASSUME TypeOK, InProgressInv, [Next]_vars PROVE InProgressInv'
    OBVIOUS
  <1>1. CASE SystemReset \/ AppResets \/ PowerLoss
    BY <1>1 DEF SystemReset, AppResets, PowerLoss, Restart, RamReset, InProgressInv
  <1>2. CASE EraseNextSector \/ EraseLastSector \/ EraseFails
    <2>1. PICK ok \in BOOLEAN : EraseSector(step, ok)
      BY <1>2 DEF EraseNextSector, EraseLastSector, EraseFails
    <2>2. \A a \in Address : flash'[a] \in {Erased, flash[a]}
      BY <2>1, EraseSectorEffect DEF TypeOK
    <2>3. CASE EraseLastSector
      <3>1. step = LastSector /\ EraseSector(step, TRUE)
        BY <2>3 DEF EraseLastSector
      <3>2. \A a \in SectorWords(LastSector) : flash'[a] = Erased
        BY <3>1, EraseSectorEffect DEF TypeOK
      <3>3. StateAddr \in MetaAddress
        BY LayoutAssumption DEF StateAddr, MetaAddress, FLASH_END_ADDR, APP_META_ADDR,
                                APP_FLASH_END_ADDR
      <3> QED
        BY <3>2, <3>3, MetadataInLastSector, ErasedIsNotValid DEF InProgressInv
    <2>4. CASE EraseNextSector \/ EraseFails
      <3>1. UNCHANGED runtime_app_state
        BY <2>4 DEF EraseNextSector, EraseFails
      <3> QED
        BY <2>2, <3>1, ErasedIsNotValid, StateAddress DEF InProgressInv
    <2> QED
      BY <1>2, <2>3, <2>4
  <1>3. CASE WriteNextMetadata \/ MetadataFails
    <2>1. PICK ok \in BOOLEAN : WriteMetadataWord(step, AppSize, frame.crc, ok)
      BY <1>3 DEF WriteNextMetadata, MetadataFails
    <2>2. /\ TypeOKFlash /\ AppSize \in 0 .. AppWords
          /\ step \in 0 .. 3 /\ frame.crc \in Word
      BY <1>3, PositionType DEF WriteNextMetadata, MetadataFails, TypeOK, AppSize, CrcPacket
    <2>3. step # 3
      <3>1. CASE WriteNextMetadata
        BY <3>1 DEF WriteNextMetadata
      <3>2. CASE MetadataFails
        <4> SUFFICES ASSUME step = 3 PROVE FALSE
          OBVIOUS
        <4>1. MetadataWord(step, AppSize, frame.crc) = {}
          BY DEF MetadataWord, APP_META_STATE_VALID
        <4>2. ProgramWord(APP_META_ADDR + step, {}, FALSE)
          BY <3>2, <4>1 DEF MetadataFails, WriteMetadataWord
        <4> QED
          BY <4>2 DEF ProgramWord
      <3> QED
        BY <1>3, <3>1, <3>2
    <2>4. flash'[StateAddr] = flash[StateAddr]
      <3>1. \A a \in Address : a # APP_META_ADDR + step => flash'[a] = flash[a]
        BY <2>1, <2>2, ProgramMetadataWord
      <3>2. StateAddr # APP_META_ADDR + step
        BY <2>2, <2>3, StateAddress
      <3> QED
        BY <3>1, <3>2, StateAddress
    <2>5. UNCHANGED runtime_app_state
      BY <1>3 DEF WriteNextMetadata, MetadataFails
    <2> QED
      BY <2>4, <2>5 DEF InProgressInv
  <1>4. CASE WriteLastMetadata
    BY <1>4 DEF WriteLastMetadata, InProgressInv
  <1>5. CASE \/ BoardFails \/ Startup \/ WaitTimeout \/ CommitFrame \/ FrameFails
             \/ bootloader_jump_to_app \/ AppRequestsUpdate
    <2>1. pc \notin {"erase", "meta"} /\ UNCHANGED runtime_app_state
      BY <1>5 DEF BoardFails, Startup, WaitTimeout, CommitFrame, FrameFails, bootloader_jump_to_app,
                  AppRequestsUpdate
    <2> QED
      BY <2>1, SameStateWord
  <1>6. ASSUME NEW pkt \in Packets, WaitReceive(pkt) \/ bootloader_handle_packet(pkt)
        PROVE  InProgressInv'
    <2>1. CASE \/ WaitReceive(pkt) \/ HandlePing(pkt) \/ HandleInfo(pkt) \/ HandleErase(pkt)
               \/ HandleBoot(pkt) \/ HandleReset(pkt) \/ HandleOther(pkt) \/ HandleFast(pkt)
      <3>1. pc \notin {"erase", "meta"} /\ UNCHANGED runtime_app_state
        BY <2>1 DEF WaitReceive, HandlePing, HandleInfo, HandleErase, HandleBoot, HandleReset,
                    HandleOther, HandleFast
      <3> QED
        BY <3>1, SameStateWord
    <2>2. CASE HandleSetAddr(pkt) \/ HandleData(pkt) \/ HandleCrc(pkt)
      <3>1. /\ pc \notin {"erase", "meta"}
            /\ UNCHANGED runtime_app_state \/ runtime_app_state' = "CRC_FAILED"
        BY <2>2 DEF HandleSetAddr, HandleData, CommitWord, HandleCrc
      <3> QED
        BY <3>1, SameStateWord
    <2> QED
      BY <1>6, <2>1, <2>2 DEF bootloader_handle_packet
  <1>7. CASE UNCHANGED vars
    BY <1>7 DEF InProgressInv
  <1> QED
    BY <1>1, <1>2, <1>3, <1>4, <1>5, <1>6, <1>7 DEF Next, DeviceStep

(* While an update is reported in progress nothing is bootable, as long as *)
(* the flash reports no error after it has programmed a word.              *)
THEOREM InProgressIsTrue ==
    ASSUME ~ProgramMayFail
    PROVE  Spec => []InProgressNotBootable
  <1>1. Init => InProgressInv
    BY DEF Init, RamInit, InProgressInv
  <1>2. TypeOK /\ InProgressInv /\ [Next]_vars => InProgressInv'
    BY InProgressNext
  <1>3. InProgressInv => InProgressNotBootable
    BY DEF InProgressInv, InProgressNotBootable, bootloader_is_valid_metadata
  <1> QED
    BY <1>1, <1>2, <1>3, TypeCorrect, PTL DEF Spec
-----------------------------------------------------------------------------
(* Data that is acknowledged.                                              *)

Position == APP_START_ADDR .. APP_FLASH_END_ADDR

(* What is recorded lies below the write address, also after it has moved  *)
(* on, since nothing below it is written.                                  *)
LEMMA AdvanceKeepsLegacy ==
    ASSUME DataInv, pc # "erase", UNCHANGED last_legacy,
           current_write_addr' \in Nat, current_write_addr <= current_write_addr',
           \A a \in AppAddress : a < current_write_addr => flash'[a] = flash[a]
    PROVE  LastLegacyInv'
  <1>1. ASSUME last_legacy.valid
        PROVE  /\ last_legacy.addr < current_write_addr'
               /\ flash'[last_legacy.addr] = last_legacy.word
    <2>1. last_legacy.addr \in AppAddress /\ current_write_addr \in Position
      BY DEF DataInv, TypeOK, LegacyRecord, Position
    <2>2. last_legacy.addr < current_write_addr
          /\ flash[last_legacy.addr] = last_legacy.word
      BY <1>1 DEF DataInv, LastLegacyInv
    <2> QED
      BY <2>1, <2>2, LayoutAssumption DEF AppAddress, Position, APP_FLASH_END_ADDR
  <1> QED
    BY <1>1 DEF LastLegacyInv

LEMMA AdvanceKeepsFast ==
    ASSUME DataInv, pc # "erase", UNCHANGED last_fast,
           current_write_addr' \in Nat, current_write_addr <= current_write_addr',
           \A a \in AppAddress : a < current_write_addr => flash'[a] = flash[a]
    PROVE  LastFastInv'
  <1>1. ASSUME last_fast.valid
        PROVE  /\ last_fast.addr + 1 < current_write_addr'
               /\ flash'[last_fast.addr] = last_fast.word0
               /\ flash'[last_fast.addr + 1] = last_fast.word1
    <2>1. last_fast.addr \in AppAddress /\ current_write_addr \in Position
      BY DEF DataInv, TypeOK, FastRecord, Position
    <2>2. /\ last_fast.addr + 1 < current_write_addr
          /\ flash[last_fast.addr] = last_fast.word0
          /\ flash[last_fast.addr + 1] = last_fast.word1
      BY <1>1 DEF DataInv, LastFastInv
    <2>3. /\ last_fast.addr < current_write_addr
          /\ last_fast.addr + 1 \in AppAddress
          /\ last_fast.addr + 1 < current_write_addr'
      BY <2>1, <2>2, LayoutAssumption DEF AppAddress, Position, APP_FLASH_END_ADDR
    <2> QED
      BY <2>1, <2>2, <2>3
  <1> QED
    BY <1>1 DEF LastFastInv

LEMMA BelowAddress ==
    ASSUME NEW addr \in Nat, \A a \in Address : a # addr => flash'[a] = flash[a]
    PROVE  \A a \in AppAddress : a < addr => flash'[a] = flash[a]
  <1>1. ASSUME NEW a \in AppAddress, a < addr PROVE flash'[a] = flash[a]
    <2>1. a \in Address /\ a # addr
      BY <1>1, Layout
    <2> QED
      BY <2>1
  <1> QED
    BY <1>1

(* A step that writes nothing below the write address and acknowledges no  *)
(* data keeps what is recorded about the data true.                        *)
LEMMA KeepsRecords ==
    ASSUME DataInv, TypeOK', sent' # Ack("DATA"), pc # "erase",
           pc' = "fast" => flash'[current_write_addr] = frame'.word0,
           UNCHANGED <<current_write_addr, last_legacy, last_fast>>,
           \A a \in AppAddress : a < current_write_addr => flash'[a] = flash[a]
    PROVE  DataInv'
  <1>1. current_write_addr' \in Nat /\ current_write_addr <= current_write_addr'
    BY PositionType DEF DataInv, TypeOK
  <1>2. HalfFrameInv' /\ DataAckTruthful'
    BY DEF HalfFrameInv, DataAckTruthful
  <1> QED
    BY <1>1, <1>2, AdvanceKeepsLegacy, AdvanceKeepsFast DEF DataInv

(* A step after which nothing is recorded, or the flash is being erased.   *)
LEMMA ForgetsRecords ==
    ASSUME TypeOK', sent' # Ack("DATA"), pc' # "fast",
           pc' # "erase" => last_legacy' = NoLegacy /\ last_fast' = NoFast
    PROVE  DataInv'
  BY DEF DataInv, HalfFrameInv, DataAckTruthful, LastLegacyInv, LastFastInv, NoLegacy, NoFast
LEMMA HandleDataKeeps ==
    ASSUME DataInv, TypeOK', NEW pkt \in Packets, HandleData(pkt)
    PROVE  DataInv'
  <1>type. /\ pkt \in DataPacket /\ pkt.word \in Cell
           /\ frame' = pkt /\ pkt.cmd = "DATA" /\ pc = "loop"
           /\ TypeOKFlash /\ current_write_addr \in Position /\ current_write_addr \in Nat
    BY PacketAssumption, PacketFields, PositionType
       DEF HandleData, DataPacket, DataInv, TypeOK, Position
  <1>1. CASE Reply(Ack("DATA")) /\ IsDuplicateWord(pkt)
    <2>1. /\ UNCHANGED <<flash, current_write_addr, last_legacy, last_fast, pc>>
      BY <1>1
    <2>2. /\ last_legacy.addr + 1 = current_write_addr
          /\ flash[last_legacy.addr] = pkt.word
          /\ last_legacy.addr \in Nat
      BY <1>1, <1>type, Layout
         DEF IsDuplicateWord, DataInv, LastLegacyInv, TypeOK, LegacyRecord, AppAddress
    <2>3. flash'[current_write_addr' - 1] = pkt.word
      BY <2>1, <2>2
    <2> QED
      BY <2>1, <2>3, <1>type
         DEF DataInv, HalfFrameInv, DataAckTruthful, LastLegacyInv, LastFastInv
  <1>2. ASSUME NEW err, Reply(Nack("DATA", err)) PROVE DataInv'
    BY <1>2, <1>type, KeepsRecords, AnswersDiffer
  <1>3. CASE flash_if_write_word(current_write_addr, pkt.word, TRUE) /\ CommitWord(pkt)
    <2>1. PICK ok \in BOOLEAN : ok /\ flash_if_write_word(current_write_addr, pkt.word, ok)
      BY <1>3
    <2>2. /\ \A a \in Address : a # current_write_addr => flash'[a] = flash[a]
          /\ flash'[current_write_addr] = pkt.word
      BY <2>1, <1>type, WriteWordEffect
    <2>3. /\ current_write_addr' = current_write_addr + 1
          /\ last_legacy'.addr = current_write_addr
          /\ last_legacy'.word = pkt.word
          /\ pc' = "loop" /\ UNCHANGED last_fast
      BY <1>3, <1>type DEF CommitWord
    <2>4. \A a \in AppAddress : a < current_write_addr => flash'[a] = flash[a]
      BY <2>2, <1>type, BelowAddress
    <2>5. LastFastInv'
      BY <2>3, <2>4, <1>type, AdvanceKeepsFast
    <2>6. LastLegacyInv'
      BY <2>2, <2>3, <1>type DEF LastLegacyInv
    <2>7. DataAckTruthful'
      BY <2>2, <2>3, <1>type DEF DataAckTruthful
    <2> QED
      BY <2>3, <2>5, <2>6, <2>7 DEF DataInv, HalfFrameInv
  <1>4. CASE /\ flash_if_write_word(current_write_addr, pkt.word, FALSE)
             /\ sent' = Nack("DATA", "FLASH_WRITE")
             /\ UNCHANGED <<bootVars, ramVars, pc, step, verified>>
    <2>1. PICK ok \in BOOLEAN : flash_if_write_word(current_write_addr, pkt.word, ok)
      BY <1>4
    <2>2. \A a \in Address : a # current_write_addr => flash'[a] = flash[a]
      BY <2>1, <1>type, WriteWordEffect
    <2>3. \A a \in AppAddress : a < current_write_addr => flash'[a] = flash[a]
      BY <2>2, <1>type, BelowAddress
    <2> QED
      BY <1>4, <2>3, <1>type, KeepsRecords, AnswersDiffer
  <1> QED
    BY <1>1, <1>2, <1>3, <1>4 DEF HandleData

LEMMA HandleFastKeeps ==
    ASSUME DataInv, TypeOK', NEW pkt \in Packets, HandleFast(pkt)
    PROVE  DataInv'
  <1>type. /\ pkt \in FastPacket \cup RawPacket /\ pkt.word0 \in Cell
           /\ frame' = pkt /\ pkt.cmd # "DATA" /\ pc = "loop"
           /\ TypeOKFlash /\ current_write_addr \in Position /\ current_write_addr \in Nat
    BY PacketAssumption, PacketFields, PositionType
       DEF HandleFast, FastPacket, RawPacket, DataInv, TypeOK, Position
  <1>1. CASE Reply(Ack("DATA")) /\ IsDuplicateFrame(pkt)
    <2>1. /\ UNCHANGED <<flash, current_write_addr, last_legacy, last_fast, pc>>
      BY <1>1
    <2>2. /\ last_fast.addr + 2 = current_write_addr
          /\ flash[last_fast.addr] = pkt.word0
          /\ flash[last_fast.addr + 1] = pkt.word1
          /\ last_fast.addr \in Nat
      BY <1>1, <1>type, Layout
         DEF IsDuplicateFrame, DataInv, LastFastInv, TypeOK, FastRecord, AppAddress
    <2>3. /\ flash'[current_write_addr' - 2] = pkt.word0
          /\ flash'[current_write_addr' - 1] = pkt.word1
      BY <2>1, <2>2
    <2> QED
      BY <2>1, <2>3, <1>type
         DEF DataInv, HalfFrameInv, DataAckTruthful, LastLegacyInv, LastFastInv
  <1>2. ASSUME NEW err, Reply(Nack("DATA", err)) PROVE DataInv'
    BY <1>2, <1>type, KeepsRecords, AnswersDiffer
  <1>3. CASE /\ flash_if_write_word(current_write_addr, pkt.word0, TRUE)
             /\ sent' = NoResponse
             /\ UNCHANGED <<bootVars, ramVars, step, verified>>
    <2>1. PICK ok \in BOOLEAN : ok /\ flash_if_write_word(current_write_addr, pkt.word0, ok)
      BY <1>3
    <2>2. /\ \A a \in Address : a # current_write_addr => flash'[a] = flash[a]
          /\ flash'[current_write_addr] = pkt.word0
      BY <2>1, <1>type, WriteWordEffect
    <2>3. \A a \in AppAddress : a < current_write_addr => flash'[a] = flash[a]
      BY <2>2, <1>type, BelowAddress
    <2> QED
      BY <1>3, <2>2, <2>3, <1>type, KeepsRecords, AnswersDiffer
  <1>4. CASE /\ flash_if_write_word(current_write_addr, pkt.word0, FALSE)
             /\ sent' = Nack("DATA", "FLASH_WRITE")
             /\ UNCHANGED <<bootVars, ramVars, pc, step, verified>>
    <2>1. PICK ok \in BOOLEAN : flash_if_write_word(current_write_addr, pkt.word0, ok)
      BY <1>4
    <2>2. \A a \in Address : a # current_write_addr => flash'[a] = flash[a]
      BY <2>1, <1>type, WriteWordEffect
    <2>3. \A a \in AppAddress : a < current_write_addr => flash'[a] = flash[a]
      BY <2>2, <1>type, BelowAddress
    <2> QED
      BY <1>4, <2>3, <1>type, KeepsRecords, AnswersDiffer
  <1> QED
    BY <1>1, <1>2, <1>3, <1>4 DEF HandleFast

(* The second word of a frame: with the first, which was written before.   *)
LEMMA SecondWordKeeps ==
    ASSUME DataInv, TypeOK', CommitFrame \/ FrameFails
    PROVE  DataInv'
  <1>type. /\ frame \in FastPacket \cup RawPacket /\ frame.word1 \in Cell
           /\ frame.cmd # "DATA" /\ pc = "fast" /\ pc' = "loop" /\ frame' = frame
           /\ TypeOKFlash /\ current_write_addr \in Position
           /\ current_write_addr \in Nat /\ current_write_addr + 1 \in Nat
           /\ current_write_addr \in Address
           /\ flash[current_write_addr] = frame.word0
    <2>1. /\ frame \in FastPacket \cup RawPacket /\ frame.word1 \in Cell
          /\ frame.cmd # "DATA" /\ pc = "fast" /\ pc' = "loop" /\ frame' = frame
      BY DEF CommitFrame, FrameFails, FastPacket, RawPacket, DataInv, TypeOK
    <2>2. /\ TypeOKFlash /\ current_write_addr \in Position
          /\ current_write_addr \in Nat /\ current_write_addr + 1 \in Nat
          /\ flash_if_is_in_app_region(current_write_addr, 2)
      BY <2>1, PositionType DEF DataInv, TypeOK, Position
    <2>3. current_write_addr \in Address
      BY <2>2, RoomFor, Layout
    <2> QED
      BY <2>1, <2>2, <2>3 DEF DataInv, HalfFrameInv
  <1>1. PICK ok \in BOOLEAN : flash_if_write_word(current_write_addr + 1, frame.word1, ok)
    BY DEF CommitFrame, FrameFails
  <1>2. \A a \in Address : a # current_write_addr + 1 => flash'[a] = flash[a]
    BY <1>1, <1>type, WriteWordEffect
  <1>3. /\ \A a \in AppAddress : a < current_write_addr => flash'[a] = flash[a]
        /\ flash'[current_write_addr] = frame.word0
    BY <1>2, <1>type, Layout
  <1>4. CASE CommitFrame
    <2>1. PICK good \in BOOLEAN :
            good /\ flash_if_write_word(current_write_addr + 1, frame.word1, good)
      BY <1>4 DEF CommitFrame
    <2>2. flash'[current_write_addr + 1] = frame.word1
      BY <2>1, <1>type, WriteWordEffect
    <2>3. current_write_addr' = current_write_addr + 2 /\ UNCHANGED last_legacy
      BY <1>4 DEF CommitFrame
    <2>4. LastLegacyInv'
      BY <1>3, <1>type, <2>3, AdvanceKeepsLegacy
    <2>5. LastFastInv'
      <3>1. CASE RecordFrame
        BY <1>3, <1>type, <2>2, <2>3, <3>1 DEF RecordFrame, LastFastInv
      <3>2. CASE UNCHANGED last_fast
        BY <1>3, <1>type, <2>3, <3>2, AdvanceKeepsFast
      <3> QED
        BY <1>4, <3>1, <3>2 DEF CommitFrame
    <2>6. DataAckTruthful'
      BY <1>3, <1>type, <2>2, <2>3 DEF DataAckTruthful
    <2> QED
      BY <1>type, <2>4, <2>5, <2>6 DEF DataInv, HalfFrameInv
  <1>5. CASE FrameFails
    BY <1>3, <1>5, <1>type, KeepsRecords, AnswersDiffer DEF FrameFails
  <1> QED
    BY <1>4, <1>5

LEMMA DataInvNext ==
    ASSUME ~EraseMayFail
    PROVE  DataInv /\ [Next]_vars => DataInv'
  <1> SUFFICES ASSUME DataInv, [Next]_vars PROVE DataInv'
    OBVIOUS
  <1>type. TypeOK /\ TypeOK'
    BY TypeNext DEF DataInv
  <1>1. CASE BoardFails \/ Startup \/ WaitTimeout \/ bootloader_jump_to_app \/ AppRequestsUpdate
    <2>1. /\ sent' # Ack("DATA") /\ pc # "erase" /\ pc' # "fast"
          /\ UNCHANGED <<flash, current_write_addr, last_legacy, last_fast>>
      BY <1>1, AnswersDiffer DEF BoardFails, Startup, WaitTimeout, StartApp,
                                 bootloader_jump_to_app, AppRequestsUpdate
    <2> QED
      BY <2>1, <1>type, KeepsRecords
  <1>2. CASE SystemReset \/ AppResets \/ PowerLoss
    BY <1>2, <1>type, ForgetsRecords, AnswersDiffer
       DEF SystemReset, AppResets, PowerLoss, Restart, RamReset
  <1>3. CASE EraseNextSector \/ EraseLastSector
    <2>1. sent' # Ack("DATA") /\ pc' # "fast"
      BY <1>3, AnswersDiffer DEF EraseNextSector, EraseLastSector
    <2>2. pc' # "erase" => last_legacy' = NoLegacy /\ last_fast' = NoFast
      BY <1>3 DEF EraseNextSector, EraseLastSector, StartTransfer
    <2> QED
      BY <2>1, <2>2, <1>type, ForgetsRecords
  <1>4. CASE EraseFails
    BY <1>4 DEF EraseFails, EraseSector
  <1>5. CASE CommitFrame \/ FrameFails
    BY <1>5, <1>type, SecondWordKeeps
  <1>6. CASE WriteNextMetadata \/ WriteLastMetadata \/ MetadataFails
    <2>1. PICK ok \in BOOLEAN : WriteMetadataWord(step, AppSize, frame.crc, ok)
      BY <1>6 DEF WriteNextMetadata, WriteLastMetadata, MetadataFails
    <2>2. /\ TypeOKFlash /\ AppSize \in 0 .. AppWords
          /\ step \in 0 .. 3 /\ frame.crc \in Word
      BY <1>6, <1>type, PositionType
         DEF WriteNextMetadata, WriteLastMetadata, MetadataFails, TypeOK, AppSize, CrcPacket
    <2>3. /\ \A a \in Address : a # APP_META_ADDR + step => flash'[a] = flash[a]
          /\ APP_META_ADDR \in Nat
      BY <2>1, <2>2, ProgramMetadataWord, LayoutAssumption DEF APP_META_ADDR, APP_FLASH_END_ADDR
    <2>4. \A a \in AppAddress : flash'[a] = flash[a]
      BY <2>2, <2>3, Layout
    <2>5. /\ sent' # Ack("DATA") /\ pc = "meta" /\ pc' \in {"meta", "loop"}
          /\ UNCHANGED <<current_write_addr, last_legacy, last_fast>>
      BY <1>6, AnswersDiffer DEF WriteNextMetadata, WriteLastMetadata, MetadataFails
    <2> QED
      BY <2>4, <2>5, <1>type, KeepsRecords
  <1>7. ASSUME NEW pkt \in Packets,
               \/ WaitReceive(pkt) \/ HandlePing(pkt) \/ HandleInfo(pkt) \/ HandleCrc(pkt)
               \/ HandleBoot(pkt) \/ HandleReset(pkt) \/ HandleOther(pkt)
        PROVE  DataInv'
    <2>1. /\ sent' # Ack("DATA") /\ pc # "erase" /\ pc' # "fast"
          /\ UNCHANGED <<flash, current_write_addr, last_legacy, last_fast>>
      BY <1>7, AnswersDiffer DEF WaitReceive, HandlePing, HandleInfo, HandleCrc, HandleBoot,
                                 HandleReset, HandleOther
    <2> QED
      BY <2>1, <1>type, KeepsRecords
  <1>8. ASSUME NEW pkt \in Packets, HandleErase(pkt) PROVE DataInv'
    <2>1. sent' # Ack("DATA") /\ pc' = "erase"
      BY <1>8, AnswersDiffer DEF HandleErase
    <2> QED
      BY <2>1, <1>type, ForgetsRecords
  <1>9. ASSUME NEW pkt \in Packets, HandleSetAddr(pkt) PROVE DataInv'
    <2>1. CASE StartTransfer(pkt.addr) /\ sent' = Ack("SET_ADDR") /\ pc' = pc
      BY <1>9, <2>1, <1>type, ForgetsRecords, AnswersDiffer DEF HandleSetAddr, StartTransfer
    <2>2. CASE \E err : Reply(Nack("SET_ADDR", err))
      BY <1>9, <2>2, <1>type, KeepsRecords, AnswersDiffer DEF HandleSetAddr
    <2> QED
      BY <1>9, <2>1, <2>2 DEF HandleSetAddr
  <1>10. ASSUME NEW pkt \in Packets, HandleData(pkt) \/ HandleFast(pkt) PROVE DataInv'
    BY <1>10, <1>type, HandleDataKeeps, HandleFastKeeps
  <1>11. CASE UNCHANGED vars
    BY <1>11, <1>type
       DEF DataInv, HalfFrameInv, DataAckTruthful, LastLegacyInv, LastFastInv
  <1> QED
    BY <1>1, <1>2, <1>3, <1>4, <1>5, <1>6, <1>7, <1>8, <1>9, <1>10, <1>11
       DEF Next, DeviceStep, bootloader_handle_packet

(* What the device remembers of the last word and the last frame, and the  *)
(* first half of a frame, are in the flash, as long as no erase fails.     *)
THEOREM DataInvariant ==
    ASSUME ~EraseMayFail
    PROVE  Spec => []DataInv
  <1>1. Init => DataInv
    BY TypeInit, AnswersDiffer
       DEF Init, RamInit, NoLegacy, NoFast, DataInv, HalfFrameInv, DataAckTruthful,
           LastLegacyInv, LastFastInv
  <1>2. DataInv /\ [Next]_vars => DataInv'
    BY DataInvNext
  <1> QED
    BY <1>1, <1>2, PTL DEF Spec

(* Acknowledged data is in the flash, also when a repeated packet is       *)
(* acknowledged without writing, as long as no erase fails: the run        *)
(* StaleDuplicate shows that this cannot be left out.                      *)
THEOREM DataAckIsTruthful ==
    ASSUME ~EraseMayFail
    PROVE  Spec => []DataAckTruthful
  <1>1. DataInv => DataAckTruthful
    BY DEF DataInv
  <1> QED
    BY <1>1, DataInvariant, PTL
=============================================================================
