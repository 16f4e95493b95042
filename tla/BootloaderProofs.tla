-------------------------- MODULE BootloaderProofs --------------------------
(***************************************************************************)
(* Type correctness and safety of Bootloader, and that it implements       *)
(* SafeBoot, for every layout, packet set and fault assumption that its    *)
(* constants allow.                                                        *)
(***************************************************************************)
EXTENDS BootloaderSafety, FlashIfProofs, TLAPS

USE DEF Loop, Reply, vars, ramVars, bootVars

-----------------------------------------------------------------------------
(* The packets and the positions the handlers work on.                     *)

LEMMA PacketFields ==
    ASSUME NEW pkt \in PacketType
    PROVE  /\ pkt.cmd = "FAST" => pkt \in FastPacket
           /\ pkt.cmd = "RAW" => pkt \in RawPacket
           /\ pkt.cmd = "DATA" => pkt \in DataPacket
           /\ pkt.cmd = "SET_ADDR" => pkt \in SetAddrPacket
           /\ pkt.cmd = "CRC" => pkt \in CrcPacket
  BY DEF PacketType, FastPacket, RawPacket, DataPacket, SetAddrPacket, CrcPacket,
         InfoPacket, PlainPacket

(* A position with room for n words leads to a position in the region.     *)
LEMMA RoomFor ==
    ASSUME NEW addr \in Nat, NEW n \in {1, 2}, flash_if_is_in_app_region(addr, n)
    PROVE  /\ addr \in AppAddress
           /\ addr + n - 1 \in AppAddress
           /\ addr + n \in APP_START_ADDR .. APP_FLASH_END_ADDR
  BY LayoutAssumption DEF flash_if_is_in_app_region, AppAddress, APP_FLASH_END_ADDR

LEMMA PositionType ==
    ASSUME NEW addr \in APP_START_ADDR .. APP_FLASH_END_ADDR
    PROVE  addr \in Nat /\ addr - APP_START_ADDR \in 0 .. AppWords
  BY LayoutAssumption DEF APP_FLASH_END_ADDR

(* The flash operations of the handlers, seen from a state of the right    *)
(* type.                                                                   *)
LEMMA WriteWordEffect ==
    ASSUME NEW addr \in Nat, NEW w \in Cell, NEW ok \in BOOLEAN,
           TypeOKFlash,
           flash_if_write_word(addr, w, ok)
    PROVE  /\ TypeOKFlash'
           /\ \A a \in Address : a # addr \/ a \notin AppAddress => flash'[a] = flash[a]
           /\ ok => /\ flash_if_is_in_app_region(addr, 1)
                    /\ flash'[addr] = w
  <1>1. CASE flash_if_is_in_app_region(addr, 1)
    <2>1. addr \in AppAddress
      BY <1>1, RoomFor
    <2> QED
      BY <1>1, <2>1, ProgramAppWord DEF flash_if_write_word
  <1>2. CASE ~flash_if_is_in_app_region(addr, 1)
    BY <1>2 DEF flash_if_write_word, TypeOKFlash
  <1> QED
    BY <1>1, <1>2

-----------------------------------------------------------------------------
(* Type correctness.                                                       *)

LEMMA NothingRecorded == NoLegacy \in LegacyRecord /\ NoFast \in FastRecord
  BY SequenceAssumption, CellAssumption, Layout
     DEF NoLegacy, NoFast, LegacyRecord, FastRecord

LEMMA InitialRam == RamInit =>
    /\ current_write_addr \in APP_START_ADDR .. APP_FLASH_END_ADDR
    /\ expected_seq \in 0 .. LegacySeqMod - 1
    /\ expected_fast_seq \in 0 .. FastSeqMod - 1
    /\ last_legacy \in LegacyRecord
    /\ last_fast \in FastRecord
    /\ app_crc_valid \in BOOLEAN
    /\ runtime_app_state \in AppStates
  <1>1. APP_START_ADDR \in APP_START_ADDR .. APP_FLASH_END_ADDR
    BY LayoutAssumption DEF APP_FLASH_END_ADDR
  <1>2. 0 \in 0 .. LegacySeqMod - 1 /\ 0 \in 0 .. FastSeqMod - 1
    BY SequenceAssumption
  <1> QED
    BY <1>1, <1>2, NothingRecorded DEF RamInit, AppStates

LEMMA TypeInit == Init => TypeOK
  <1> SUFFICES ASSUME Init PROVE TypeOK
    OBVIOUS
  <1>1. TypeOKFlash
    BY EnvironmentAssumption DEF Init, TypeOKFlash
  <1>2. verified \subseteq Images
    BY DEF Init
  <1> QED
    BY <1>1, <1>2, InitialRam DEF Init, TypeOK

LEMMA RestartType == ASSUME TypeOK, Restart, TypeOKFlash', bkp0r' \in BOOLEAN
                     PROVE  TypeOK'
  <1>1. APP_START_ADDR \in APP_START_ADDR .. APP_FLASH_END_ADDR
    BY LayoutAssumption DEF APP_FLASH_END_ADDR
  <1>2. 0 \in 0 .. LegacySeqMod - 1 /\ 0 \in 0 .. FastSeqMod - 1
    BY SequenceAssumption
  <1>3. app_crc_valid' \in BOOLEAN /\ runtime_app_state' \in AppStates
    BY DEF Restart, RamReset, AppStates
  <1> QED
    BY <1>1, <1>2, <1>3, NothingRecorded DEF TypeOK, Restart, RamReset

LEMMA StartTransferType ==
    ASSUME TypeOK, NEW addr \in APP_START_ADDR .. APP_FLASH_END_ADDR, StartTransfer(addr)
    PROVE  /\ current_write_addr' \in APP_START_ADDR .. APP_FLASH_END_ADDR
           /\ expected_seq' \in 0 .. LegacySeqMod - 1
           /\ expected_fast_seq' \in 0 .. FastSeqMod - 1
           /\ last_legacy' \in LegacyRecord
           /\ last_fast' \in FastRecord
           /\ app_crc_valid' \in BOOLEAN
  <1>1. 0 \in 0 .. LegacySeqMod - 1 /\ 0 \in 0 .. FastSeqMod - 1
    BY SequenceAssumption
  <1> QED
    BY <1>1, NothingRecorded DEF StartTransfer

(* One step per action; what an action leaves alone keeps its type.        *)
LEMMA TypeNext == TypeOK /\ [Next]_vars => TypeOK'
  <1> SUFFICES ASSUME TypeOK, [Next]_vars PROVE TypeOK'
    OBVIOUS
  <1> USE DEF StartTransfer
  <1>type. /\ TypeOKFlash
           /\ current_write_addr \in Nat /\ current_write_addr + 1 \in Nat
           /\ AppSize \in 0 .. AppWords
    BY PositionType DEF TypeOK, AppSize
  <1>1. CASE Startup
    BY <1>1 DEF Startup, TypeOK, TypeOKFlash, AppSize
  <1>2. ASSUME NEW pkt \in Packets, WaitReceive(pkt) PROVE TypeOK'
    BY <1>2, PacketAssumption DEF WaitReceive, TypeOK, TypeOKFlash, AppSize
  <1>3. CASE WaitTimeout
    BY <1>3 DEF WaitTimeout, StartApp, TypeOK, TypeOKFlash, AppSize
  <1>4. ASSUME NEW pkt \in Packets,
               \/ HandlePing(pkt) \/ HandleInfo(pkt) \/ HandleBoot(pkt)
               \/ HandleReset(pkt) \/ HandleOther(pkt)
        PROVE  TypeOK'
    BY <1>4, PacketAssumption
       DEF HandlePing, HandleInfo, HandleBoot, HandleReset, HandleOther, TypeOK, TypeOKFlash
  <1>5. ASSUME NEW pkt \in Packets, HandleErase(pkt) PROVE TypeOK'
    BY <1>5, PacketAssumption, LayoutAssumption DEF HandleErase, TypeOK, TypeOKFlash, Sectors
  <1>6. CASE EraseNextSector
    <2>1. TypeOKFlash'
      BY <1>6, EraseSectorEffect, <1>type DEF EraseNextSector
    <2> QED
      BY <1>6, <2>1, LayoutAssumption DEF EraseNextSector, TypeOK, Sectors
  <1>7. CASE EraseLastSector
    <2>1. TypeOKFlash'
      BY <1>7, EraseSectorEffect, <1>type DEF EraseLastSector
    <2>2. APP_START_ADDR \in APP_START_ADDR .. APP_FLASH_END_ADDR
      BY LayoutAssumption DEF APP_FLASH_END_ADDR
    <2> QED
      BY <1>7, <2>1, <2>2, StartTransferType DEF EraseLastSector, TypeOK, AppStates
  <1>8. CASE EraseFails
    <2>1. TypeOKFlash'
      BY <1>8, EraseSectorEffect, <1>type DEF EraseFails
    <2> QED
      BY <1>8, <2>1 DEF EraseFails, TypeOK
  <1>9. ASSUME NEW pkt \in Packets, HandleSetAddr(pkt) PROVE TypeOK'
    <2>1. pkt \in PacketType /\ pkt \in SetAddrPacket /\ pkt.addr \in Nat
      BY <1>9, PacketAssumption, PacketFields DEF HandleSetAddr, SetAddrPacket
    <2>2. CASE /\ flash_if_is_in_app_region(pkt.addr, 1)
               /\ StartTransfer(pkt.addr)
               /\ UNCHANGED <<flash, bootVars, runtime_app_state, pc, step, verified>>
      <3>1. pkt.addr \in APP_START_ADDR .. APP_FLASH_END_ADDR
        BY <2>1, <2>2, LayoutAssumption DEF flash_if_is_in_app_region, APP_FLASH_END_ADDR
      <3> QED
        BY <1>9, <2>1, <2>2, <3>1, StartTransferType DEF HandleSetAddr, TypeOK, TypeOKFlash
    <2>3. CASE UNCHANGED <<flash, bootVars, ramVars, pc, step, verified>>
      BY <1>9, <2>1, <2>3 DEF HandleSetAddr, TypeOK, TypeOKFlash
    <2> QED
      BY <1>9, <2>2, <2>3 DEF HandleSetAddr
  <1>10. ASSUME NEW pkt \in Packets, HandleData(pkt) PROVE TypeOK'
    <2>1. pkt \in PacketType /\ pkt \in DataPacket /\ pkt.word \in Cell
      BY <1>10, PacketAssumption, PacketFields DEF HandleData, DataPacket
    <2>2. CASE flash_if_write_word(current_write_addr, pkt.word, TRUE) /\ CommitWord(pkt)
      <3>1. TypeOKFlash' /\ flash_if_is_in_app_region(current_write_addr, 1)
        BY <2>1, <2>2, <1>type, WriteWordEffect
      <3>2. /\ current_write_addr \in AppAddress
            /\ current_write_addr + 1 \in APP_START_ADDR .. APP_FLASH_END_ADDR
        BY <3>1, <1>type, RoomFor
      <3>3. last_legacy' \in LegacyRecord
        BY <2>1, <2>2, <3>2 DEF CommitWord, LegacyRecord, DataPacket
      <3>4. expected_seq' \in 0 .. LegacySeqMod - 1
        BY <2>2, SequenceAssumption DEF CommitWord, TypeOK
      <3> QED
        BY <1>10, <2>1, <2>2, <3>1, <3>2, <3>3, <3>4 DEF HandleData, CommitWord, TypeOK
    <2>3. CASE flash_if_write_word(current_write_addr, pkt.word, FALSE)
               /\ UNCHANGED <<bootVars, ramVars, pc, step, verified>>
      <3>1. TypeOKFlash'
        BY <2>1, <2>3, <1>type, WriteWordEffect
      <3> QED
        BY <1>10, <2>1, <2>3, <3>1 DEF HandleData, TypeOK
    <2>4. CASE UNCHANGED <<flash, bootVars, ramVars, pc, step, verified>>
      BY <1>10, <2>1, <2>4 DEF HandleData, TypeOK, TypeOKFlash
    <2> QED
      BY <1>10, <2>2, <2>3, <2>4 DEF HandleData
  <1>11. ASSUME NEW pkt \in Packets, HandleFast(pkt) PROVE TypeOK'
    <2>1. pkt \in PacketType /\ pkt \in FastPacket \cup RawPacket /\ pkt.word0 \in Cell
      BY <1>11, PacketAssumption, PacketFields DEF HandleFast, FastPacket, RawPacket
    <2>2. CASE /\ FrameFits
               /\ flash_if_write_word(current_write_addr, pkt.word0, TRUE)
               /\ pc' = "fast"
               /\ UNCHANGED <<bootVars, ramVars, step, verified>>
      <3>1. TypeOKFlash'
        BY <2>1, <2>2, <1>type, WriteWordEffect
      <3> QED
        BY <1>11, <2>1, <2>2, <3>1
           DEF HandleFast, TypeOK, FrameFits, flash_if_is_in_app_region
    <2>3. CASE flash_if_write_word(current_write_addr, pkt.word0, FALSE)
               /\ UNCHANGED <<bootVars, ramVars, pc, step, verified>>
      <3>1. TypeOKFlash'
        BY <2>1, <2>3, <1>type, WriteWordEffect
      <3> QED
        BY <1>11, <2>1, <2>3, <3>1 DEF HandleFast, TypeOK
    <2>4. CASE UNCHANGED <<flash, bootVars, ramVars, pc, step, verified>>
      BY <1>11, <2>1, <2>4 DEF HandleFast, TypeOK, TypeOKFlash
    <2> QED
      BY <1>11, <2>2, <2>3, <2>4 DEF HandleFast
  <1>12. CASE CommitFrame
    <2>1. /\ frame \in FastPacket \cup RawPacket
          /\ frame.word0 \in Cell /\ frame.word1 \in Cell
          /\ flash_if_is_in_app_region(current_write_addr, 2)
      BY <1>12 DEF CommitFrame, TypeOK, FastPacket, RawPacket
    <2>2. /\ current_write_addr \in AppAddress
          /\ current_write_addr + 2 \in APP_START_ADDR .. APP_FLASH_END_ADDR
      BY <2>1, <1>type, RoomFor
    <2>3. TypeOKFlash'
      BY <1>12, <2>1, <1>type, WriteWordEffect DEF CommitFrame
    <2>4. /\ last_fast' \in FastRecord
          /\ expected_fast_seq' \in 0 .. FastSeqMod - 1
      <3>1. CASE frame.cmd = "FAST" /\ RecordFrame
        <4>1. frame \in FastPacket
          BY <2>1, <3>1 DEF FastPacket, RawPacket
        <4> QED
          BY <3>1, <4>1, <2>2, SequenceAssumption DEF RecordFrame, FastRecord, FastPacket, TypeOK
      <3>2. CASE UNCHANGED <<last_fast, expected_fast_seq>>
        BY <3>2 DEF TypeOK
      <3> QED
        BY <1>12, <3>1, <3>2 DEF CommitFrame
    <2> QED
      BY <1>12, <2>2, <2>3, <2>4 DEF CommitFrame, TypeOK
  <1>13. CASE FrameFails
    <2>1. frame.word1 \in Cell
      BY <1>13 DEF FrameFails, TypeOK, FastPacket, RawPacket
    <2>2. TypeOKFlash'
      BY <1>13, <2>1, <1>type, WriteWordEffect DEF FrameFails
    <2> QED
      BY <1>13, <2>2 DEF FrameFails, TypeOK
  <1>14. ASSUME NEW pkt \in Packets, HandleCrc(pkt) PROVE TypeOK'
    <2>1. pkt \in PacketType /\ pkt \in CrcPacket
      BY <1>14, PacketAssumption, PacketFields DEF HandleCrc
    <2>2. CASE /\ app_crc_valid' = FALSE
               /\ runtime_app_state' = "CRC_FAILED"
               /\ UNCHANGED <<flash, bootVars, current_write_addr, expected_seq,
                              expected_fast_seq, last_legacy, last_fast, pc, step, verified>>
      BY <1>14, <2>1, <2>2 DEF HandleCrc, TypeOK, TypeOKFlash, AppStates
    <2>3. CASE /\ flash_if_is_in_app_region(APP_START_ADDR, AppSize)
               /\ pc' = "meta"
               /\ step' = 0
               /\ verified' = verified \cup {Image(AppSize)}
               /\ UNCHANGED <<flash, bootVars, ramVars>>
      <3>1. Image(AppSize) \in Images
        BY <1>type, ImageType
      <3> QED
        BY <1>14, <2>1, <2>3, <3>1
           DEF HandleCrc, TypeOK, TypeOKFlash, AppSize, flash_if_is_in_app_region
    <2>4. CASE UNCHANGED <<flash, bootVars, ramVars, pc, step, verified>>
      BY <1>14, <2>1, <2>4 DEF HandleCrc, TypeOK, TypeOKFlash
    <2> QED
      BY <1>14, <2>2, <2>3, <2>4 DEF HandleCrc
  <1>15. CASE WriteNextMetadata
    <2>1. frame.crc \in Word /\ step \in 0 .. 3
      BY <1>15 DEF WriteNextMetadata, TypeOK, CrcPacket
    <2>2. TypeOKFlash'
      BY <1>15, <2>1, <1>type, ProgramMetadataWord DEF WriteNextMetadata
    <2> QED
      BY <1>15, <2>1, <2>2 DEF WriteNextMetadata, TypeOK, AppSize, flash_if_is_in_app_region
  <1>16. CASE WriteLastMetadata
    <2>1. frame.crc \in Word /\ step \in 0 .. 3
      BY <1>16 DEF WriteLastMetadata, TypeOK, CrcPacket
    <2>2. TypeOKFlash'
      BY <1>16, <2>1, <1>type, ProgramMetadataWord DEF WriteLastMetadata
    <2> QED
      BY <1>16, <2>2 DEF WriteLastMetadata, TypeOK, AppStates
  <1>17. CASE MetadataFails
    <2>1. frame.crc \in Word /\ step \in 0 .. 3
      BY <1>17 DEF MetadataFails, TypeOK, CrcPacket
    <2>2. TypeOKFlash'
      BY <1>17, <2>1, <1>type, ProgramMetadataWord DEF MetadataFails
    <2> QED
      BY <1>17, <2>2 DEF MetadataFails, TypeOK
  <1>18. CASE bootloader_jump_to_app
    BY <1>18 DEF bootloader_jump_to_app, StartApp, TypeOK, TypeOKFlash
  <1>19. CASE SystemReset \/ AppResets
    BY <1>19, RestartType DEF SystemReset, AppResets, TypeOK, TypeOKFlash
  <1>20. CASE AppRequestsUpdate
    BY <1>20 DEF AppRequestsUpdate, TypeOK, TypeOKFlash
  <1>21. CASE PowerLoss
    <2>1. bkp0r' \in BOOLEAN
      BY <1>21 DEF PowerLoss, TypeOK
    <2>2. TypeOKFlash'
      <3>1. CASE UNCHANGED flash
        BY <3>1 DEF TypeOK, TypeOKFlash
      <3>2. ASSUME NEW D, flash' = ErasedIn(D) PROVE TypeOKFlash'
        BY <3>2, <1>type, EraseWords
      <3>3. CASE pc = "meta" /\ flash' \in TornMetadataWord(step, AppSize, frame.crc)
        <4>1. frame.crc \in Word /\ step \in 0 .. 3
          BY <3>3 DEF TypeOK, CrcPacket
        <4> QED
          BY <3>3, <4>1, <1>type, TearMetadataWord
      <3> QED
        BY <1>21, <3>1, <3>2, <3>3 DEF PowerLoss
    <2> QED
      BY <1>21, <2>1, <2>2, RestartType DEF PowerLoss
  <1>22. CASE BoardFails \/ UNCHANGED vars
    BY <1>22 DEF BoardFails, TypeOK, TypeOKFlash, AppSize
  <1> QED
    BY <1>1, <1>2, <1>3, <1>4, <1>5, <1>6, <1>7, <1>8, <1>9, <1>10, <1>11, <1>12, <1>13,
       <1>14, <1>15, <1>16, <1>17, <1>18, <1>19, <1>20, <1>21, <1>22
       DEF Next, DeviceStep, bootloader_handle_packet

(* Every reachable state has its type: in particular the write address     *)
(* stays in the application area, so that no data packet reaches the       *)
(* bootloader or the metadata.                                             *)
THEOREM TypeCorrect == Spec => []TypeOK
  BY TypeInit, TypeNext, PTL DEF Spec

-----------------------------------------------------------------------------
(* Safety: SafetyInv is inductive.  A step is quiet, or programs data, or  *)
(* erases, or programs a metadata word.                                    *)

LEMMA StableFlash ==
    ASSUME UNCHANGED flash
    PROVE  /\ bootloader_is_valid_app' <=> bootloader_is_valid_app
           /\ InstalledImage' = InstalledImage
           /\ \A n \in 0 .. AppWords : Image(n)' = Image(n)
  BY DEF bootloader_is_valid_app, bootloader_is_valid_metadata, InstalledImage, Image

LEMMA QuietStep ==
    ASSUME SafetyInv, TypeOK', UNCHANGED <<flash, verified>>, pc' # "meta",
           pc' \in {"wait", "booting", "app"} =>
               pc \in {"wait", "booting", "app"} \/ bootloader_is_valid_app
    PROVE  SafetyInv'
  BY StableFlash DEF SafetyInv, SealInv, MetaInv, JumpOnlyValid

LEMMA DataStep ==
    ASSUME SafetyInv, TypeOK', UNCHANGED verified,
           pc' \notin {"meta", "wait", "booting", "app"},
           \A a \in Address : a \notin AppAddress => flash'[a] = flash[a]
    PROVE  SafetyInv'
  <1>1. flash'[StateAddr] = flash[StateAddr] /\ flash'[CrcAddr] = flash[CrcAddr]
    <2>1. StateAddr \notin AppAddress /\ CrcAddr \notin AppAddress
      BY LayoutAssumption DEF StateAddr, CrcAddr, AppAddress, APP_META_ADDR, APP_FLASH_END_ADDR
    <2> QED
      BY <2>1, Layout
  <1> QED
    BY <1>1 DEF SafetyInv, SealInv, MetaInv, JumpOnlyValid

LEMMA EraseStep ==
    ASSUME SafetyInv, TypeOK', pc' \notin {"meta", "wait", "booting", "app"},
           \A a \in Address : flash'[a] \in {Erased, flash[a]},
           verified' = verified \/ flash'[StateAddr] = Erased
    PROVE  SafetyInv'
  <1>1. Erased # APP_META_STATE_VALID
    BY BitsAssumption DEF Erased, APP_META_STATE_VALID
  <1>2. /\ flash'[StateAddr] \in {Erased, flash[StateAddr]}
        /\ flash'[CrcAddr] \in {Erased, flash[CrcAddr]}
    BY Layout
  <1>3. SealInv'
    BY <1>1, <1>2, CrcIdealised DEF SafetyInv, SealInv
  <1> QED
    BY <1>3 DEF SafetyInv, MetaInv, JumpOnlyValid

(* Programming a metadata word: the CRC word can only become a confirmed   *)
(* CRC, because the bits it loses are those of one; and the state word is  *)
(* programmed when the CRC word holds the confirmed one.                   *)
LEMMA MetadataStep ==
    ASSUME SafetyInv, TypeOK', pc = "meta", NEW ok \in BOOLEAN,
           WriteMetadataWord(step, AppSize, frame.crc, ok),
           UNCHANGED <<current_write_addr, frame, verified>>,
           pc' \notin {"wait", "booting", "app"},
           pc' = "meta" => ok /\ step' = step + 1
    PROVE  SafetyInv'
  <1>1. /\ TypeOKFlash /\ AppSize \in 0 .. AppWords
        /\ step \in 0 .. 3 /\ frame.crc \in Word
    BY PositionType DEF SafetyInv, TypeOK, AppSize, CrcPacket
  <1>2. /\ \A a \in Address : a # APP_META_ADDR + step => flash'[a] = flash[a]
        /\ flash'[APP_META_ADDR + step] \in
             {flash[APP_META_ADDR + step],
              flash[APP_META_ADDR + step] \cap MetadataWord(step, AppSize, frame.crc)}
        /\ ok => flash'[APP_META_ADDR + step] = MetadataWord(step, AppSize, frame.crc)
    BY <1>1, ProgramMetadataWord
  <1>3. /\ Image(AppSize) \in verified /\ Image(AppSize) \in Images
        /\ frame.crc = Crc[Image(AppSize)]
    BY <1>1, ImageType DEF SafetyInv, MetaInv
  <1>4. SealInv'
    <2> SUFFICES ASSUME flash'[StateAddr] = APP_META_STATE_VALID,
                        NEW im \in Images, flash'[CrcAddr] = Crc[im]
                 PROVE  im \in verified
      BY DEF SealInv
    <2>1. CASE step = 3
      <3>1. flash'[CrcAddr] = flash[CrcAddr]
        BY <2>1, <1>2, Layout DEF CrcAddr, APP_META_ADDR, APP_FLASH_END_ADDR
      <3>2. flash[APP_META_ADDR + 2] = MetadataWord(2, AppSize, frame.crc)
        BY <2>1 DEF SafetyInv, MetaInv
      <3>3. flash[CrcAddr] = frame.crc
        BY <3>2 DEF CrcAddr, MetadataWord
      <3> QED
        BY <3>1, <3>3, <1>3, CrcIdealised
    <2>2. CASE step = 2
      <3>1. flash'[StateAddr] = flash[StateAddr]
        BY <2>2, <1>2, Layout DEF StateAddr, APP_META_ADDR, APP_FLASH_END_ADDR
      <3>2. flash'[CrcAddr] \in {flash[CrcAddr], flash[CrcAddr] \cap frame.crc}
        BY <2>2, <1>2 DEF CrcAddr, MetadataWord
      <3>3. CASE flash'[CrcAddr] = flash[CrcAddr]
        BY <3>1, <3>3 DEF SafetyInv, SealInv
      <3>4. CASE flash'[CrcAddr] = flash[CrcAddr] \cap frame.crc
        <4>1. Crc[im] \subseteq Crc[Image(AppSize)]
          BY <3>4, <1>3
        <4> QED
          BY <4>1, <1>3, CrcIdealised
      <3> QED
        BY <3>2, <3>3, <3>4
    <2>3. CASE step \in {0, 1}
      <3>1. flash'[StateAddr] = flash[StateAddr] /\ flash'[CrcAddr] = flash[CrcAddr]
        BY <2>3, <1>2, Layout DEF StateAddr, CrcAddr, APP_META_ADDR, APP_FLASH_END_ADDR
      <3> QED
        BY <3>1 DEF SafetyInv, SealInv
    <2> QED
      BY <2>1, <2>2, <2>3, <1>1
  <1>5. MetaInv'
    <2> SUFFICES ASSUME pc' = "meta"
                 PROVE  /\ Image(AppSize)' \in verified
                        /\ frame.crc = Crc[Image(AppSize)']
                        /\ \A i \in 0 .. 3 : i < step + 1 =>
                              flash'[APP_META_ADDR + i] = MetadataWord(i, AppSize, frame.crc)
      BY DEF MetaInv, AppSize
    <2>1. Image(AppSize)' = Image(AppSize)
      <3>1. \A i \in 1 .. AppSize : /\ APP_START_ADDR + i - 1 \in Address
                                    /\ APP_START_ADDR + i - 1 # APP_META_ADDR + step
        BY <1>1, LayoutAssumption DEF Address, FLASH_END_ADDR, APP_META_ADDR, APP_FLASH_END_ADDR
      <3> QED
        BY <3>1, <1>2 DEF Image, AppSize
    <2>2. ASSUME NEW i \in 0 .. 3, i < step + 1
          PROVE  flash'[APP_META_ADDR + i] = MetadataWord(i, AppSize, frame.crc)
      <3>1. CASE i = step
        BY <3>1, <1>2
      <3>2. CASE i < step
        <4>1. APP_META_ADDR + i \in Address /\ APP_META_ADDR + i # APP_META_ADDR + step
          BY <3>2, <1>1, LayoutAssumption
             DEF Address, FLASH_END_ADDR, APP_META_ADDR, APP_FLASH_END_ADDR
        <4> QED
          BY <4>1, <3>2, <1>2 DEF SafetyInv, MetaInv
      <3> QED
        BY <2>2, <3>1, <3>2, <1>1
    <2> QED
      BY <2>1, <2>2, <1>3
  <1> QED
    BY <1>4, <1>5 DEF SafetyInv, JumpOnlyValid

(* A torn metadata word: the CRC word cannot have become the CRC of        *)
(* another image, and a state word that reads VALID was programmed whole.  *)
LEMMA TornStep ==
    ASSUME SafetyInv, TypeOK', pc = "meta", pc' = "reset", UNCHANGED verified,
           flash' \in TornMetadataWord(step, AppSize, frame.crc)
    PROVE  SafetyInv'
  <1>1. /\ TypeOKFlash /\ AppSize \in 0 .. AppWords
        /\ step \in 0 .. 3 /\ frame.crc \in Word
    BY PositionType DEF SafetyInv, TypeOK, AppSize, CrcPacket
  <1>2. PICK D \in SUBSET TornBits :
          flash'[APP_META_ADDR + step] =
            flash[APP_META_ADDR + step] \cap (MetadataWord(step, AppSize, frame.crc) \cup D)
    BY <1>1, TearMetadataWord
  <1>3. \A a \in Address : a # APP_META_ADDR + step => flash'[a] = flash[a]
    BY <1>1, TearMetadataWord
  <1>4. /\ Image(AppSize) \in verified /\ Image(AppSize) \in Images
        /\ frame.crc = Crc[Image(AppSize)]
    BY <1>1, ImageType DEF SafetyInv, MetaInv
  <1>5. SealInv'
    <2> SUFFICES ASSUME flash'[StateAddr] = APP_META_STATE_VALID,
                        NEW im \in Images, flash'[CrcAddr] = Crc[im]
                 PROVE  im \in verified
      BY DEF SealInv
    <2>1. CASE step = 3
      <3>1. flash'[CrcAddr] = flash[CrcAddr]
        BY <2>1, <1>3, Layout DEF CrcAddr, APP_META_ADDR, APP_FLASH_END_ADDR
      <3>2. flash[APP_META_ADDR + 2] = MetadataWord(2, AppSize, frame.crc)
        BY <2>1 DEF SafetyInv, MetaInv
      <3>3. flash[CrcAddr] = frame.crc
        BY <3>2 DEF CrcAddr, MetadataWord
      <3> QED
        BY <3>1, <3>3, <1>4, CrcIdealised
    <2>2. CASE step = 2
      <3>1. flash'[CrcAddr] \subseteq frame.crc \cup D
        BY <2>2, <1>2 DEF CrcAddr, MetadataWord
      <3>2. Crc[im] \ TornBits \subseteq Crc[Image(AppSize)]
        BY <3>1, <1>4
      <3> QED
        BY <3>2, <1>4, CrcIdealised
    <2>3. CASE step \in {0, 1}
      <3>1. flash'[StateAddr] = flash[StateAddr] /\ flash'[CrcAddr] = flash[CrcAddr]
        BY <2>3, <1>3, Layout DEF StateAddr, CrcAddr, APP_META_ADDR, APP_FLASH_END_ADDR
      <3> QED
        BY <3>1 DEF SafetyInv, SealInv
    <2> QED
      BY <2>1, <2>2, <2>3, <1>1
  <1> QED
    BY <1>5 DEF SafetyInv, MetaInv, JumpOnlyValid

LEMMA SafetyInit == Init => SafetyInv
  BY TypeInit DEF Init, SafetyInv, SealInv, MetaInv, JumpOnlyValid

LEMMA SafetyNext == SafetyInv /\ [Next]_vars => SafetyInv'
  <1> SUFFICES ASSUME SafetyInv, [Next]_vars PROVE SafetyInv'
    OBVIOUS
  <1> USE DEF StartTransfer
  <1>type. TypeOK /\ TypeOK' /\ TypeOKFlash
    BY TypeNext DEF SafetyInv, TypeOK
  <1>pos. /\ current_write_addr \in Nat /\ current_write_addr + 1 \in Nat
          /\ AppSize \in 0 .. AppWords
    BY <1>type, PositionType DEF TypeOK, AppSize
  <1>1. CASE BoardFails \/ Startup
    BY <1>1, <1>type, QuietStep DEF BoardFails, Startup
  <1>2. ASSUME NEW pkt \in Packets, WaitReceive(pkt) PROVE SafetyInv'
    BY <1>2, <1>type, QuietStep DEF WaitReceive
  <1>3. CASE WaitTimeout
    BY <1>3, <1>type, QuietStep DEF WaitTimeout, StartApp
  <1>4. ASSUME NEW pkt \in Packets,
               \/ HandlePing(pkt) \/ HandleInfo(pkt) \/ HandleErase(pkt)
               \/ HandleSetAddr(pkt) \/ HandleReset(pkt) \/ HandleOther(pkt)
        PROVE  SafetyInv'
    BY <1>4, <1>type, QuietStep
       DEF HandlePing, HandleInfo, HandleErase, HandleSetAddr, HandleReset, HandleOther
  <1>5. ASSUME NEW pkt \in Packets, HandleBoot(pkt) PROVE SafetyInv'
    BY <1>5, <1>type, QuietStep DEF HandleBoot, MayBoot
  <1>6. CASE EraseNextSector
    <2>1. \A a \in Address : flash'[a] \in {Erased, flash[a]}
      BY <1>6, <1>type, EraseSectorEffect DEF EraseNextSector
    <2> QED
      BY <1>6, <2>1, <1>type, EraseStep DEF EraseNextSector
  <1>7. CASE EraseLastSector
    <2>1. /\ \A a \in Address : flash'[a] \in {Erased, flash[a]}
          /\ \A a \in SectorWords(LastSector) : flash'[a] = Erased
      BY <1>7, <1>type, EraseSectorEffect DEF EraseLastSector
    <2>2. flash'[StateAddr] = Erased
      <3>1. StateAddr \in MetaAddress
        BY LayoutAssumption DEF StateAddr, MetaAddress, FLASH_END_ADDR, APP_META_ADDR,
                                APP_FLASH_END_ADDR
      <3> QED
        BY <2>1, <3>1, MetadataInLastSector
    <2> QED
      BY <1>7, <2>1, <2>2, <1>type, EraseStep DEF EraseLastSector
  <1>8. CASE EraseFails
    <2>1. \A a \in Address : flash'[a] \in {Erased, flash[a]}
      BY <1>8, <1>type, EraseSectorEffect DEF EraseFails
    <2> QED
      BY <1>8, <2>1, <1>type, EraseStep DEF EraseFails
  <1>9. ASSUME NEW pkt \in Packets, HandleData(pkt) PROVE SafetyInv'
    <2>1. pkt.word \in Cell
      BY <1>9, PacketAssumption, PacketFields DEF HandleData, DataPacket
    <2>2. ASSUME NEW ok \in BOOLEAN, flash_if_write_word(current_write_addr, pkt.word, ok),
                 UNCHANGED <<pc, verified>>
          PROVE  SafetyInv'
      BY <1>9, <2>1, <2>2, <1>type, <1>pos, WriteWordEffect, DataStep DEF HandleData
    <2>3. CASE UNCHANGED <<flash, bootVars, ramVars, pc, step, verified>>
      BY <1>9, <2>3, <1>type, QuietStep DEF HandleData
    <2> QED
      BY <1>9, <2>2, <2>3 DEF HandleData, CommitWord
  <1>10. ASSUME NEW pkt \in Packets, HandleFast(pkt) PROVE SafetyInv'
    <2>1. pkt.word0 \in Cell
      BY <1>10, PacketAssumption, PacketFields DEF HandleFast, FastPacket, RawPacket
    <2>2. ASSUME NEW ok \in BOOLEAN, flash_if_write_word(current_write_addr, pkt.word0, ok),
                 pc' \in {"fast", "loop"}, UNCHANGED verified
          PROVE  SafetyInv'
      BY <2>1, <2>2, <1>type, <1>pos, WriteWordEffect, DataStep
    <2>3. CASE UNCHANGED <<flash, bootVars, ramVars, pc, step, verified>>
      BY <1>10, <2>3, <1>type, QuietStep DEF HandleFast
    <2> QED
      BY <1>10, <2>2, <2>3 DEF HandleFast
  <1>11. CASE CommitFrame \/ FrameFails
    <2>1. frame.word1 \in Cell
      BY <1>11, <1>type DEF CommitFrame, FrameFails, TypeOK, FastPacket, RawPacket
    <2>2. PICK ok \in BOOLEAN : flash_if_write_word(current_write_addr + 1, frame.word1, ok)
      BY <1>11 DEF CommitFrame, FrameFails
    <2>3. \A a \in Address : a \notin AppAddress => flash'[a] = flash[a]
      BY <2>1, <2>2, <1>type, <1>pos, WriteWordEffect
    <2> QED
      BY <1>11, <2>3, <1>type, DataStep DEF CommitFrame, FrameFails
  <1>12. ASSUME NEW pkt \in Packets, HandleCrc(pkt) PROVE SafetyInv'
    <2>1. CASE UNCHANGED <<flash, pc, verified>>
      BY <1>12, <2>1, <1>type, QuietStep DEF HandleCrc
    <2>2. CASE /\ Crc[Image(AppSize)] = pkt.crc
               /\ pc' = "meta"
               /\ step' = 0
               /\ verified' = verified \cup {Image(AppSize)}
               /\ UNCHANGED <<flash, bootVars, ramVars>>
      <3>1. Image(AppSize)' = Image(AppSize)
        BY <2>2 DEF Image, AppSize
      <3>2. MetaInv'
        BY <1>12, <2>2, <3>1 DEF MetaInv, HandleCrc, AppSize
      <3> QED
        BY <2>2, <3>2, <1>type DEF SafetyInv, SealInv, JumpOnlyValid
    <2> QED
      BY <1>12, <2>1, <2>2 DEF HandleCrc
  <1>13. CASE WriteNextMetadata \/ WriteLastMetadata \/ MetadataFails
    <2>1. PICK ok \in BOOLEAN : /\ WriteMetadataWord(step, AppSize, frame.crc, ok)
                               /\ pc' = "meta" => ok /\ step' = step + 1
      BY <1>13 DEF WriteNextMetadata, WriteLastMetadata, MetadataFails
    <2> QED
      BY <1>13, <2>1, <1>type, MetadataStep
         DEF WriteNextMetadata, WriteLastMetadata, MetadataFails
  <1>14. CASE bootloader_jump_to_app \/ AppRequestsUpdate
    BY <1>14, <1>type, QuietStep DEF bootloader_jump_to_app, StartApp, AppRequestsUpdate
  <1>15. CASE SystemReset \/ AppResets
    BY <1>15, <1>type, QuietStep DEF SystemReset, AppResets, Restart
  <1>16. CASE PowerLoss
    <2>1. CASE UNCHANGED flash
      BY <1>16, <2>1, <1>type, QuietStep DEF PowerLoss, Restart
    <2>2. ASSUME NEW D, flash' = ErasedIn(D) PROVE SafetyInv'
      BY <1>16, <2>2, <1>type, EraseWords, EraseStep DEF PowerLoss, Restart
    <2>3. CASE pc = "meta" /\ flash' \in TornMetadataWord(step, AppSize, frame.crc)
      BY <1>16, <2>3, <1>type, TornStep DEF PowerLoss, Restart
    <2> QED
      BY <1>16, <2>1, <2>2, <2>3 DEF PowerLoss
  <1>17. CASE UNCHANGED vars
    BY <1>17, <1>type, StableFlash DEF SafetyInv, SealInv, MetaInv, JumpOnlyValid, AppSize, Image
  <1> QED
    BY <1>1, <1>2, <1>3, <1>4, <1>5, <1>6, <1>7, <1>8, <1>9, <1>10, <1>11, <1>12, <1>13,
       <1>14, <1>15, <1>16, <1>17 DEF Next, DeviceStep, bootloader_handle_packet

(* In every reachable state a VALID state word seals only CRCs that were   *)
(* confirmed: the strengthening from which the safety of what runs         *)
(* follows, and which CMD_CRC, its interruption and an erase keep.         *)
THEOREM SafetyInvariant == Spec => []SafetyInv
  BY SafetyInit, SafetyNext, PTL DEF Spec

(* The bootloader jumps, or may time out into a jump, only over an         *)
(* application that is valid at that moment.                               *)
THEOREM JumpIsValid == Spec => []JumpOnlyValid
  <1>1. SafetyInv => JumpOnlyValid
    BY DEF SafetyInv
  <1> QED
    BY <1>1, SafetyInvariant, PTL

(* A valid application is one that was confirmed.                          *)
LEMMA ValidIsVerified ==
    ASSUME TypeOK, SealInv, bootloader_is_valid_metadata
    PROVE  InstalledImage \in verified
  <1> DEFINE size == ReadSize(flash[SizeAddr])
  <1>1. size \in 0 .. AppWords
    BY ReadSizeType, RegionSize DEF bootloader_is_valid_metadata
  <1>2. Image(size) \in Images
    BY <1>1, ImageType DEF TypeOK
  <1> QED
    BY <1>2 DEF bootloader_is_valid_metadata, SealInv, InstalledImage

(* What runs is an image a host has confirmed, whatever power losses,      *)
(* failed erases, failed writes and packets came before.                   *)
THEOREM RunsOnlyVerified == Spec => []RunsVerifiedImage
  <1>1. SafetyInv => RunsVerifiedImage
    BY ValidIsVerified DEF SafetyInv, JumpOnlyValid, bootloader_is_valid_app, RunsVerifiedImage
  <1> QED
    BY <1>1, SafetyInvariant, PTL

-----------------------------------------------------------------------------
(* Bootloader implements SafeBoot: what runs was approved, approvals       *)
(* change only while nothing runs.                                         *)

(* No image is longer than the application area.                           *)
LEMMA NoImageIsNone == NoImage \notin Images
  <1> SUFFICES ASSUME NoImage \in Images PROVE FALSE
    OBVIOUS
  <1>1. PICK n \in 0 .. AppWords : NoImage \in [1 .. n -> Cell]
    BY DEF Images
  <1>2. DOMAIN NoImage = 1 .. n
    BY <1>1
  <1>3. DOMAIN NoImage = 1 .. AppWords + 1
    BY DEF NoImage
  <1>4. AppWords + 1 \in 1 .. n
    BY <1>2, <1>3, LayoutAssumption
  <1> QED
    BY <1>4, LayoutAssumption

LEMMA SafetyImplies ==
    ASSUME SafetyInv
    PROVE  /\ TypeOK
           /\ bootloader_is_valid_app => InstalledImage \in verified
           /\ RunsVerifiedImage
  BY ValidIsVerified
     DEF SafetyInv, JumpOnlyValid, bootloader_is_valid_app, RunsVerifiedImage

(* A step that keeps out of the application and changes no approval.       *)
LEMMA SilentStep ==
    ASSUME UNCHANGED verified, pc # "app", pc' # "app"
    PROVE  UNCHANGED Safe!svars
  BY DEF Safe!svars, running, NoImage

(* Leaving the application, by itself or with the power.                   *)
LEMMA StopStep ==
    ASSUME SafetyInv, UNCHANGED verified, pc = "app", pc' # "app"
    PROVE  Safe!Stop
  <1>1. running = InstalledImage /\ running' = NoImage
    BY DEF running, NoImage
  <1>2. InstalledImage # NoImage
    BY SafetyImplies, NoImageIsNone DEF RunsVerifiedImage, TypeOK
  <1> QED
    BY <1>1, <1>2 DEF Safe!Stop

(* Entering it over a valid image.                                         *)
LEMMA RunStep ==
    ASSUME SafetyInv, pc \in {"wait", "booting"}, pc' = "app", UNCHANGED <<flash, verified>>
    PROVE  \E im \in Images : Safe!Run(im)
  <1>1. running = NoImage
    BY DEF running
  <1>2. running' = InstalledImage
    BY StableFlash DEF running
  <1>3. InstalledImage \in verified /\ InstalledImage \in Images
    BY SafetyImplies DEF SafetyInv, JumpOnlyValid, TypeOK
  <1> QED
    BY <1>1, <1>2, <1>3 DEF Safe!Run

LEMMA StepRefines == SafetyInv /\ [Next]_vars => [Safe!Next]_(Safe!svars)
  <1> SUFFICES ASSUME SafetyInv, [Next]_vars PROVE Safe!Next \/ UNCHANGED Safe!svars
    OBVIOUS
  <1>1. CASE \/ BoardFails \/ Startup \/ EraseNextSector \/ EraseFails \/ CommitFrame \/ FrameFails
             \/ WriteNextMetadata \/ WriteLastMetadata \/ MetadataFails \/ SystemReset
    <2>1. UNCHANGED verified /\ pc # "app" /\ pc' # "app"
      BY <1>1 DEF BoardFails, Startup, EraseNextSector, EraseFails, CommitFrame, FrameFails,
                  WriteNextMetadata, WriteLastMetadata, MetadataFails, SystemReset, Restart
    <2> QED
      BY <2>1, SilentStep
  <1>2. CASE WaitTimeout \/ bootloader_jump_to_app
    <2>1. CASE pc' = "app"
      <3>1. PICK im \in Images : Safe!Run(im)
        BY <1>2, <2>1, RunStep DEF WaitTimeout, bootloader_jump_to_app
      <3> QED
        BY <3>1 DEF Safe!Next
    <2>2. CASE pc' = "hung"
      BY <1>2, <2>2, SilentStep DEF WaitTimeout, bootloader_jump_to_app
    <2> QED
      BY <1>2, <2>1, <2>2 DEF WaitTimeout, bootloader_jump_to_app, StartApp
  <1>3. CASE EraseLastSector
    <2>1. running = NoImage /\ running' = NoImage /\ verified' = {}
      BY <1>3 DEF EraseLastSector, running, NoImage
    <2> QED
      BY <2>1 DEF Safe!Next, Safe!WithdrawAll
  <1>4. ASSUME NEW pkt \in Packets,
               \/ WaitReceive(pkt) \/ HandlePing(pkt) \/ HandleInfo(pkt) \/ HandleErase(pkt)
               \/ HandleSetAddr(pkt) \/ HandleData(pkt) \/ HandleFast(pkt) \/ HandleBoot(pkt)
               \/ HandleReset(pkt) \/ HandleOther(pkt)
        PROVE  UNCHANGED Safe!svars
    <2>1. UNCHANGED verified /\ pc # "app" /\ pc' # "app"
      BY <1>4 DEF WaitReceive, HandlePing, HandleInfo, HandleErase, HandleSetAddr, HandleData,
                  CommitWord, HandleFast, HandleBoot, HandleReset, HandleOther
    <2> QED
      BY <2>1, SilentStep
  <1>5. ASSUME NEW pkt \in Packets, HandleCrc(pkt)
        PROVE  Safe!Next \/ UNCHANGED Safe!svars
    <2>1. CASE UNCHANGED <<pc, verified>>
      BY <1>5, <2>1, SilentStep DEF HandleCrc
    <2>2. CASE pc' = "meta" /\ verified' = verified \cup {Image(AppSize)}
      <3>1. Image(AppSize) \in Images
        BY SafetyImplies, PositionType, ImageType DEF TypeOK, AppSize
      <3>2. running = NoImage /\ running' = NoImage
        BY <1>5, <2>2 DEF HandleCrc, running, NoImage
      <3> QED
        BY <2>2, <3>1, <3>2 DEF Safe!Next, Safe!Approve
    <2> QED
      BY <1>5, <2>1, <2>2 DEF HandleCrc
  <1>6. CASE AppRequestsUpdate
    <2>1. InstalledImage' = InstalledImage
      BY <1>6, StableFlash DEF AppRequestsUpdate
    <2> QED
      BY <1>6, <2>1 DEF AppRequestsUpdate, Safe!svars, running
  <1>7. CASE AppResets
    BY <1>7, StopStep DEF AppResets, Restart, Safe!Next
  <1>8. CASE PowerLoss
    <2>1. UNCHANGED verified /\ pc' # "app"
      BY <1>8 DEF PowerLoss, Restart
    <2>2. CASE pc = "app"
      BY <2>1, <2>2, StopStep DEF Safe!Next
    <2>3. CASE pc # "app"
      BY <2>1, <2>3, SilentStep
    <2> QED
      BY <2>2, <2>3
  <1>9. CASE UNCHANGED vars
    <2>1. InstalledImage' = InstalledImage
      BY <1>9, StableFlash
    <2> QED
      BY <1>9, <2>1 DEF Safe!svars, running, NoImage
  <1> QED
    BY <1>1, <1>2, <1>3, <1>4, <1>5, <1>6, <1>7, <1>8, <1>9
       DEF Next, DeviceStep, bootloader_handle_packet

LEMMA InitRefines == Init => Safe!Init
  BY TypeInit DEF Init, TypeOK, Safe!Init, running

(* The bootloader implements SafeBoot for every value of its constants.    *)
THEOREM Refinement == Spec => ImplementsSafeBoot
  BY InitRefines, StepRefines, SafetyInvariant, PTL DEF Spec, ImplementsSafeBoot, Safe!Spec
=============================================================================
