-------------------------- MODULE BootloaderSafety --------------------------
(***************************************************************************)
(* The inductive invariant behind the safety of Bootloader, and the        *)
(* refinement mapping under which Bootloader implements SafeBoot.          *)
(***************************************************************************)
EXTENDS Bootloader

(* CRC-32 is taken to tell images apart, also after bits of a stored CRC   *)
(* were cleared by programming another CRC over it, and also where a loss  *)
(* of power left some bits uncleared: no stored CRC that is covered by the *)
(* CRC of an image is the CRC of another image, and none looks erased.     *)
ASSUME CrcIdealised ==
    /\ \A i, j \in Images : Crc[i] \ TornBits \subseteq Crc[j] => i = j
    /\ \A i \in Images : Crc[i] # Erased

(* A VALID state word seals only CRCs that were confirmed.                 *)
SealInv ==
    flash[StateAddr] = APP_META_STATE_VALID =>
        \A im \in Images : flash[CrcAddr] = Crc[im] => im \in verified

(* CMD_CRC writes the metadata of an image that was confirmed; the words   *)
(* already written hold what they should when the state word is next.      *)
MetaInv ==
    pc = "meta" =>
        /\ Image(AppSize) \in verified
        /\ frame.crc = Crc[Image(AppSize)]
        /\ \A i \in 0 .. 3 : i < step =>
              flash[APP_META_ADDR + i] = MetadataWord(i, AppSize, frame.crc)

(* The last legacy word and the last fast frame are in the flash below the *)
(* write address, as long as erasing reports no error.                     *)
LastLegacyInv ==
    (last_legacy.valid /\ pc # "erase") =>
        /\ last_legacy.addr < current_write_addr
        /\ flash[last_legacy.addr] = last_legacy.word

LastFastInv ==
    (last_fast.valid /\ pc # "erase") =>
        /\ last_fast.addr + 1 < current_write_addr
        /\ flash[last_fast.addr] = last_fast.word0
        /\ flash[last_fast.addr + 1] = last_fast.word1

(* Between the two words of a frame the first is written.                  *)
HalfFrameInv == pc = "fast" => flash[current_write_addr] = frame.word0

SafetyInv == TypeOK /\ SealInv /\ MetaInv /\ JumpOnlyValid

(* The state word is VALID at the end of CMD_CRC only, which also ends the *)
(* update, as long as programming reports no error of its own.             *)
InProgressInv ==
    runtime_app_state = "UPDATE_IN_PROGRESS" => flash[StateAddr] # APP_META_STATE_VALID

DataInv ==
    /\ TypeOK
    /\ HalfFrameInv
    /\ DataAckTruthful
    /\ LastLegacyInv
    /\ LastFastInv

-----------------------------------------------------------------------------
(* No image: one word longer than the application area.                    *)
NoImage == [i \in 1 .. AppWords + 1 |-> Erased]

running == IF pc = "app" THEN InstalledImage ELSE NoImage

Safe == INSTANCE SafeBoot WITH App <- Images, None <- NoImage,
                               approved <- verified, running <- running

(* Every behaviour of the bootloader is one of SafeBoot: what runs was     *)
(* approved, and nothing is approved or withdrawn while it runs            *)
(* (bootloader.c:207-225, 353-366, 441-491).                               *)
ImplementsSafeBoot == Safe!Spec
=============================================================================
