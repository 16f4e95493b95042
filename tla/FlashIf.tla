------------------------------- MODULE FlashIf -------------------------------
(***************************************************************************)
(* Internal flash of the STM32F446 as src/flash_if.c uses it: the layout   *)
(* of boot_config.h, the region checks, the sector erase and the           *)
(* programming of one word with its read-back.                             *)
(*                                                                         *)
(* A word is the set of its bits that are 1.  Erasing a word gives Bits,   *)
(* and programming can only clear bits, so a programmed word is the        *)
(* intersection of what was there and what is written.  Addresses count    *)
(* words; the two low bits of a byte address, which the code only tests,   *)
(* stay in the packets that carry an address.                              *)
(***************************************************************************)
EXTENDS Naturals, FiniteSets

CONSTANTS
    Bits,             \* bit positions of a word
    Cell,             \* values a word of the application area can take
    APP_START_ADDR,   \* first word of the application area
    AppWords,         \* words of the application area
    FirstSector,      \* FLASH_SECTOR_4, the first sector CMD_ERASE erases
    LastSector,       \* FLASH_SECTOR_7, which also holds the metadata
    SectorBase,       \* first word of each of these sectors
    APP_META_MAGIC,
    SizeWord,         \* a size, in words, as app_size stores it
    Crc,              \* crc32_calculate of each image
    EraseMayFail,     \* HAL_FLASHEx_Erase may report an error
    ProgramMayFail,   \* HAL_FLASH_Program or HAL_FLASH_Unlock may fail
    TornBits          \* bits that a loss of power may leave unprogrammed

VARIABLE flash

APP_FLASH_END_ADDR == APP_START_ADDR + AppWords
APP_META_ADDR      == APP_FLASH_END_ADDR
FLASH_END_ADDR     == APP_META_ADDR + 4

MagicAddr == APP_META_ADDR
SizeAddr  == APP_META_ADDR + 1
CrcAddr   == APP_META_ADDR + 2
StateAddr == APP_META_ADDR + 3

Word   == SUBSET Bits
Erased == Bits                  \* APP_META_STATE_ERASED, 0xFFFFFFFF
APP_META_STATE_VALID == {}      \* 0x00000000

Address     == 0 .. FLASH_END_ADDR - 1
BootAddress == 0 .. APP_START_ADDR - 1
AppAddress  == APP_START_ADDR .. APP_FLASH_END_ADDR - 1
MetaAddress == APP_META_ADDR .. FLASH_END_ADDR - 1

Sectors == FirstSector .. LastSector

(* An image is what lies in the first n words of the application area.     *)
Images == UNION {[1 .. n -> Cell] : n \in 0 .. AppWords}

ASSUME BitsAssumption == Bits # {}

ASSUME LayoutAssumption ==
    /\ APP_START_ADDR \in Nat \ {0}
    /\ AppWords \in Nat \ {0, 1}
    /\ FirstSector \in Nat
    /\ LastSector \in Nat
    /\ FirstSector < LastSector
    /\ SectorBase \in [Sectors -> APP_START_ADDR .. APP_META_ADDR]
    /\ SectorBase[FirstSector] = APP_START_ADDR
    /\ \A s \in Sectors : \A t \in Sectors : s < t => SectorBase[s] < SectorBase[t]

(* Programming one image over another leaves values of Cell again.         *)
ASSUME CellAssumption ==
    /\ Cell \subseteq Word
    /\ Erased \in Cell
    /\ \A v, w \in Cell : v \cap w \in Cell

ASSUME MetadataAssumption ==
    /\ APP_META_MAGIC \in Word
    /\ SizeWord \in [0 .. AppWords -> Word]
    /\ \A m, n \in 0 .. AppWords : SizeWord[m] = SizeWord[n] => m = n
    /\ \A n \in 0 .. AppWords : SizeWord[n] # Erased

ASSUME CrcAssumption == Crc \in [Images -> Word]

ASSUME FaultAssumption ==
    EraseMayFail \in BOOLEAN /\ ProgramMayFail \in BOOLEAN /\ TornBits \subseteq Bits

-----------------------------------------------------------------------------

flash_if_is_valid_app_address(addr) ==
    addr >= APP_START_ADDR /\ addr < APP_FLASH_END_ADDR

(* Mutant: the region runs to the end of the flash, over the metadata.     *)
RegionToFlashEnd(addr, size) ==
    size # 0 /\ addr >= APP_START_ADDR /\ addr < FLASH_END_ADDR
    /\ size <= FLASH_END_ADDR - addr

flash_if_is_in_app_region(addr, size) ==
    /\ size # 0
    /\ addr >= APP_START_ADDR
    /\ addr < APP_FLASH_END_ADDR
    /\ size <= APP_FLASH_END_ADDR - addr

(* Words of a sector: up to the base of the next one, or to the end of the *)
(* flash for the last.                                                     *)

(* Mutant: the erase of the last sector spares the metadata.               *)
SectorEndSparesMetadata(s) == IF s = LastSector THEN APP_META_ADDR ELSE SectorBase[s + 1]

SectorEnd(s) == IF s = LastSector THEN FLASH_END_ADDR ELSE SectorBase[s + 1]
SectorWords(s) == {a \in Address : SectorBase[s] <= a /\ a < SectorEnd(s)}

(* What crc32_calculate(APP_START_ADDR, n) reads.                          *)
Image(n) == [i \in 1 .. n |-> flash[APP_START_ADDR + i - 1]]

(* The size an app_size word stands for.  A word that encodes no size of   *)
(* the region reads as one that is too large for it.                       *)
IsSize(w)   == \E n \in 0 .. AppWords : SizeWord[n] = w
ReadSize(w) == IF IsSize(w) THEN CHOOSE n \in 0 .. AppWords : SizeWord[n] = w
                            ELSE AppWords + 1

(* The flash with the words of D erased, and with w programmed at addr.    *)
ErasedIn(D)         == [a \in Address |-> IF a \in D THEN Erased ELSE flash[a]]
Programmed(addr, w) == [flash EXCEPT ![addr] = @ \cap w]

(* HAL_FLASHEx_Erase, one sector: it erases the sector, or reports an      *)
(* error and leaves some of its words erased and the others as they were.  *)
EraseSector(s, ok) ==
    \/ ok  /\ flash' = ErasedIn(SectorWords(s))
    \/ ~ok /\ EraseMayFail /\ \E D \in SUBSET SectorWords(s) : flash' = ErasedIn(D)

(* Mutant: what was programmed is not read back.                           *)
ProgramWordUnchecked(addr, w, ok) ==
    \/ flash' = Programmed(addr, w) /\ ok
    \/ ProgramMayFail /\ ~ok /\ flash' \in {flash, Programmed(addr, w)}

(* HAL_FLASH_Program of one word followed by the comparison with what is   *)
(* read back.  A HAL error leaves the word as it was or programmed.        *)
ProgramWord(addr, w, ok) ==
    \/ /\ flash' = Programmed(addr, w)
       /\ ok = (flash[addr] \cap w = w)
    \/ /\ ProgramMayFail
       /\ ~ok
       /\ flash' \in {flash, Programmed(addr, w)}

flash_if_write_word(addr, w, ok) ==
    IF flash_if_is_in_app_region(addr, 1)
    THEN ProgramWord(addr, w, ok)
    ELSE ~ok /\ UNCHANGED flash

(* flash_if_write_metadata programs these four words in this order, the    *)
(* state word last, and stops at the first that fails.                     *)
MetadataWord(i, size, crc) ==
    IF i = 0 THEN APP_META_MAGIC
    ELSE IF i = 1 THEN SizeWord[size]
    ELSE IF i = 2 THEN crc ELSE APP_META_STATE_VALID

WriteMetadataWord(i, size, crc, ok) ==
    ProgramWord(APP_META_ADDR + i, MetadataWord(i, size, crc), ok)

(* Power is lost while such a word is programmed: some of its bits are not *)
(* cleared.                                                                *)
TornMetadataWord(i, size, crc) ==
    {Programmed(APP_META_ADDR + i, MetadataWord(i, size, crc) \cup D) : D \in SUBSET TornBits}

(* Contents the flash can have when the device is first powered with this  *)
(* bootloader: image seg in the application area, sealed or not.           *)
FlashWith(seg, magic, size, crc, state) ==
    [a \in Address |->
        CASE a \in BootAddress -> {}
          [] a \in AppAddress ->
               IF a - APP_START_ADDR + 1 \in DOMAIN seg
               THEN seg[a - APP_START_ADDR + 1] ELSE Erased
          [] a = MagicAddr -> magic
          [] a = SizeAddr  -> size
          [] a = CrcAddr   -> crc
          [] a = StateAddr -> state]

BlankFlash      == FlashWith(<<>>, Erased, Erased, Erased, Erased)
SealedFlash(im) == FlashWith(im, APP_META_MAGIC, SizeWord[Cardinality(DOMAIN im)],
                             Crc[im], APP_META_STATE_VALID)

TypeOKFlash ==
    /\ flash \in [Address -> Word]
    /\ \A a \in AppAddress : flash[a] \in Cell
=============================================================================
