---------------------------- MODULE FlashIfProofs ----------------------------
(***************************************************************************)
(* What the operations of FlashIf do to the flash, for every layout.       *)
(***************************************************************************)
EXTENDS FlashIf, TLAPS

(* The four metadata words lie above the application area, apart from each *)
(* other, and inside the flash.                                            *)
LEMMA Layout ==
    /\ APP_START_ADDR \in Nat /\ AppWords \in Nat
    /\ AppAddress \subseteq Address
    /\ MagicAddr \in Address /\ SizeAddr \in Address
    /\ CrcAddr \in Address /\ StateAddr \in Address
    /\ \A a \in AppAddress : a \in Nat /\ a < APP_META_ADDR
    /\ APP_START_ADDR \in AppAddress /\ APP_START_ADDR + 1 \in AppAddress
  BY LayoutAssumption
     DEF AppAddress, Address, MagicAddr, SizeAddr, CrcAddr, StateAddr,
         FLASH_END_ADDR, APP_META_ADDR, APP_FLASH_END_ADDR

(* Programming a word changes no other word, clears bits only, and reports *)
(* success only when the word reads back as written.                       *)
LEMMA ProgramWordEffect ==
    ASSUME NEW addr \in Address, NEW w \in Word, NEW ok \in BOOLEAN,
           flash \in [Address -> Word],
           ProgramWord(addr, w, ok)
    PROVE  /\ flash' \in [Address -> Word]
           /\ \A a \in Address : a # addr => flash'[a] = flash[a]
           /\ flash'[addr] \in {flash[addr], flash[addr] \cap w}
           /\ ok => flash'[addr] = w
  BY DEF ProgramWord, Programmed, Word

(* Erasing a set of words erases them and leaves the others alone.         *)
LEMMA ErasedInEffect ==
    ASSUME NEW D, flash \in [Address -> Word], flash' = ErasedIn(D)
    PROVE  /\ flash' \in [Address -> Word]
           /\ \A a \in Address : flash'[a] = IF a \in D THEN Erased ELSE flash[a]
  BY DEF ErasedIn, Erased, Word

(* A packet's word, programmed in the application area, keeps the area in  *)
(* Cell and the metadata as it was.                                        *)
LEMMA ProgramAppWord ==
    ASSUME NEW addr \in AppAddress, NEW w \in Cell, NEW ok \in BOOLEAN,
           TypeOKFlash,
           ProgramWord(addr, w, ok)
    PROVE  /\ TypeOKFlash'
           /\ \A a \in Address : a # addr => flash'[a] = flash[a]
           /\ ok => flash'[addr] = w
  <1>1. addr \in Address /\ w \in Word
    BY Layout, CellAssumption
  <1>2. /\ flash' \in [Address -> Word]
        /\ \A a \in Address : a # addr => flash'[a] = flash[a]
        /\ flash'[addr] \in {flash[addr], flash[addr] \cap w}
        /\ ok => flash'[addr] = w
    BY <1>1, ProgramWordEffect DEF TypeOKFlash
  <1>3. \A a \in AppAddress : flash'[a] \in Cell
    BY <1>2, Layout, CellAssumption DEF TypeOKFlash
  <1> QED
    BY <1>2, <1>3 DEF TypeOKFlash

(* What flash_if_write_metadata writes are words.                          *)
LEMMA MetadataWordType ==
    ASSUME NEW i \in 0 .. 3, NEW size \in 0 .. AppWords, NEW crc \in Word
    PROVE  MetadataWord(i, size, crc) \in Word
  BY MetadataAssumption DEF MetadataWord, APP_META_STATE_VALID, Word

(* Programming a metadata word leaves the application area alone.          *)
LEMMA ProgramMetadataWord ==
    ASSUME NEW i \in 0 .. 3, NEW size \in 0 .. AppWords, NEW crc \in Word,
           NEW ok \in BOOLEAN, TypeOKFlash,
           WriteMetadataWord(i, size, crc, ok)
    PROVE  /\ TypeOKFlash'
           /\ \A a \in Address : a # APP_META_ADDR + i => flash'[a] = flash[a]
           /\ flash'[APP_META_ADDR + i] \in
                {flash[APP_META_ADDR + i],
                 flash[APP_META_ADDR + i] \cap MetadataWord(i, size, crc)}
           /\ ok => flash'[APP_META_ADDR + i] = MetadataWord(i, size, crc)
  <1>1. APP_META_ADDR + i \in Address /\ APP_META_ADDR + i \notin AppAddress
    BY LayoutAssumption DEF Address, AppAddress, FLASH_END_ADDR, APP_META_ADDR,
                            APP_FLASH_END_ADDR
  <1>2. MetadataWord(i, size, crc) \in Word
    BY MetadataWordType
  <1>3. /\ flash' \in [Address -> Word]
        /\ \A a \in Address : a # APP_META_ADDR + i => flash'[a] = flash[a]
        /\ flash'[APP_META_ADDR + i] \in
             {flash[APP_META_ADDR + i],
              flash[APP_META_ADDR + i] \cap MetadataWord(i, size, crc)}
        /\ ok => flash'[APP_META_ADDR + i] = MetadataWord(i, size, crc)
    BY <1>1, <1>2, ProgramWordEffect DEF TypeOKFlash, WriteMetadataWord
  <1> QED
    BY <1>1, <1>3, Layout DEF TypeOKFlash

LEMMA ProgramWholeWord ==
    ASSUME NEW i \in 0 .. 3, NEW size \in 0 .. AppWords, NEW crc \in Word, TypeOKFlash,
           WriteMetadataWord(i, size, crc, TRUE)
    PROVE  /\ \A a \in Address : a # APP_META_ADDR + i => flash'[a] = flash[a]
           /\ flash'[APP_META_ADDR + i] = MetadataWord(i, size, crc)
  BY ProgramMetadataWord

(* Tearing one leaves the others alone and clears some of its bits.        *)
LEMMA TearMetadataWord ==
    ASSUME NEW i \in 0 .. 3, NEW size \in 0 .. AppWords, NEW crc \in Word, TypeOKFlash,
           flash' \in TornMetadataWord(i, size, crc)
    PROVE  /\ TypeOKFlash'
           /\ \A a \in Address : a # APP_META_ADDR + i => flash'[a] = flash[a]
           /\ \E D \in SUBSET TornBits :
                 flash'[APP_META_ADDR + i] =
                   flash[APP_META_ADDR + i] \cap (MetadataWord(i, size, crc) \cup D)
  <1>1. APP_META_ADDR + i \in Address /\ APP_META_ADDR + i \notin AppAddress
    BY LayoutAssumption DEF Address, AppAddress, FLASH_END_ADDR, APP_META_ADDR,
                            APP_FLASH_END_ADDR
  <1>2. PICK D \in SUBSET TornBits :
            flash' = Programmed(APP_META_ADDR + i, MetadataWord(i, size, crc) \cup D)
    BY DEF TornMetadataWord
  <1>3. MetadataWord(i, size, crc) \cup D \in Word
    BY MetadataWordType, FaultAssumption DEF Word
  <1>4. /\ flash' \in [Address -> Word]
        /\ \A a \in Address : a # APP_META_ADDR + i => flash'[a] = flash[a]
        /\ flash'[APP_META_ADDR + i] =
              flash[APP_META_ADDR + i] \cap (MetadataWord(i, size, crc) \cup D)
    BY <1>1, <1>2, <1>3 DEF Programmed, TypeOKFlash, Word
  <1> QED
    BY <1>1, <1>4, Layout DEF TypeOKFlash

(* Erasing words keeps the type, since an erased word is a cell.           *)
LEMMA EraseWords ==
    ASSUME NEW D, TypeOKFlash, flash' = ErasedIn(D)
    PROVE  /\ TypeOKFlash'
           /\ \A a \in Address : flash'[a] = IF a \in D THEN Erased ELSE flash[a]
  BY ErasedInEffect, Layout, CellAssumption DEF TypeOKFlash

(* Whatever EraseSector reports, each word is erased or as it was.         *)
LEMMA EraseSectorEffect ==
    ASSUME NEW s, NEW ok \in BOOLEAN, TypeOKFlash, EraseSector(s, ok)
    PROVE  /\ TypeOKFlash'
           /\ \A a \in Address : flash'[a] \in {Erased, flash[a]}
           /\ ok => \A a \in SectorWords(s) : flash'[a] = Erased
  <1>1. PICK D : flash' = ErasedIn(D) /\ (ok => D = SectorWords(s))
    BY DEF EraseSector
  <1>2. SectorWords(s) \subseteq Address
    BY DEF SectorWords
  <1> QED
    BY <1>1, <1>2, EraseWords

(* The sector that is erased last holds the metadata.                      *)
LEMMA MetadataInLastSector == MetaAddress \subseteq SectorWords(LastSector)
  BY LayoutAssumption DEF MetaAddress, SectorWords, SectorEnd, Sectors, Address,
                          FLASH_END_ADDR, APP_META_ADDR, APP_FLASH_END_ADDR

(* What lies in the application area is an image.                          *)
LEMMA ImageType ==
    ASSUME TypeOKFlash, NEW n \in 0 .. AppWords
    PROVE  Image(n) \in Images
  <1>1. \A i \in 1 .. n : APP_START_ADDR + i - 1 \in AppAddress
    BY LayoutAssumption DEF AppAddress, APP_FLASH_END_ADDR
  <1>2. Image(n) \in [1 .. n -> Cell]
    BY <1>1 DEF Image, TypeOKFlash
  <1> QED
    BY <1>2 DEF Images

(* A size the region check accepts is the size of an image.                *)
LEMMA RegionSize ==
    ASSUME NEW n \in Nat, flash_if_is_in_app_region(APP_START_ADDR, n)
    PROVE  n \in 0 .. AppWords
  BY LayoutAssumption DEF flash_if_is_in_app_region, APP_FLASH_END_ADDR

LEMMA ReadSizeType ==
    ASSUME NEW w PROVE ReadSize(w) \in Nat
  <1>1. CASE IsSize(w)
    BY <1>1 DEF ReadSize, IsSize
  <1>2. CASE ~IsSize(w)
    BY <1>2, LayoutAssumption DEF ReadSize
  <1> QED
    BY <1>1, <1>2

-----------------------------------------------------------------------------
(* The region check on machine words, which wrap at M: the code subtracts  *)
(* where address + size could overflow.                                    *)

Minus(a, b, M) == IF b <= a THEN a - b ELSE M + a - b

RegionCheck(addr, size, M) ==
    /\ size # 0
    /\ addr >= APP_START_ADDR
    /\ addr < APP_FLASH_END_ADDR
    /\ size <= Minus(APP_FLASH_END_ADDR, addr, M)

(* The check accepts exactly the ranges that lie in the application area,  *)
(* word by word and without wrapping, whatever address and size come out   *)
(* of a packet or of the metadata: no size is large enough to wrap round   *)
(* into the area (flash_if.c:10-25).                                       *)
THEOREM RegionCheckIsExact ==
    ASSUME NEW M \in Nat, APP_FLASH_END_ADDR < M,
           NEW addr \in 0 .. M - 1, NEW size \in 0 .. M - 1
    PROVE  /\ RegionCheck(addr, size, M) <=> flash_if_is_in_app_region(addr, size)
           /\ RegionCheck(addr, size, M) <=>
                  size # 0 /\ \A k \in 0 .. size - 1 : addr + k \in AppAddress
  <1> DEFINE End == APP_FLASH_END_ADDR
  <1>1. /\ APP_START_ADDR \in Nat /\ End \in Nat
        /\ AppAddress = APP_START_ADDR .. End - 1
    BY LayoutAssumption DEF APP_FLASH_END_ADDR, AppAddress
  <1>2. RegionCheck(addr, size, M) <=> flash_if_is_in_app_region(addr, size)
    BY <1>1 DEF RegionCheck, Minus, flash_if_is_in_app_region
  <1>3. ASSUME flash_if_is_in_app_region(addr, size)
        PROVE  size # 0 /\ \A k \in 0 .. size - 1 : addr + k \in AppAddress
    BY <1>1, <1>3 DEF flash_if_is_in_app_region
  <1>4. ASSUME size # 0, \A k \in 0 .. size - 1 : addr + k \in AppAddress
        PROVE  flash_if_is_in_app_region(addr, size)
    <2>1. 0 \in 0 .. size - 1 /\ size - 1 \in 0 .. size - 1
      BY <1>4
    <2>2. addr + 0 \in AppAddress /\ addr + (size - 1) \in AppAddress
      BY <1>4, <2>1
    <2> QED
      BY <1>1, <1>4, <2>2 DEF flash_if_is_in_app_region
  <1> QED
    BY <1>2, <1>3, <1>4
=============================================================================
