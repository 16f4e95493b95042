------------------------------- MODULE Crc32 -------------------------------
(***************************************************************************)
(* The CRC of src/bootloader.c, a byte at a time, over a message and over  *)
(* another one of the same length, against the polynomial division that    *)
(* zlib.crc32 performs on the host.                                        *)
(*                                                                         *)
(* A byte or a register is the set of its bits that are set.               *)
(***************************************************************************)
EXTENDS Naturals, Sequences

CONSTANTS
    Messages,      \* messages, sequences of bytes
    BurstBytes     \* values a byte may be changed to

VARIABLES
    message, other,
    i,                   \* bytes read of each
    crc, crcOther

crcVars == <<message, other, i, crc, crcOther>>

Byte     == SUBSET (0 .. 7)
Register == SUBSET (0 .. 31)

ASSUME MessageAssumption ==
    /\ \A m \in Messages : m \in Seq(Byte)
    /\ BurstBytes \subseteq Byte

Xor(a, b) == (a \ b) \cup (b \ a)

-----------------------------------------------------------------------------
(* The code.                                                               *)

AllOnes    == 0 .. 31
Polynomial == {31, 30, 29, 27, 26, 24, 23, 21, 20, 19, 15, 9, 8, 5}    \* 0xEDB88320

ShiftRight(reg) == {b - 1 : b \in reg \ {0}}

Round(reg) ==
    IF 0 \in reg THEN Xor(ShiftRight(reg), Polynomial) ELSE ShiftRight(reg)

(* Mutant: the loop ends one round early.                                  *)
SevenRounds(reg, byte) ==
    LET after[n \in 0 .. 7] == IF n = 0 THEN Xor(reg, byte) ELSE Round(after[n - 1])
    IN  after[7]

crc32_update(reg, byte) ==
    LET after[n \in 0 .. 8] == IF n = 0 THEN Xor(reg, byte) ELSE Round(after[n - 1])
    IN  after[8]

(* Mutant: the last byte is left out.                                      *)
AllButLastRead == i + 1 >= Len(message)

AllRead == i >= Len(message)

(* One round of the loop of crc32_calculate, for both messages.            *)
ReadByte ==
    /\ ~AllRead
    /\ i' = i + 1
    /\ crc' = crc32_update(crc, message[i'])
    /\ crcOther' = crc32_update(crcOther, other[i'])
    /\ UNCHANGED <<message, other>>

Returned(reg) == Xor(reg, AllOnes)

-----------------------------------------------------------------------------
(* The messages: other is message with up to four bytes in a row changed.  *)

Burst(m, first, new) ==
    [k \in DOMAIN m |-> IF k \in first .. first + 3 THEN new[k - first + 1] ELSE m[k]]

CrcInit ==
    /\ message \in Messages
    /\ \E first \in 1 .. Len(message) + 1, new \in [1 .. 4 -> BurstBytes] :
           other = Burst(message, first, new)
    /\ i = 0
    /\ crc = AllOnes /\ crcOther = AllOnes

CrcSpec == CrcInit /\ [][ReadByte]_crcVars

-----------------------------------------------------------------------------
(* The host: the message, with its first 32 bits inverted and 32 zero bits *)
(* behind it, is divided by the generator of CRC-32 over GF(2), and the    *)
(* remainder inverted.  A polynomial is the set of its exponents; the low  *)
(* bit of a byte comes first.                                              *)

Generator == {32, 26, 23, 22, 16, 12, 11, 10, 8, 7, 5, 4, 2, 1, 0}

MessagePolynomial(m) ==
    LET last     == 8 * Len(m) + 31
        IsSet(t) == (t % 8) \in m[(t \div 8) + 1]
    IN  Xor({e \in 32 .. last : IsSet(last - e)}, 8 * Len(m) .. last)

(* One step of the division, and what is left of a polynomial when the     *)
(* exponents from the highest down to 32 are gone.                         *)
Divide(poly, d) == IF d \in poly THEN Xor(poly, {e + d - 32 : e \in Generator}) ELSE poly

Remainder(poly, highest) ==
    LET left[d \in 32 .. highest + 1] ==
            IF d > highest THEN poly ELSE Divide(left[d + 1], d)
    IN  left[32]

HostCrc(m) ==
    LET rest == Remainder(MessagePolynomial(m), 8 * Len(m) + 31)
    IN  Xor({31 - e : e \in rest}, AllOnes)

-----------------------------------------------------------------------------
(* Properties.                                                             *)

(* The device computes over an image the CRC that the uploader computes    *)
(* over the same bytes: the table-free loop over reflected bits is the     *)
(* division of CRC-32 (bootloader.c:59-84, can_uploader.py:337).           *)
HostAndDeviceAgree == AllRead => Returned(crc) = HostCrc(message)

(* Two images that differ in up to four bytes in a row, such as one word   *)
(* or half of a frame that was not written, never have one CRC             *)
(* (bootloader.c:454).                                                     *)
BurstDetected == AllRead /\ message # other => Returned(crc) # Returned(crcOther)
=============================================================================
