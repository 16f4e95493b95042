---------------------------- MODULE Crc32Proofs ----------------------------
(***************************************************************************)
(* The CRC of the device is the CRC of the host, for every message, and it *)
(* notices every change of up to four bytes in a row.                      *)
(***************************************************************************)
EXTENDS Crc32, WellFoundedInduction, TLAPS

-----------------------------------------------------------------------------
(* Registers: one round, bit by bit, and eight of them.                    *)

LEMMA ShiftBits ==
    ASSUME NEW x \in Register, NEW b
    PROVE  b \in ShiftRight(x) <=> b \in 0 .. 30 /\ b + 1 \in x
  <1>1. ASSUME b \in ShiftRight(x) PROVE b \in 0 .. 30 /\ b + 1 \in x
    BY <1>1 DEF ShiftRight, Register
  <1>2. ASSUME b \in 0 .. 30, b + 1 \in x PROVE b \in ShiftRight(x)
    BY <1>2 DEF ShiftRight
  <1> QED
    BY <1>1, <1>2

LEMMA RoundBits ==
    ASSUME NEW x \in Register
    PROVE  /\ Round(x) \in Register
           /\ \A b : b \in Round(x) <=> ~((b \in 0 .. 30 /\ b + 1 \in x)
                                          <=> (0 \in x /\ b \in Polynomial))
  <1>1. Polynomial \in Register
    BY DEF Polynomial, Register
  <1>2. ShiftRight(x) \in Register
    BY ShiftBits DEF Register
  <1>3. CASE 0 \in x
    BY <1>1, <1>2, <1>3, ShiftBits DEF Round, Xor, Register
  <1>4. CASE 0 \notin x
    BY <1>2, <1>4, ShiftBits DEF Round
  <1> QED
    BY <1>3, <1>4

LEMMA RoundOfXor ==
    ASSUME NEW x \in Register, NEW y \in Register
    PROVE  Xor(x, y) \in Register /\ Round(Xor(x, y)) = Xor(Round(x), Round(y))
  <1>1. Xor(x, y) \in Register
    BY DEF Xor, Register
  <1>2. ASSUME NEW b PROVE b \in Round(Xor(x, y)) <=> b \in Xor(Round(x), Round(y))
    <2>1. \A c : c \in Xor(x, y) <=> ~(c \in x <=> c \in y)
      BY DEF Xor
    <2>2. b \in Xor(Round(x), Round(y)) <=> ~(b \in Round(x) <=> b \in Round(y))
      BY DEF Xor
    <2>3. /\ b \in Round(x) <=> ~((b \in 0 .. 30 /\ b + 1 \in x) <=> (0 \in x /\ b \in Polynomial))
          /\ b \in Round(y) <=> ~((b \in 0 .. 30 /\ b + 1 \in y) <=> (0 \in y /\ b \in Polynomial))
          /\ b \in Round(Xor(x, y)) <=> ~((b \in 0 .. 30 /\ b + 1 \in Xor(x, y))
                                          <=> (0 \in Xor(x, y) /\ b \in Polynomial))
      BY <1>1, RoundBits
    <2> QED
      BY <2>1, <2>2, <2>3
  <1> QED
    BY <1>1, <1>2

(* The polynomial has its top bit, so that a register whose top bits are   *)
(* clear shows that no polynomial was subtracted to get there.             *)
LEMMA RoundUndone ==
    ASSUME NEW x \in Register, NEW lo \in Nat, NEW hi \in Int, hi <= 30,
           Round(x) \subseteq lo .. hi
    PROVE  x \subseteq lo + 1 .. hi + 1
  <1>1. 31 \in Polynomial /\ 31 \notin Round(x)
    BY DEF Polynomial
  <1>2. 0 \notin x
    BY <1>1, RoundBits
  <1>3. ASSUME NEW c \in x PROVE c \in lo + 1 .. hi + 1
    <2>1. c \in 1 .. 31
      BY <1>2, <1>3 DEF Register
    <2>2. c - 1 \in 0 .. 30 /\ (c - 1) + 1 = c
      BY <2>1
    <2>3. c - 1 \in Round(x)
      BY <1>2, <1>3, <2>2, RoundBits
    <2> QED
      BY <2>1, <2>3
  <1> QED
    BY <1>3

(* The eight rounds of crc32_update, one after another.                    *)
Rounds(f, start) == f[0] = start /\ \A n \in 1 .. 8 : f[n] = Round(f[n - 1])

LEMMA UpdateUnrolled ==
    ASSUME NEW reg, NEW byte
    PROVE  \E f : Rounds(f, Xor(reg, byte)) /\ crc32_update(reg, byte) = f[8]
  <1> DEFINE a0 == Xor(reg, byte)
             a1 == Round(a0)
             a2 == Round(a1)
             a3 == Round(a2)
             a4 == Round(a3)
             a5 == Round(a4)
             a6 == Round(a5)
             a7 == Round(a6)
             a8 == Round(a7)
             s == <<a1, a2, a3, a4, a5, a6, a7, a8>>
             g == [n \in 0 .. 8 |-> IF n = 0 THEN a0 ELSE s[n]]
             Unrolled(f) == f = [n \in 0 .. 8 |-> IF n = 0 THEN Xor(reg, byte) ELSE Round(f[n - 1])]
             h == CHOOSE f : Unrolled(f)
  <1>1. crc32_update(reg, byte) = h[8]
    BY Zenon DEF crc32_update
  <1> HIDE DEF a0, a1, a2, a3, a4, a5, a6, a7, a8
  <1>2. \A n \in 0 .. 8 : g[n] = IF n = 0 THEN a0 ELSE Round(g[n - 1])
    <2> TAKE n \in 0 .. 8
    <2>1. n = 0 \/ n = 1 \/ n = 2 \/ n = 3 \/ n = 4 \/ n = 5 \/ n = 6 \/ n = 7 \/ n = 8
      OBVIOUS
    <2> QED
      BY <2>1 DEF a1, a2, a3, a4, a5, a6, a7, a8
  <1>3. Unrolled(g)
    BY <1>2 DEF a0
  <1>4. Unrolled(h)
    BY <1>3, Zenon
  <1> HIDE DEF h
  <1>5. Rounds(h, Xor(reg, byte))
    BY <1>4 DEF Rounds
  <1> QED
    BY <1>1, <1>5

(* What holds of the start and is kept by a round holds after eight.       *)
LEMMA RoundsStay ==
    ASSUME NEW f, NEW start, Rounds(f, start), NEW S, start \in S,
           \A x \in S : Round(x) \in S
    PROVE  \A n \in 0 .. 8 : f[n] \in S
  <1>0. f[0] \in S
    BY DEF Rounds
  <1>1. \A n \in 0 .. 7 : f[n] \in S => f[n + 1] \in S
    <2> TAKE n \in 0 .. 7
    <2>1. n + 1 \in 1 .. 8 /\ (n + 1) - 1 = n
      OBVIOUS
    <2> QED
      BY <2>1 DEF Rounds
  <1> QED
    BY <1>0, <1>1

LEMMA ByteInRegister ==
    ASSUME NEW reg \in Register, NEW byte \in Byte
    PROVE  Xor(reg, byte) \in Register
  BY DEF Xor, Register, Byte

LEMMA UpdateType ==
    ASSUME NEW reg \in Register, NEW byte \in Byte
    PROVE  crc32_update(reg, byte) \in Register
  <1>1. Xor(reg, byte) \in Register
    BY ByteInRegister
  <1>2. PICK f : Rounds(f, Xor(reg, byte)) /\ crc32_update(reg, byte) = f[8]
    BY UpdateUnrolled
  <1> QED
    BY <1>1, <1>2, RoundsStay, RoundBits

(* The difference of two registers goes its own way: what the register of  *)
(* their difference would become.                                          *)
LEMMA UpdateOfXor ==
    ASSUME NEW r \in Register, NEW s \in Register, NEW b \in Byte, NEW c \in Byte
    PROVE  Xor(crc32_update(r, b), crc32_update(s, c))
               = crc32_update(Xor(Xor(r, s), Xor(b, c)), {})
  <1> DEFINE x == Xor(r, b)
             y == Xor(s, c)
             z == Xor(Xor(Xor(r, s), Xor(b, c)), {})
  <1>1. x \in Register /\ y \in Register /\ z = Xor(x, y)
    BY DEF Xor, Register, Byte
  <1> HIDE DEF x, y, z
  <1>2. PICK f : Rounds(f, x) /\ crc32_update(r, b) = f[8]
    BY UpdateUnrolled DEF x
  <1>3. PICK g : Rounds(g, y) /\ crc32_update(s, c) = g[8]
    BY UpdateUnrolled DEF y
  <1>4. PICK h : Rounds(h, z) /\ crc32_update(Xor(Xor(r, s), Xor(b, c)), {}) = h[8]
    BY UpdateUnrolled DEF z
  <1>5. \A n \in 0 .. 8 : f[n] \in Register /\ g[n] \in Register
    BY <1>1, <1>2, <1>3, RoundsStay, RoundBits
  <1>6. h[0] = Xor(f[0], g[0])
    BY <1>1, <1>2, <1>3, <1>4 DEF Rounds
  <1>7. \A n \in 0 .. 7 : h[n] = Xor(f[n], g[n]) => h[n + 1] = Xor(f[n + 1], g[n + 1])
    <2> TAKE n \in 0 .. 7
    <2>1. n + 1 \in 1 .. 8 /\ (n + 1) - 1 = n /\ n \in 0 .. 8
      OBVIOUS
    <2>2. f[n + 1] = Round(f[n]) /\ g[n + 1] = Round(g[n]) /\ h[n + 1] = Round(h[n])
      BY <1>2, <1>3, <1>4, <2>1 DEF Rounds
    <2> QED
      BY <1>5, <2>1, <2>2, RoundOfXor
  <1>8. h[8] = Xor(f[8], g[8])
    BY <1>6, <1>7
  <1> QED
    BY <1>2, <1>3, <1>4, <1>8

Descends(S) == \A n \in 1 .. 8 : n \in S => n - 1 \in S

LEMMA EightDown ==
    ASSUME NEW S, 8 \in S, Descends(S)
    PROVE  0 \in S
  <1>1. \A n \in 1 .. 8 : n \in S => n - 1 \in S
    BY DEF Descends
  <1>2. 8 - 1 = 7 /\ 7 - 1 = 6 /\ 6 - 1 = 5 /\ 5 - 1 = 4 /\ 4 - 1 = 3 /\ 3 - 1 = 2 /\ 2 - 1 = 1 /\ 1 - 1 = 0
        /\ {1, 2, 3, 4, 5, 6, 7, 8} \subseteq 1 .. 8
    OBVIOUS
  <1>3. 7 \in S /\ 6 \in S /\ 5 \in S /\ 4 \in S
    BY <1>1, <1>2
  <1> QED
    BY <1>1, <1>2, <1>3

(* Eight rounds that leave few bits began with as few, eight places up.    *)
LEMMA UpdateUndone ==
    ASSUME NEW x \in Register, NEW hi \in Int, hi <= 23,
           crc32_update(x, {}) \subseteq 0 .. hi
    PROVE  x \subseteq 8 .. hi + 8
  <1>1. Xor(x, {}) = x
    BY DEF Xor
  <1>2. PICK f : Rounds(f, x) /\ crc32_update(x, {}) = f[8]
    BY <1>1, UpdateUnrolled
  <1>3. \A n \in 0 .. 8 : f[n] \in Register
    BY <1>2, RoundsStay, RoundBits
  <1> DEFINE confined == {n \in 0 .. 8 : f[n] \subseteq 8 - n .. hi + (8 - n)}
  <1>4. 8 \in confined
    BY <1>2
  <1>5. ASSUME NEW n \in 0 .. 7, n + 1 \in confined PROVE n \in confined
    <2>1. n + 1 \in 1 .. 8 /\ (n + 1) - 1 = n /\ n \in 0 .. 8
      OBVIOUS
    <2>2. f[n + 1] = Round(f[n]) /\ f[n] \in Register
      BY <1>2, <1>3, <2>1 DEF Rounds
    <2> DEFINE lo == 7 - n
               top == hi + (7 - n)
    <2>3. lo \in Nat /\ top \in Int /\ top <= 30 /\ lo = 8 - (n + 1) /\ top = hi + (8 - (n + 1))
          /\ lo + 1 = 8 - n /\ top + 1 = hi + (8 - n)
      OBVIOUS
    <2>4. Round(f[n]) \subseteq lo .. top
      BY <1>5, <2>2, <2>3
    <2> HIDE DEF lo, top
    <2>5. f[n] \subseteq lo + 1 .. top + 1
      BY <2>2, <2>3, <2>4, RoundUndone
    <2> QED
      BY <2>1, <2>3, <2>5
  <1> HIDE DEF confined
  <1>6. 0 \in confined
    <2>1. ASSUME NEW n \in 1 .. 8, n \in confined PROVE n - 1 \in confined
      BY <1>5, <2>1
    <2>2. Descends(confined)
      BY <2>1 DEF Descends
    <2> QED
      BY <1>4, <2>2, EightDown
  <1>7. f[0] = x /\ f[0] \subseteq 8 - 0 .. hi + (8 - 0)
    BY <1>2, <1>6 DEF Rounds, confined
  <1> QED
    BY <1>7

-----------------------------------------------------------------------------
(* The messages and the loop.                                              *)

(* Outside four bytes from first on the messages agree.                    *)
AgreeOutside(first) ==
    \A k \in 1 .. Len(message) : k \notin first .. first + 3 => message[k] = other[k]

CrcTypeOK ==
    /\ message \in Seq(Byte) /\ other \in Seq(Byte) /\ Len(other) = Len(message)
    /\ \E first \in Nat : AgreeOutside(first)
    /\ i \in 0 .. Len(message)
    /\ crc \in Register /\ crcOther \in Register

LEMMA CrcTypeCorrect == CrcSpec => []CrcTypeOK
  <1>1. CrcInit => CrcTypeOK
    <2> SUFFICES ASSUME CrcInit PROVE CrcTypeOK
      OBVIOUS
    <2>1. message \in Seq(Byte) /\ i = 0 /\ crc = AllOnes /\ crcOther = AllOnes
      BY MessageAssumption DEF CrcInit
    <2>2. PICK first \in 1 .. Len(message) + 1, new \in [1 .. 4 -> BurstBytes] :
              other = Burst(message, first, new)
      BY DEF CrcInit
    <2>3. other = [k \in 1 .. Len(message) |->
                      IF k \in first .. first + 3 THEN new[k - first + 1] ELSE message[k]]
      <3>1. DOMAIN message = 1 .. Len(message)
        BY <2>1
      <3> QED
        BY <2>2, <3>1 DEF Burst
    <2>4. \A k \in 1 .. Len(message) : other[k] \in Byte
      <3> TAKE k \in 1 .. Len(message)
      <3>1. CASE k \in first .. first + 3
        <4>1. k - first + 1 \in 1 .. 4
          BY <2>1, <3>1
        <4> QED
          BY <2>3, <3>1, <4>1, MessageAssumption
      <3>2. CASE k \notin first .. first + 3
        BY <2>1, <2>3, <3>2
      <3> QED
        BY <3>1, <3>2
    <2>5. other \in Seq(Byte) /\ Len(other) = Len(message)
      BY <2>1, <2>3, <2>4
    <2>6. first \in Nat /\ AgreeOutside(first)
      BY <2>1, <2>3 DEF AgreeOutside
    <2> QED
      BY <2>1, <2>5, <2>6 DEF CrcTypeOK, AllOnes, Register
  <1>2. CrcTypeOK /\ [ReadByte]_crcVars => CrcTypeOK'
    <2> SUFFICES ASSUME CrcTypeOK, [ReadByte]_crcVars PROVE CrcTypeOK'
      OBVIOUS
    <2>1. CASE ReadByte
      <3>1. i' = i + 1 /\ i' \in 1 .. Len(message) /\ UNCHANGED <<message, other>>
        BY <2>1 DEF ReadByte, AllRead, CrcTypeOK
      <3>2. message[i'] \in Byte /\ other[i'] \in Byte
        BY <3>1 DEF CrcTypeOK
      <3>3. crc' \in Register /\ crcOther' \in Register
        BY <2>1, <3>2, UpdateType DEF ReadByte, CrcTypeOK
      <3> QED
        BY <3>1, <3>3 DEF CrcTypeOK, AgreeOutside
    <2>2. CASE UNCHANGED crcVars
      BY <2>2 DEF crcVars, CrcTypeOK, AgreeOutside
    <2> QED
      BY <2>1, <2>2
  <1> QED
    BY <1>1, <1>2, PTL DEF CrcSpec

-----------------------------------------------------------------------------
(* Changes are noticed.                                                    *)

AgreeUpTo(n) == \A k \in 1 .. n : message[k] = other[k]

(* As long as the messages agree, so do the registers.  From the first     *)
(* change on they differ, and while the next k bytes can still be changed, *)
(* in more than the 8 * k bits that these bytes could put right.           *)
BurstInv ==
    \A first \in Nat : AgreeOutside(first) =>
        /\ AgreeUpTo(i) => crc = crcOther
        /\ ~AgreeUpTo(i) => ~(Xor(crc, crcOther) \subseteq 0 .. 8 * (first + 3 - i) - 1)

LEMMA BurstKept ==
    ASSUME CrcTypeOK, BurstInv, ReadByte
    PROVE  BurstInv'
  <1> SUFFICES ASSUME NEW first \in Nat, AgreeOutside(first)
               PROVE  /\ AgreeUpTo(i + 1) => crc' = crcOther'
                      /\ ~AgreeUpTo(i + 1) =>
                            ~(Xor(crc', crcOther') \subseteq 0 .. 8 * (first + 3 - (i + 1)) - 1)
    BY DEF BurstInv, ReadByte, AgreeOutside, AgreeUpTo
  <1> DEFINE b == message[i + 1]
             c == other[i + 1]
             D == Xor(crc, crcOther)
             d == Xor(b, c)
             left == first + 3 - i
  <1>1. /\ i \in Nat /\ i + 1 \in 1 .. Len(message)
        /\ crc' = crc32_update(crc, b) /\ crcOther' = crc32_update(crcOther, c)
    BY DEF CrcTypeOK, ReadByte, AllRead
  <1>2. b \in Byte /\ c \in Byte /\ crc \in Register /\ crcOther \in Register
    BY <1>1 DEF CrcTypeOK
  <1>3. /\ D \in Register /\ d \in Byte /\ Xor(D, d) \in Register
        /\ d = {} <=> b = c
    <2>1. \A x, y \in Register : Xor(x, y) \in Register
      BY DEF Xor, Register
    <2>2. D \in Register
      BY <1>2, <2>1
    <2>3. d \in Byte /\ (d = {} <=> b = c)
      BY <1>2 DEF Xor, Byte
    <2>4. d \in Register
      BY <2>3 DEF Byte, Register
    <2> HIDE DEF D, d
    <2> QED
      BY <2>1, <2>2, <2>3, <2>4
  <1>4. Xor(crc', crcOther') = crc32_update(Xor(D, d), {})
    BY <1>1, <1>2, UpdateOfXor
  <1>5. AgreeUpTo(i + 1) <=> AgreeUpTo(i) /\ b = c
    BY <1>1 DEF AgreeUpTo
  <1>6. CASE AgreeUpTo(i + 1)
    BY <1>1, <1>5, <1>6 DEF BurstInv
  <1>7. CASE ~AgreeUpTo(i + 1)
    <2> SUFFICES ASSUME Xor(crc', crcOther') \subseteq 0 .. 8 * (left - 1) - 1 PROVE FALSE
      BY <1>1, <1>7
    <2> DEFINE hi == 8 * (left - 1) - 1
               low == IF hi >= 0 - 1 THEN hi ELSE 0 - 1
    <2>1. left <= 4 /\ left \in Int /\ (b # c => left >= 1)
      <3>1. b # c => i + 1 \in first .. first + 3
        BY <1>1 DEF AgreeOutside
      <3>2. PICK k \in 1 .. i + 1 : message[k] # other[k]
        BY <1>7 DEF AgreeUpTo
      <3>3. k \in first .. first + 3
        BY <1>1, <3>2 DEF AgreeOutside, CrcTypeOK
      <3> QED
        BY <1>1, <3>1, <3>3
    <2> HIDE DEF left
    <2>2. low \in Int /\ low <= 23 /\ 0 .. hi \subseteq 0 .. low
          /\ (left >= 1 => low = 8 * left - 9) /\ (left < 1 => low = 0 - 1)
      BY <2>1
    <2> HIDE DEF low, hi, D, d
    <2>3. Xor(crc', crcOther') \subseteq 0 .. hi
      BY DEF hi
    <2>4. Xor(D, d) \subseteq 8 .. low + 8
      BY <1>3, <1>4, <2>2, <2>3, UpdateUndone
    <2>5. \A k \in d : k \in 0 .. 7
      BY <1>3 DEF Byte
    <2>6. CASE AgreeUpTo(i)
      <3>1. D = {}
        BY <2>6 DEF BurstInv, D, Xor
      <3>2. d \subseteq 8 .. low + 8
        BY <2>4, <3>1 DEF Xor
      <3>3. d = {}
        BY <2>2, <2>5, <3>2
      <3> QED
        BY <1>3, <1>5, <1>7, <2>6, <3>3
    <2>7. CASE ~AgreeUpTo(i)
      <3>1. ~(D \subseteq 0 .. 8 * left - 1)
        BY <2>7 DEF BurstInv, D, left
      <3>2. PICK k \in D : k \notin 0 .. 8 * left - 1
        BY <3>1
      <3>3. k \in 0 .. 31
        BY <1>3, <3>2 DEF Register
      <3>4. CASE k \in d
        <4>1. left >= 1
          BY <1>3, <2>1, <3>4
        <4> QED
          BY <2>1, <2>5, <3>2, <3>4, <4>1
      <3>5. CASE k \notin d
        <4>1. k \in 8 .. low + 8
          BY <2>4, <3>2, <3>5 DEF Xor
        <4> QED
          BY <2>1, <2>2, <3>2, <4>1
      <3> QED
        BY <3>4, <3>5
    <2> QED
      BY <2>6, <2>7
  <1> QED
    BY <1>6, <1>7

(* BurstDetected (bootloader.c:59-84, 454): two images that differ in one  *)
(* to four bytes in a row have different CRCs, whatever the images and     *)
(* wherever the change.                                                    *)
THEOREM BurstsAreDetected == CrcSpec => []BurstDetected
  <1>1. CrcInit => BurstInv
    BY DEF CrcInit, BurstInv, AgreeUpTo
  <1>2. CrcTypeOK /\ BurstInv /\ [ReadByte]_crcVars => BurstInv'
    <2>1. CrcTypeOK /\ BurstInv /\ ReadByte => BurstInv'
      BY BurstKept
    <2>2. BurstInv /\ UNCHANGED crcVars => BurstInv'
      <3> SUFFICES ASSUME BurstInv, UNCHANGED crcVars PROVE BurstInv'
        OBVIOUS
      <3>1. message' = message /\ other' = other /\ i' = i /\ crc' = crc /\ crcOther' = crcOther
        BY DEF crcVars
      <3> QED
        BY <3>1, Zenon DEF BurstInv, AgreeOutside, AgreeUpTo
    <2> QED
      BY <2>1, <2>2
  <1>3. CrcTypeOK /\ BurstInv => BurstDetected
    <2> SUFFICES ASSUME CrcTypeOK, BurstInv, AllRead, message # other
                 PROVE  Returned(crc) # Returned(crcOther)
      BY DEF BurstDetected
    <2>1. i = Len(message) /\ Len(other) = Len(message)
      BY DEF CrcTypeOK, AllRead
    <2>2. ~AgreeUpTo(i)
      BY <2>1 DEF AgreeUpTo, CrcTypeOK
    <2>3. crc # crcOther
      <3>1. Xor(crc, crc) = {}
        BY DEF Xor
      <3> QED
        BY <2>2, <3>1 DEF BurstInv, CrcTypeOK
    <2> QED
      BY <2>3 DEF Returned, Xor, AllOnes, CrcTypeOK, Register
  <1> QED
    BY <1>1, <1>2, <1>3, CrcTypeCorrect, PTL DEF CrcSpec

-----------------------------------------------------------------------------
(* The division of the host.                                               *)

LEMMA GeneratorReflected == \A e : e \in Generator <=> e = 32 \/ (e \in 0 .. 31 /\ 31 - e \in Polynomial)
  BY DEF Generator, Polynomial

(* A register at the top of a polynomial: bit 0 is the exponent top.       *)
AtTop(reg, top) == {top - b : b \in reg}

LEMMA AtTopBits ==
    ASSUME NEW reg \in Register, NEW top \in Int, NEW e
    PROVE  e \in AtTop(reg, top) <=> e \in Int /\ top - e \in reg
  <1>1. \A b \in reg : b \in Int /\ top - (top - b) = b
    BY DEF Register
  <1>2. e \in Int => top - (top - e) = e
    OBVIOUS
  <1> QED
    BY <1>1, <1>2 DEF AtTop

(* One step of the division is one round of the register.                  *)
LEMMA DivisionIsRound ==
    ASSUME NEW r \in Register, NEW d \in Int, NEW low, d \notin low
    PROVE  Divide(Xor(low, AtTop(r, d)), d) = Xor(low, AtTop(Round(r), d - 1))
  <1> DEFINE poly == Xor(low, AtTop(r, d))
             shifted == {e + d - 32 : e \in Generator}
  <1>1. d \in poly <=> 0 \in r
    BY AtTopBits DEF Xor
  <1>2. ASSUME NEW x PROVE x \in shifted <=> x \in Int /\ (x = d \/ (d - 1 - x \in 0 .. 31 /\ d - 1 - x \in Polynomial))
    <2>1. ASSUME NEW e \in Generator, x = e + d - 32
          PROVE  x \in Int /\ (x = d \/ (d - 1 - x \in 0 .. 31 /\ d - 1 - x \in Polynomial))
      <3>1. e = 32 \/ (e \in 0 .. 31 /\ 31 - e \in Polynomial)
        BY <2>1, GeneratorReflected
      <3>2. CASE e = 32
        BY <2>1, <3>2
      <3>3. CASE e \in 0 .. 31 /\ 31 - e \in Polynomial
        <4>1. d - 1 - x = 31 - e
          BY <2>1, <3>3
        <4> QED
          BY <2>1, <3>3, <4>1
      <3> QED
        BY <3>1, <3>2, <3>3
    <2>2. ASSUME x \in Int, x = d \/ (d - 1 - x \in 0 .. 31 /\ d - 1 - x \in Polynomial)
          PROVE  x \in shifted
      <3> DEFINE e == x + 32 - d
      <3>1. e + d - 32 = x
        BY <2>2
      <3>2. e \in Generator
        <4>1. CASE x = d
          BY <4>1, GeneratorReflected
        <4>2. CASE d - 1 - x \in 0 .. 31 /\ d - 1 - x \in Polynomial
          <5>1. 31 - e = d - 1 - x /\ e \in 0 .. 31
            BY <2>2, <4>2
          <5> QED
            BY <4>2, <5>1, GeneratorReflected
        <4> QED
          BY <2>2, <4>1, <4>2
      <3> HIDE DEF e
      <3> QED
        BY <3>1, <3>2
    <2> QED
      BY <2>1, <2>2
  <1>3. ASSUME NEW x
        PROVE  x \in AtTop(Round(r), d - 1)
                   <=> ~(x \in AtTop(r, d) /\ x # d <=> 0 \in r /\ x \in shifted /\ x # d)
    <2>1. CASE x \in Int
      <3>1. x \in AtTop(r, d) <=> d - x \in r
        BY <2>1, AtTopBits
      <3>2. x \in AtTop(Round(r), d - 1) <=> d - 1 - x \in Round(r)
        BY <2>1, AtTopBits, RoundBits
      <3> DEFINE b == d - 1 - x
      <3>3. b \in Round(r) <=> ~((b \in 0 .. 30 /\ b + 1 \in r) <=> (0 \in r /\ b \in Polynomial))
        BY RoundBits
      <3>4. b + 1 = d - x /\ b \in Int
        BY <2>1
      <3>5. b \in Polynomial => b \in 0 .. 31
        BY DEF Polynomial
      <3>6. x \in shifted /\ x # d <=> b \in Polynomial
        <4>1. x = d => b = 0 - 1
          OBVIOUS
        <4>2. b \in Polynomial => b \in 0 .. 31 /\ x # d
          BY <3>5, <4>1
        <4>3. x \in shifted <=> x = d \/ b \in Polynomial
          BY <1>2, <2>1, <4>2
        <4> QED
          BY <4>2, <4>3
      <3>7. x \in AtTop(r, d) /\ x # d <=> b \in 0 .. 30 /\ b + 1 \in r
        <4>1. d - x \in r => d - x \in 0 .. 31
          BY DEF Register
        <4>2. x = d <=> d - x = 0
          BY <2>1
        <4> QED
          BY <2>1, <3>1, <3>4, <4>1, <4>2
      <3> HIDE DEF b, shifted
      <3> QED
        BY <3>2, <3>3, <3>6, <3>7 DEF b
    <2>2. CASE x \notin Int
      BY <1>2, <2>2, AtTopBits, RoundBits
    <2> QED
      BY <2>1, <2>2
  <1>4. ASSUME NEW x PROVE x \in Divide(poly, d) <=> x \in Xor(low, AtTop(Round(r), d - 1))
    <2>1. d \in AtTop(r, d) <=> 0 \in r
      BY AtTopBits
    <2>2. d \in shifted
      BY <1>2
    <2>3. x \in Divide(poly, d) <=> ~(x \in poly <=> 0 \in r /\ x \in shifted)
      BY <1>1 DEF Divide, Xor
    <2>4. x \in poly <=> ~(x \in low <=> x \in AtTop(r, d))
      BY DEF Xor
    <2>5. x \in Xor(low, AtTop(Round(r), d - 1)) <=> ~(x \in low <=> x \in AtTop(Round(r), d - 1))
      BY DEF Xor
    <2> HIDE DEF poly, shifted
    <2> QED
      BY <1>3, <2>1, <2>2, <2>3, <2>4, <2>5
  <1> QED
    BY <1>4

(* left, one step of the division after another, is what Remainder computes *)
(* with: it exists, however long the polynomial.                           *)
Division(g, poly, highest) ==
    g = [d \in 32 .. highest + 1 |-> IF d > highest THEN poly ELSE Divide(g[d + 1], d)]

LEMMA LeastNumber ==
    ASSUME NEW S \in SUBSET Nat, S # {}
    PROVE  \E least \in S : \A n \in S : least <= n
  <1> DEFINE R == OpToRel(<, Nat)
  <1>1. PICK least \in S : \A n \in S : ~(<<n, least>> \in R)
    BY NatLessThanWellFounded, WFMin, Zenon
  <1>2. ASSUME NEW n \in S PROVE least <= n
    <2>1. ~(<<n, least>> \in R)
      BY <1>1, Zenon
    <2>2. <<n, least>> \in Nat \X Nat
      OBVIOUS
    <2>3. ~(n < least)
      BY <2>1, <2>2 DEF OpToRel
    <2> QED
      BY <2>3
  <1> QED
    BY <1>2

LEMMA DivisionExists ==
    ASSUME NEW poly, NEW highest \in Nat, highest >= 31
    PROVE  \E g : Division(g, poly, highest)
  <1> DEFINE Part(g, k) == g = [d \in highest + 1 - k .. highest + 1 |->
                                   IF d > highest THEN poly ELSE Divide(g[d + 1], d)]
             missing == {k \in Nat : ~\E g : Part(g, k)}
  <1>1. missing = {}
    <2> SUFFICES ASSUME missing # {} PROVE FALSE
      OBVIOUS
    <2>1. PICK k \in missing : \A n \in missing : k <= n
      BY LeastNumber
    <2>2. k # 0
      <3> DEFINE g == [d \in highest + 1 .. highest + 1 |-> poly]
      <3>1. Part(g, 0)
        OBVIOUS
      <3> QED
        BY <3>1
    <2>3. k - 1 \in Nat /\ k - 1 \notin missing
      <3>1. k \in Nat
        BY <2>1
      <3> HIDE DEF missing
      <3> QED
        BY <2>1, <2>2, <3>1
    <2>4. PICK g : Part(g, k - 1)
      BY <2>3
    <2> DEFINE low == highest + 1 - k
               h == [d \in low .. highest + 1 |-> IF d = low THEN Divide(g[low + 1], low) ELSE g[d]]
    <2>5. low \in Int /\ low <= highest /\ low + 1 = highest + 1 - (k - 1)
      BY <2>1, <2>3
    <2>6. \A d \in low + 1 .. highest + 1 : g[d] = IF d > highest THEN poly ELSE Divide(g[d + 1], d)
      BY <2>4, <2>5
    <2> HIDE DEF low
    <2>7. \A d \in low .. highest + 1 : h[d] = IF d > highest THEN poly ELSE Divide(h[d + 1], d)
      <3> TAKE d \in low .. highest + 1
      <3>1. CASE d = low
        <4>1. h[d + 1] = g[low + 1]
          BY <2>5, <3>1
        <4> QED
          BY <2>5, <3>1, <4>1
      <3>2. CASE d # low
        <4>1. d \in low + 1 .. highest + 1 /\ h[d] = g[d]
          BY <2>5, <3>2
        <4>2. d <= highest => h[d + 1] = g[d + 1]
          BY <2>5, <3>2
        <4> QED
          BY <2>5, <2>6, <4>1, <4>2
      <3> QED
        BY <3>1, <3>2
    <2>8. Part(h, k)
      BY <2>7 DEF low
    <2> QED
      BY <2>1, <2>8
  <1>2. highest + 1 - 32 \in Nat /\ highest + 1 - (highest + 1 - 32) = 32
    OBVIOUS
  <1>3. \E g : Part(g, highest + 1 - 32)
    BY <1>1, <1>2
  <1> QED
    BY <1>2, <1>3 DEF Division

LEMMA RemainderDivides ==
    ASSUME NEW poly, NEW highest \in Nat, highest >= 31
    PROVE  \E g : Division(g, poly, highest) /\ Remainder(poly, highest) = g[32]
  <1> DEFINE g == CHOOSE h : Division(h, poly, highest)
  <1>1. Remainder(poly, highest) = g[32]
    BY Zenon DEF Remainder, Division
  <1>2. Division(g, poly, highest)
    BY DivisionExists, Zenon
  <1> HIDE DEF g
  <1> QED
    BY <1>1, <1>2

-----------------------------------------------------------------------------
(* Device and host agree.                                                  *)

LastExponent == 8 * Len(message) + 31

(* The exponents of the message bits.                                      *)
MessageBits ==
    {e \in 32 .. LastExponent : ((LastExponent - e) % 8) \in message[((LastExponent - e) \div 8) + 1]}

(* Where the division stands when the device has read i bytes: below the   *)
(* exponent the message is untouched, but for what the register holds.     *)
Below(next) == {e \in MessageBits : e < next}

Standing(n, reg) == Xor(Below(LastExponent + 1 - 8 * n), AtTop(reg, LastExponent - 8 * n))

AgreeInv == \A g : Division(g, MessagePolynomial(message), LastExponent)
                        => g[LastExponent + 1 - 8 * i] = Standing(i, crc)

(* Reading a byte into the register leaves the polynomial what it is.      *)
LEMMA ByteRead ==
    ASSUME CrcTypeOK, i + 1 \in 1 .. Len(message)
    PROVE  Standing(i, crc)
               = Xor(Below(LastExponent + 1 - 8 * (i + 1)),
                     AtTop(Xor(crc, message[i + 1]), LastExponent - 8 * i))
  <1> DEFINE byte == message[i + 1]
             top == LastExponent - 8 * i
  <1>1. /\ byte \in Byte /\ crc \in Register /\ Xor(crc, byte) \in Register
        /\ i \in Nat /\ Len(message) \in Nat /\ i + 1 <= Len(message) /\ top \in Int /\ LastExponent \in Int
    <2>1. byte \in Byte /\ crc \in Register /\ i \in Nat /\ Len(message) \in Nat /\ i + 1 <= Len(message)
      BY DEF CrcTypeOK
    <2>2. Xor(crc, byte) \in Register
      BY <2>1, ByteInRegister
    <2>3. LastExponent \in Int
      BY <2>1 DEF LastExponent
    <2> HIDE DEF byte
    <2> QED
      BY <2>1, <2>2, <2>3
  <1>2. ASSUME NEW e \in 0 .. LastExponent
        PROVE  e \in MessageBits /\ e < top + 1 /\ ~(e < top - 7) <=> top - e \in byte
    <2>1. CASE e <= top /\ e >= top - 7
      <3>1. LastExponent - e = 8 * i + (top - e) /\ top - e \in 0 .. 7
        BY <1>1, <2>1
      <3>2. (LastExponent - e) % 8 = top - e /\ (LastExponent - e) \div 8 = i
        BY <1>1, <3>1
      <3>3. e >= 32
        BY <1>1, <2>1 DEF LastExponent
      <3>4. e \in MessageBits <=> top - e \in byte
        BY <1>1, <3>2, <3>3 DEF MessageBits
      <3> HIDE DEF top, byte
      <3> QED
        BY <1>1, <2>1, <3>4
    <2>2. CASE ~(e <= top /\ e >= top - 7)
      <3>1. top - e \notin 0 .. 7
        BY <1>1, <2>2
      <3> HIDE DEF top, byte
      <3> QED
        BY <1>1, <2>2, <3>1 DEF Byte
    <2> QED
      BY <2>1, <2>2
  <1>3. MessageBits \subseteq 0 .. LastExponent /\ MessageBits \subseteq Int
    BY DEF MessageBits
  <1>4. \A e : e \in Int /\ top - e \in byte => e \in 0 .. LastExponent
    BY <1>1 DEF Byte, LastExponent
  <1> DEFINE old == Below(top + 1)
             new == Below(top - 7)
  <1>5. Standing(i, crc) = Xor(old, AtTop(crc, top))
    <2>1. LastExponent + 1 - 8 * i = top + 1 /\ LastExponent - 8 * i = top
      BY <1>1
    <2> HIDE DEF top
    <2> QED
      BY <2>1, Zenon DEF Standing
  <1>6. Below(LastExponent + 1 - 8 * (i + 1)) = new
    <2>1. LastExponent + 1 - 8 * (i + 1) = top - 7
      BY <1>1
    <2> HIDE DEF top
    <2> QED
      BY <2>1
  <1> HIDE DEF top, byte
  <1>7. ASSUME NEW e PROVE e \in Xor(old, AtTop(crc, top)) <=> e \in Xor(new, AtTop(Xor(crc, byte), top))
    <2>1. CASE e \in Int
      <3>1. e \in AtTop(crc, top) <=> top - e \in crc
        BY <1>1, <2>1, AtTopBits
      <3>2. e \in AtTop(Xor(crc, byte), top) <=> ~(top - e \in crc <=> top - e \in byte)
        BY <1>1, <2>1, AtTopBits DEF Xor
      <3>3. e \in new => e \in old
        BY <1>1, <1>3 DEF Below
      <3>4. e \in old /\ e \notin new <=> top - e \in byte
        BY <1>2, <1>3, <1>4, <2>1 DEF Below
      <3> HIDE DEF old, new
      <3> QED
        BY <3>1, <3>2, <3>3, <3>4 DEF Xor
    <2>2. CASE e \notin Int
      <3>1. e \notin old /\ e \notin new
        BY <1>3, <2>2 DEF Below
      <3>2. e \notin AtTop(crc, top) /\ e \notin AtTop(Xor(crc, byte), top)
        BY <1>1, <2>2, AtTopBits
      <3> HIDE DEF old, new
      <3> QED
        BY <3>1, <3>2 DEF Xor
    <2> QED
      BY <2>1, <2>2
  <1>8. Xor(old, AtTop(crc, top)) = Xor(new, AtTop(Xor(crc, byte), top))
    BY <1>7
  <1> QED
    BY <1>5, <1>6, <1>8 DEF top, byte

LEMMA AgreeKept ==
    ASSUME CrcTypeOK, AgreeInv, ReadByte
    PROVE  AgreeInv'
  <1> DEFINE byte == message[i + 1]
             top == LastExponent - 8 * i
             low == Below(top - 7)
  <1>1. /\ i \in Nat /\ i + 1 \in 1 .. Len(message) /\ i' = i + 1 /\ message' = message
        /\ crc' = crc32_update(crc, byte) /\ byte \in Byte /\ crc \in Register
    BY DEF CrcTypeOK, ReadByte, AllRead
  <1>2. LastExponent \in Int /\ top \in Int /\ top >= 39
    BY <1>1 DEF LastExponent
  <1> SUFFICES ASSUME NEW g, Division(g, MessagePolynomial(message), LastExponent)
               PROVE  g[LastExponent + 1 - 8 * (i + 1)] = Standing(i + 1, crc32_update(crc, byte))
    <2>1. LastExponent' = LastExponent /\ MessageBits' = MessageBits
          /\ MessagePolynomial(message)' = MessagePolynomial(message)
      BY <1>1 DEF LastExponent, MessageBits
    <2>2. \A next : Below(next)' = Below(next)
      BY <2>1 DEF Below
    <2> QED
      BY <1>1, <2>1, <2>2, Zenon DEF AgreeInv, Standing
  <1>3. Xor(crc, byte) \in Register
    BY <1>1, ByteInRegister
  <1>4. PICK f : Rounds(f, Xor(crc, byte)) /\ crc32_update(crc, byte) = f[8]
    BY UpdateUnrolled
  <1>5. \A n \in 0 .. 8 : f[n] \in Register
    BY <1>3, <1>4, RoundsStay, RoundBits
  <1>6. g[top + 1] = Xor(low, AtTop(f[0], top))
    <2>1. g[LastExponent + 1 - 8 * i] = Standing(i, crc)
      BY DEF AgreeInv
    <2>2. LastExponent + 1 - 8 * i = top + 1 /\ LastExponent + 1 - 8 * (i + 1) = top - 7
      BY <1>1, <1>2
    <2>3. f[0] = Xor(crc, byte)
      BY <1>4 DEF Rounds
    <2>4. Standing(i, crc) = Xor(low, AtTop(f[0], top))
      BY <1>1, <2>2, <2>3, ByteRead
    <2> HIDE DEF top, low
    <2> QED
      BY <2>1, <2>2, <2>4
  <1> DEFINE Divided(n) == g[top + 1 - n] = Xor(low, AtTop(f[n], top - n))
  <1>7. ASSUME NEW n \in 0 .. 7, Divided(n) PROVE Divided(n + 1)
    <2> DEFINE d == top - n
    <2>1. /\ d \in 32 .. LastExponent /\ top + 1 - n = d + 1 /\ top + 1 - (n + 1) = d
          /\ top - (n + 1) = d - 1 /\ d \in Int
      BY <1>1, <1>2
    <2>2. d \notin low
      BY <1>2 DEF Below
    <2> HIDE DEF d, top, low
    <2>3. g[d] = Divide(g[d + 1], d)
      BY <1>2, <2>1 DEF Division
    <2>4. n + 1 \in 1 .. 8 /\ (n + 1) - 1 = n /\ n \in 0 .. 8
      OBVIOUS
    <2>5. f[n + 1] = Round(f[n]) /\ f[n] \in Register
      BY <1>4, <1>5, <2>4 DEF Rounds
    <2>6. g[d + 1] = Xor(low, AtTop(f[n], d))
      BY <1>7, <2>1 DEF d
    <2>7. g[d] = Xor(low, AtTop(f[n + 1], d - 1))
      BY <2>1, <2>2, <2>3, <2>5, <2>6, DivisionIsRound
    <2> QED
      BY <2>1, <2>7
  <1>8. Divided(8)
    <2>1. Divided(0)
      BY <1>2, <1>6
    <2> HIDE DEF Divided
    <2>2. Divided(1) /\ Divided(2) /\ Divided(3)
      BY <1>7, <2>1
    <2> QED
      BY <1>7, <2>2
  <1> QED
    <2>1. g[top + 1 - 8] = Xor(low, AtTop(f[8], top - 8))
      BY <1>8
    <2>2. /\ top + 1 - 8 = LastExponent + 1 - 8 * (i + 1)
          /\ top - 7 = LastExponent + 1 - 8 * (i + 1)
          /\ top - 8 = LastExponent - 8 * (i + 1)
      BY <1>1, <1>2
    <2> HIDE DEF top
    <2> QED
      BY <1>4, <2>1, <2>2 DEF Standing

(* Before the first byte the register is the inversion of the first bits,  *)
(* and after the last byte nothing but the register is left.               *)
LEMMA AgreeStart ==
    ASSUME CrcInit
    PROVE  AgreeInv
  <1> SUFFICES ASSUME NEW g, Division(g, MessagePolynomial(message), LastExponent)
               PROVE  g[LastExponent + 1 - 8 * i] = Standing(i, crc)
    BY DEF AgreeInv
  <1>1. i = 0 /\ crc = 0 .. 31 /\ Len(message) \in Nat /\ LastExponent \in Nat /\ LastExponent >= 31
    BY MessageAssumption DEF CrcInit, AllOnes, LastExponent
  <1>2. LastExponent + 1 - 8 * i = LastExponent + 1 /\ LastExponent - 8 * i = LastExponent
    BY <1>1
  <1>3. g[LastExponent + 1] = MessagePolynomial(message)
    BY <1>1 DEF Division
  <1>4. MessagePolynomial(message) = Xor(MessageBits, 8 * Len(message) .. LastExponent)
    BY DEF MessagePolynomial, MessageBits, LastExponent
  <1>5. Below(LastExponent + 1) = MessageBits
    BY <1>1 DEF Below, MessageBits
  <1>6. AtTop(crc, LastExponent) = 8 * Len(message) .. LastExponent
    <2>1. crc \in Register
      BY <1>1 DEF Register
    <2>2. \A e : e \in AtTop(crc, LastExponent) <=> e \in Int /\ LastExponent - e \in 0 .. 31
      BY <1>1, <2>1, AtTopBits
    <2>3. \A e \in Int : LastExponent - e \in 0 .. 31 <=> e \in 8 * Len(message) .. LastExponent
      <3> TAKE e \in Int
      <3> DEFINE n == Len(message)
      <3>1. n \in Nat /\ LastExponent = 8 * n + 31
        BY <1>1 DEF LastExponent
      <3> HIDE DEF n
      <3>2. LastExponent - e \in 0 .. 31 <=> e \in 8 * n .. LastExponent
        BY <3>1
      <3> QED
        BY <3>2 DEF n
    <2>4. \A e : e \in 8 * Len(message) .. LastExponent => e \in Int
      OBVIOUS
    <2> QED
      BY <2>2, <2>3, <2>4, Zenon
  <1> QED
    BY <1>2, <1>3, <1>4, <1>5, <1>6 DEF Standing

LEMMA AgreeEnd ==
    ASSUME CrcTypeOK, AgreeInv
    PROVE  HostAndDeviceAgree
  <1> SUFFICES ASSUME AllRead PROVE Returned(crc) = HostCrc(message)
    BY DEF HostAndDeviceAgree
  <1>1. i = Len(message) /\ Len(message) \in Nat /\ crc \in Register
    BY DEF CrcTypeOK, AllRead
  <1>2. LastExponent \in Nat /\ LastExponent >= 31 /\ LastExponent = 8 * Len(message) + 31
    BY <1>1 DEF LastExponent
  <1> DEFINE rest == Remainder(MessagePolynomial(message), LastExponent)
  <1>3. PICK g : Division(g, MessagePolynomial(message), LastExponent) /\ rest = g[32]
    BY <1>2, RemainderDivides
  <1>4. rest = Xor(Below(32), AtTop(crc, 31))
    <2>1. LastExponent + 1 - 8 * i = 32 /\ LastExponent - 8 * i = 31
      BY <1>1, <1>2
    <2>2. g[LastExponent + 1 - 8 * i] = Standing(i, crc)
      BY <1>3 DEF AgreeInv
    <2> QED
      BY <1>3, <2>1, <2>2 DEF Standing
  <1>5. Below(32) = {}
    BY <1>2 DEF Below, MessageBits
  <1>6. rest = AtTop(crc, 31)
    BY <1>4, <1>5 DEF Xor
  <1>7. {31 - e : e \in rest} = crc
    <2>1. \A e : e \in rest <=> e \in Int /\ 31 - e \in crc
      BY <1>1, <1>6, AtTopBits
    <2>2. \A b \in crc : b \in Int /\ 31 - (31 - b) = b /\ 31 - b \in rest
      <3> TAKE b \in crc
      <3>1. b \in Int /\ 31 - b \in Int /\ 31 - (31 - b) = b
        BY <1>1 DEF Register
      <3> QED
        BY <2>1, <3>1
    <2> HIDE DEF rest
    <2> QED
      BY <2>1, <2>2
  <1>8. HostCrc(message) = Xor({31 - e : e \in rest}, AllOnes)
    BY <1>2 DEF HostCrc
  <1> QED
    BY <1>7, <1>8 DEF Returned

(* HostAndDeviceAgree (bootloader.c:59-84, can_uploader.py:337): over every *)
(* message the loop of the device computes the CRC-32 of the host.         *)
THEOREM HostAgrees == CrcSpec => []HostAndDeviceAgree
  <1>1. CrcInit => AgreeInv
    BY AgreeStart
  <1>2. CrcTypeOK /\ AgreeInv /\ [ReadByte]_crcVars => AgreeInv'
    <2>1. CrcTypeOK /\ AgreeInv /\ ReadByte => AgreeInv'
      BY AgreeKept
    <2>2. AgreeInv /\ UNCHANGED crcVars => AgreeInv'
      <3> SUFFICES ASSUME AgreeInv, UNCHANGED crcVars PROVE AgreeInv'
        OBVIOUS
      <3>1. message' = message /\ i' = i /\ crc' = crc
        BY DEF crcVars
      <3> QED
        BY <3>1, Zenon DEF AgreeInv, Standing, Below, MessageBits, LastExponent, MessagePolynomial
    <2> QED
      BY <2>1, <2>2
  <1>3. CrcTypeOK /\ AgreeInv => HostAndDeviceAgree
    BY AgreeEnd
  <1> QED
    BY <1>1, <1>2, <1>3, CrcTypeCorrect, PTL DEF CrcSpec
=============================================================================
