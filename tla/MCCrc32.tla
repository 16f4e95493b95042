------------------------------ MODULE MCCrc32 ------------------------------
(***************************************************************************)
(* Instances of Crc32 for TLC: every message of up to three bytes out of   *)
(* three, and two longer ones in which a burst has room to move.           *)
(***************************************************************************)
EXTENDS Crc32

Zero == {}
One  == {0}
Top  == {7}
Full == 0 .. 7

MCBurstBytes == {Zero, One, Top, Full}

MCMessages ==
    UNION {[1 .. n -> {Zero, One, Full}] : n \in 0 .. 3}
    \cup {<<One, Top, Zero, Full, Top, One>>, <<Zero, Zero, Zero, Zero, Zero, Zero, Top>>}

(* The check value of CRC-32, 0xCBF43926 for "123456789", fixes HostCrc.   *)
Digit(d)   == {4, 5} \cup {b \in 0 .. 3 : (d \div 2 ^ b) % 2 = 1}
CheckValue == {31, 30, 27, 25, 24, 23, 22, 21, 20, 18, 13, 12, 11, 8, 5, 2, 1}

ASSUME CheckAssumption == HostCrc([k \in 1 .. 9 |-> Digit(k)]) = CheckValue
=============================================================================
