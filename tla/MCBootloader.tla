---------------------------- MODULE MCBootloader ----------------------------
(***************************************************************************)
(* Instances of Bootloader for TLC.  One word of bootloader, four words of *)
(* application in two sectors, the second of which also holds the metadata. *)
(* A cell is A, B or erased, with B inside A: writing B over A succeeds,   *)
(* writing A over B fails its read-back.  A is the only valid stack        *)
(* pointer and B the only valid reset handler.                             *)
(***************************************************************************)
EXTENDS BootloaderSafety, TLC

MCBits == 0 .. 16
MCTornBits == {16}
A == {0, 1}
B == {0}
MCCell == {A, B, MCBits}
MCSectorBase == 4 :> 1 @@ 5 :> 3
MCMagic == {2, 3}

(* Sizes are written in binary.                                            *)
MCSizeWord == 0 :> {} @@ 1 :> {0} @@ 2 :> {1} @@ 3 :> {0, 1} @@ 4 :> {2}

(* A CRC that tells images apart: at each position one bit says which cell *)
(* is there, or that the image is shorter, so that no CRC covers another.  *)
CellCode(c) == CASE c = A -> 1 [] c = B -> 2 [] OTHER -> 3
Code(im, p) == IF p \in DOMAIN im THEN CellCode(im[p]) ELSE 0
MCCrc == [im \in Images |-> {4 * (p - 1) + Code(im, p) : p \in 1 .. 4}]

Short == <<A, B>>
Long  == <<A, B, B, A>>

Plain(cmds) == [cmd : cmds]
Fast(seq, w0, w1) == [cmd |-> "FAST", dlc |-> 8, seq |-> seq, word0 |-> w0, word1 |-> w1]
Raw(w0, w1)       == [cmd |-> "RAW", dlc |-> 8, word0 |-> w0, word1 |-> w1]
Data(seq, w)      == [cmd |-> "DATA", dlc |-> 8, sum_ok |-> TRUE, seq |-> seq, word |-> w]
SetAddr(a)        == [cmd |-> "SET_ADDR", dlc |-> 5, addr |-> a, low_bits |-> 0]
CrcOf(im)         == [cmd |-> "CRC", dlc |-> 5, crc |-> Crc[im]]
Info(page)        == [cmd |-> "INFO", page |-> page]

(* Fast uploads of both images, from either end and over the edge.         *)
FastPackets ==
    Plain({"PING", "ERASE", "BOOT"})
    \cup {Fast(0, A, B), Fast(1, A, B), Fast(1, B, A)}
    \cup {SetAddr(a) : a \in {1, 3, 4}}
    \cup {CrcOf(Short), CrcOf(Long)}

(* Every malformed packet, and packets that write nothing.                 *)
OtherPackets ==
    Plain({"PING", "BOOT", "RESET", "UNKNOWN", "FOREIGN"})
    \cup {Info(page) : page \in {0, 5, 6}}
    \cup {[Fast(0, A, B) EXCEPT !.dlc = 7], [Raw(A, B) EXCEPT !.dlc = 7]}
    \cup {[Data(0, A) EXCEPT !.dlc = 7], [Data(0, A) EXCEPT !.sum_ok = FALSE]}
    \cup {[SetAddr(1) EXCEPT !.dlc = 4], [SetAddr(1) EXCEPT !.low_bits = 2]}
    \cup {SetAddr(0), SetAddr(5)}
    \cup {[CrcOf(Short) EXCEPT !.dlc = 4], CrcOf(Short)}

(* The three ways to send data, mixed, among traffic of every other kind.  *)
MixedPackets ==
    OtherPackets
    \cup Plain({"ERASE"})
    \cup {Fast(0, A, B), Fast(1, B, A), Raw(A, B), Raw(B, A)}
    \cup {Data(s, w) : s \in 0 .. 1, w \in {A, B}}
    \cup {SetAddr(1), SetAddr(3)}
    \cup {CrcOf(Long), CrcOf(<<B, A>>)}

(* One upload, to be broken off by faults and loss of power.               *)
FaultPackets ==
    Plain({"ERASE", "BOOT"})
    \cup {Fast(0, A, B), Fast(1, B, A), SetAddr(1)}
    \cup {CrcOf(Short), CrcOf(Long)}

Blank    == {BlankFlash}
Deployed == {BlankFlash, SealedFlash(Short), SealedFlash(Long)}
=============================================================================
