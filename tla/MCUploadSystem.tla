--------------------------- MODULE MCUploadSystem ---------------------------
(***************************************************************************)
(* Instances of UploadSystem, and of the invariants of its proofs, for     *)
(* TLC: the cells of MCBootloader, an image of four fast frames, and       *)
(* sequence numbers that wrap within it.                                   *)
(***************************************************************************)
EXTENDS UploadSafety, TLC

MCBits == 0 .. 32
MCTornBits == {32}
A == {0, 1}
B == {0}
MCCell == {A, B, MCBits}
MCSectorBase == 4 :> 1 @@ 5 :> 5
MCMagic == {2, 3}

(* Sizes are written in binary, CRCs tell images apart position by         *)
(* position.                                                               *)
MCSizeWord == [n \in 0 .. AppWords |-> {b \in 0 .. 3 : (n \div 2 ^ b) % 2 = 1}]
CellCode(c) == CASE c = A -> 1 [] c = B -> 2 [] OTHER -> 3
Code(im, p) == IF p \in DOMAIN im THEN CellCode(im[p]) ELSE 0
MCCrc == [im \in Images |-> {4 * (p - 1) + Code(im, p) : p \in 1 .. AppWords}]

Four  == <<A, B, B, A, A, B, A, A>>
Three == <<A, B, A>>

MCMailboxes == 0 .. 2

(* The packets of the host, which are all that reach the device.           *)
ScriptPackets == UNION {Range(Scripts[o]) : o \in Options}

CommandLineOf(mode, erase, crc, boot) ==
    [mode |-> mode, erase |-> erase, crc |-> crc, boot |-> boot]
Fast   == CommandLineOf("FAST", TRUE, TRUE, TRUE)
Raw    == CommandLineOf("RAW", TRUE, TRUE, TRUE)
Legacy == CommandLineOf("DATA", TRUE, TRUE, TRUE)
NoErase == CommandLineOf("FAST", FALSE, TRUE, FALSE)
NoCrc   == CommandLineOf("FAST", TRUE, FALSE, TRUE)
AnyOptions == {Fast, Raw, NoErase, NoCrc}
Retried    == {Fast, Legacy}
FastOnly   == {Fast}
LegacyOnly == {Legacy}

Old   == <<A, B, B, B>>
Blank == {BlankFlash}
AnyFlash == {BlankFlash, SealedFlash(Old), SealedFlash(Four)}
Examples == {Old}

(* What the theorems about an upload assume.                               *)
ASSUME TransferAssumption == FirmwareBoots /\ \A o \in Options : ToldApart(o, MaxFaults)
=============================================================================
