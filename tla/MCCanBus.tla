------------------------------ MODULE MCCanBus ------------------------------
(***************************************************************************)
(* Instances of CanBus for TLC: the device is node 1, and there are        *)
(* uploads to its neighbours, to the last node and to itself.              *)
(***************************************************************************)
EXTENDS CanBus

MCMailboxes == 0 .. 2
MCHosts == {0, 1, 15}
MCSeqs  == {15, 16}
=============================================================================
