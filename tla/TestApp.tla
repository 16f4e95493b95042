------------------------------ MODULE TestApp -------------------------------
(***************************************************************************)
(* The test application of src/app_test/main.c on top of Bootloader: it    *)
(* answers CMD_PING under a version of its own, and CMD_RESET by storing   *)
(* the boot request, answering, and resetting the device.                  *)
(***************************************************************************)
EXTENDS Bootloader

(* 0xA0.0x01 instead of the bootloader's version.                          *)
AppPingReply == [type |-> "ACK", cmd |-> "PING", app |-> TRUE]

(* Byte 2 of the answer is boot_request_is_set() after boot_request_set(). *)
AppResetReply == [type |-> "ACK", cmd |-> "RESET", requested |-> TRUE]

App(pkt) == pc = "app" /\ frame' = pkt

AppPing(pkt) ==
    /\ App(pkt)
    /\ pkt.cmd = "PING"
    /\ sent' = AppPingReply
    /\ UNCHANGED <<flash, bootVars, ramVars, pc, step, verified>>

(* Mutant: the request is left to the reset that follows.                  *)
AppResetUnrequested(pkt) ==
    /\ App(pkt)
    /\ pkt.cmd = "RESET"
    /\ pc' = "resetting"
    /\ sent' = AppResetReply
    /\ UNCHANGED <<flash, bootVars, ramVars, step, verified>>

AppReset(pkt) ==
    /\ App(pkt)
    /\ pkt.cmd = "RESET"
    /\ bkp0r' = TRUE
    /\ pc' = "resetting"
    /\ sent' = AppResetReply
    /\ UNCHANGED <<flash, can_started, ramVars, step, verified>>

(* The filter lets only the command identifier through.                    *)
AppOther(pkt) ==
    /\ App(pkt)
    /\ pkt.cmd \notin {"PING", "RESET"}
    /\ sent' = IF pkt.cmd \in {"FAST", "RAW", "FOREIGN"} THEN NoResponse
               ELSE Nack(pkt.cmd, "UNKNOWN_CMD")
    /\ UNCHANGED <<flash, bootVars, ramVars, pc, step, verified>>

app_can_poll(pkt) == AppPing(pkt) \/ AppReset(pkt) \/ AppOther(pkt)
=============================================================================
