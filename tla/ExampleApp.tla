----------------------------- MODULE ExampleApp -----------------------------
(***************************************************************************)
(* The application of examples/app_bootloader_integration.c next to the    *)
(* test application.  It differs in CMD_RESET: it answers first and stores *)
(* the boot request afterwards, so that the device may be reset in between *)
(* with the request acknowledged and not stored.                           *)
(***************************************************************************)
EXTENDS TestApp

CONSTANT ExampleImages    \* images that were built from the example

ASSUME ExampleAssumption == ExampleImages \subseteq Images

ExampleReset(pkt) ==
    /\ App(pkt)
    /\ pkt.cmd = "RESET"
    /\ pc' = "asked"
    /\ sent' = AppResetReply
    /\ UNCHANGED <<flash, bootVars, ramVars, step, verified>>

app_request_bootloader_reset ==
    /\ pc = "asked"
    /\ bkp0r' = TRUE
    /\ pc' = "resetting"
    /\ sent' = NoResponse
    /\ UNCHANGED <<flash, can_started, ramVars, frame, step, verified>>

app_handle_bootloader_can_command(pkt) == AppPing(pkt) \/ ExampleReset(pkt) \/ AppOther(pkt)

(* The application that is installed gets the packet.                      *)
AppHandles(pkt) ==
    \/ InstalledImage \in ExampleImages /\ app_handle_bootloader_can_command(pkt)
    \/ InstalledImage \notin ExampleImages /\ app_can_poll(pkt)
=============================================================================
