------------------------------ MODULE SafeBoot ------------------------------
(***************************************************************************)
(* What the bootloader promises about the application, with no flash, no   *)
(* packets and no metadata: a set of images that were approved since the   *)
(* last update began, and at most one image that runs.  An image runs only *)
(* if it is approved; while it runs nothing is approved or withdrawn.      *)
(***************************************************************************)
CONSTANTS
    App,    \* images
    None    \* what runs while none of them does

VARIABLES approved, running

svars == <<approved, running>>

Init == approved \in SUBSET App /\ running = None

Approve(im) ==
    /\ running = None
    /\ approved' = approved \cup {im}
    /\ UNCHANGED running

WithdrawAll == running = None /\ approved' = {} /\ UNCHANGED running

Run(im) ==
    /\ running = None
    /\ im \in approved
    /\ running' = im
    /\ UNCHANGED approved

Stop == running # None /\ running' = None /\ UNCHANGED approved

Next == (\E im \in App : Approve(im) \/ Run(im)) \/ WithdrawAll \/ Stop

Spec == Init /\ [][Next]_svars
=============================================================================
