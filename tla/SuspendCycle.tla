----------------------------- MODULE SuspendCycle -----------------------------
(***************************************************************************)
(* What goToSleep promises its caller: between the request to sleep and    *)
(* the return from it the kernel is asked once for standby and given time  *)
(* to enter it and to come back.                                           *)
(***************************************************************************)
VARIABLE phase

Init == phase = "awake"

Request == phase = "awake"     /\ phase' = "requested"
Enter   == phase = "requested" /\ phase' = "standby"
Leave   == phase = "standby"   /\ phase' = "resumed"
Return  == phase = "resumed"   /\ phase' = "awake"

Next == Request \/ Enter \/ Leave \/ Return

Spec == Init /\ [][Next]_phase
=============================================================================
