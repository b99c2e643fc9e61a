---------------------------- MODULE AtomicUpgrade ----------------------------
(***************************************************************************)
(* What an upgrade promises about the system the device will start: it is  *)
(* always one complete release, or the recovery system, and one release    *)
(* replaces another only by way of the recovery system.  There is no       *)
(* instant at which the device would start nothing, or half of each.       *)
(***************************************************************************)
EXTENDS Integers

CONSTANT Releases      \* the releases of the system, numbered from 1

Recovery == 0          \* the recovery system (the ramdisk)

VARIABLE system        \* what the device starts when it is next powered

Init == system \in Releases

EnterRecovery == system \in Releases /\ system' = Recovery

LeaveRecovery == system = Recovery /\ system' \in Releases

Next == EnterRecovery \/ LeaveRecovery

Spec == Init /\ [][Next]_system
=============================================================================
