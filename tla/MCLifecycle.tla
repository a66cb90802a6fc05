---------------------------- MODULE MCLifecycle ----------------------------
(* Instances of Lifecycle for TLC. *)
EXTENDS Lifecycle

EveryFault == Faults
OneLateUpdate == {"late"}
=============================================================================
