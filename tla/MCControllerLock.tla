-------------------------- MODULE MCControllerLock --------------------------
(* Three contenders for one run directory, one of whose pids may be reused. *)
EXTENDS ControllerLock
CONSTANTS p1, p2, p3
=============================================================================
