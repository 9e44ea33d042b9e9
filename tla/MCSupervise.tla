---------------------------- MODULE MCSupervise ----------------------------
(* Two processes: a holder, dead or alive, and the one that replaces it.    *)
EXTENDS Supervise

CONSTANTS c1, c2
=============================================================================
