---------------------------- MODULE MCIntegration ----------------------------
(* Two nodes, two attempts each: enough for a retry to meet its predecessor's *)
(* journal record, and for one node's acceptance to move the ref under the    *)
(* other's transaction.                                                       *)
EXTENDS Integration, TLC

CONSTANTS a, b

\* Nodes differ only by name (they have no dependencies here).
Nodes == Permutations(Node)
=============================================================================
