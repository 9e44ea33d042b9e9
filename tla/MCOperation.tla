----------------------------- MODULE MCOperation -----------------------------
(* Two calls of one node, two dead controllers and an operator's resume.      *)
EXTENDS Operation
=============================================================================
