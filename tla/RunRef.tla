------------------------------- MODULE RunRef -------------------------------
(***************************************************************************)
(* What a run promises of its integration ref, whatever happens to the     *)
(* controllers that keep it: the abstract specification that module        *)
(* Integration implements.                                                 *)
(*                                                                         *)
(* A candidate is verified; the ref fast-forwards, either to a verified    *)
(* candidate built on its very tip or because someone else moved it; and a *)
(* node is done once, with a verified candidate the ref contains, for      *)
(* good.  No journal, no controller and no crash appear here.              *)
(***************************************************************************)
EXTENDS Naturals

CONSTANTS
  Node,     \* the run's nodes
  Root,     \* the commits of the ref the run starts from
  NoCommit  \* no commit: the integrated head of a node that is not done

VARIABLES
  tip,       \* the ref: the commits it contains
  verified,  \* the candidates whose verification passed
  landed,    \* each node's integrated head
  moves      \* moves of the ref by someone else

vars == <<tip, verified, landed, moves>>

Init ==
  /\ tip = Root /\ verified = {} /\ moves = 0
  /\ landed = [n \in Node |-> NoCommit]

\* A candidate's final verification passes.
Verify ==
  /\ \E c \in verified' : verified' = verified \cup {c}
  /\ UNCHANGED <<tip, landed, moves>>

\* The conditional update: the tip becomes a verified candidate built on it.
Advance ==
  /\ tip' \in verified /\ tip \subseteq tip'
  /\ UNCHANGED <<verified, landed, moves>>

\* Someone else's commits, always on top of the tip.
ForeignMove ==
  /\ tip \subseteq tip' /\ moves' = moves + 1
  /\ UNCHANGED <<verified, landed>>

\* A node is done: with a verified candidate, in the ref, and once.
Land(n) ==
  /\ landed[n] = NoCommit
  /\ \E c \in verified : c \subseteq tip /\ landed' = [landed EXCEPT ![n] = c]
  /\ UNCHANGED <<tip, verified, moves>>

Next ==
  \/ Verify \/ Advance \/ ForeignMove
  \/ \E n \in Node : Land(n)

Spec == Init /\ [][Next]_vars
=============================================================================
