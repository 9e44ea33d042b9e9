----------------------------- MODULE MCRunLoop -----------------------------
(* Two nodes, independent or one behind the other; one runtime shared by    *)
(* every role, or a worker runtime and a judge runtime.                     *)
EXTENDS RunLoop

CONSTANTS a, b, w, j

Everyone(r) == [n \in Node |-> r]

\* Two nodes side by side, one gated; each runtime takes one job at a time.
SideBySide ==
  [dep |-> {}, worker |-> Everyone(w), judge |-> Everyone(j), gated |-> {a},
   parallel |-> 2, concurrent |-> [r \in Runtime |-> 1], revisions |-> 1]
\* One slot for everything, on a runtime that would take two.
OneSlot ==
  [SideBySide EXCEPT !.judge = Everyone(w), !.parallel = 1, !.revisions = 0,
                     !.concurrent = [r \in Runtime |-> 2]]
\* b behind a gated a.
Chain == [SideBySide EXCEPT !.dep = {<<b, a>>}, !.parallel = 1, !.revisions = 0]
\* The worker of b is routed to the runtime that judges a.
Shared == [SideBySide EXCEPT !.worker[b] = j]

Layouts == {SideBySide, OneSlot, Chain}
Crossed == {Shared}

\* Two controllers where one failure reaches the other node; elsewhere one.
Lives == [c \in Contract |-> IF c = Chain THEN 2 ELSE 1]
Once == [c \in Contract |-> 1]
\* One hop or wait, in either role, of a node whose runtime the other one needs.
Hops == [c \in Contract |-> [n \in Node |-> IF c = OneSlot /\ n = a THEN 1 ELSE 0]]
NoHops == [c \in Contract |-> [n \in Node |-> 0]]
=============================================================================
