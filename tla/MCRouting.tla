------------------------------ MODULE MCRouting ------------------------------
(* Four runtimes of three vendors, assigned by discovery, by declaration or   *)
(* by a judge list.                                                           *)
EXTENDS Routing, TLC

CONSTANTS x, y, z, q

None == [rt \in Runtime |-> NoRt]
\* x works and y judges; z is of y's vendor and x's tier, q is not available.
Composed ==
  [vendor |-> x :> "v" @@ y :> "w" @@ z :> "w" @@ q :> "v", fallback |-> None,
   tier |-> x :> 1 @@ y :> 2 @@ z :> 1 @@ q :> 1,
   order |-> <<x, z, y, q>>, rested |-> {x, y, z},
   worker |-> x, judge |-> y, composed |-> {"worker", "judge"}, list |-> <<>>]
\* x falls back to z and z to q; y judges, and falls back to z.
Declared ==
  [Composed EXCEPT !.vendor[z] = "u", !.composed = {},
                   !.fallback = [None EXCEPT ![x] = z, ![z] = q, ![y] = z]]
\* A judge list over everything, on top of a declared fallback.
Listed ==
  [Composed EXCEPT !.composed = {"judge"}, !.fallback = [None EXCEPT ![y] = x],
                   !.list = <<y, x, z>>]

Catalogues == {Composed, Declared, Listed}
=============================================================================
