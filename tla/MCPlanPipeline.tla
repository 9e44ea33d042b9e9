---------------------------- MODULE MCPlanPipeline --------------------------
EXTENDS PlanPipeline, TLC
\* The plan whose nodes both declare no file is the one the freeze refuses.
BareRefused == {[n \in Node |-> "bare"]}
\* A critical anywhere, and a minor finding at one of the nodes: it takes the
\* id of a critical elsewhere, or judges the one at its node again.
OneMinor ==
  [id : {"review"} \X Id, critical : {TRUE}, at : Node \cup {"plan"}]
    \cup [id : {"review"} \X Id, critical : {FALSE}, at : {CHOOSE n \in Node : TRUE}]
=============================================================================
