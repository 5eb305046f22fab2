------------------------- MODULE MCAgentCheckpoint -------------------------
(***************************************************************************)
(* A small instance of AgentCheckpoint: two callers, two flows, and one  *)
(* input for each way through the graph and its checks.                    *)
(***************************************************************************)
EXTENDS AgentCheckpoint, TLC

CONSTANTS c1, c2, flowA, flowB, note

\* The input that reaches the human, and what one change makes of it.
Reviewed == [flow |-> flowA, named |-> TRUE, schema |-> TRUE, task |-> TRUE, forbidden |-> FALSE,
             rules |-> "replan", evidence |-> {note}, actions |-> "none"]

MCInputs ==
  {Reviewed,
   [Reviewed EXCEPT !.flow = flowB],
   [Reviewed EXCEPT !.named = FALSE],
   [Reviewed EXCEPT !.schema = FALSE],
   [Reviewed EXCEPT !.forbidden = TRUE, !.actions = "external"],
   [Reviewed EXCEPT !.rules = "keep", !.actions = "internal"],
   [Reviewed EXCEPT !.rules = "undecided"],
   [Reviewed EXCEPT !.rules = "replanWithAssist"],
   [Reviewed EXCEPT !.evidence = {}],
   [Reviewed EXCEPT !.actions = "external"]}

CallerSymmetry == Permutations(Callers)
=============================================================================
