----------------------------- MODULE MCAgentRun -----------------------------
(***************************************************************************)
(* Instances of AgentRun.  Runs, intents and plans are interchangeable.      *)
(***************************************************************************)
EXTENDS AgentRun, TLC

Symmetry == Permutations(Runs) \cup Permutations(Intents) \cup Permutations(Plans)
=============================================================================
