--------------------------- MODULE MC_AgentDaemon ---------------------------
(* Instances of AgentDaemon for TLC: two interchangeable agent processes, or one. *)
EXTENDS AgentDaemon, TLC

CONSTANTS a1, a2

TwoAgents == {a1, a2}
OneAgent == {a1}
AgentSymmetry == Permutations(TwoAgents)
=============================================================================
