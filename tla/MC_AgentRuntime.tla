-------------------------- MODULE MC_AgentRuntime --------------------------
(* Two calls at a time, four spawns and three turns of one session, and a  *)
(* restart of the server.                                                  *)
EXTENDS AgentRuntime, TLC
CONSTANTS c1, c2
MCCallers == {c1, c2}
Symmetry == Permutations(MCCallers)
=============================================================================
