---------------------------- MODULE MC_EventLog ----------------------------
(* Two resources, each of a kind of its own, so that the two can be swapped. *)
EXTENDS EventLog, TLC

CONSTANTS task, agent

MCResources == {task, agent}
MCKindOf == [r \in MCResources |-> r]
MCPageSizes == {2}
Symmetry == Permutations(MCResources)
=============================================================================
