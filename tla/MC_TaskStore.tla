---------------------------- MODULE MC_TaskStore ----------------------------
(* A parent with one subtask that may depend on it, or name it twice. *)
EXTENDS TaskStore

CONSTANTS epic, sub, ada, bob, c1, c2

MCTasks == {epic, sub}
MCAgents == {ada, bob}
MCCallers == {c1, c2}
MCParentOf == [t \in MCTasks |-> IF t = sub THEN epic ELSE None]
MCDepChoices == [t \in MCTasks |-> IF t = sub THEN {<<>>, <<epic>>, <<epic, epic>>} ELSE {<<>>}]
MCMaxVersion == [t \in MCTasks |-> IF t = sub THEN 3 ELSE 2]
MCTtls == {NoLease, 0}
=============================================================================
