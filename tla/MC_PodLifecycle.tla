-------------------------- MODULE MC_PodLifecycle --------------------------
(* Two terminals, one that is restarted whenever it ends and one that is   *)
(* not, in a pod of three kinds: an orderly one; a docker pod whose daemon *)
(* refuses and whose exits are heard of late; a local pod on which         *)
(* startTerminal and stopAllForWorkspace are called.                       *)
EXTENDS PodLifecycle
CONSTANTS kept, plain
MCTerminals == {kept, plain}
MCAlways == {kept}
Plainly == [docker |-> FALSE, refuses |-> FALSE, late |-> FALSE, unlocked |-> FALSE]
MCSettings ==
    {Plainly, [Plainly EXCEPT !.unlocked = TRUE],
     [docker |-> TRUE, refuses |-> TRUE, late |-> TRUE, unlocked |-> FALSE]}
=============================================================================
