--------------------------- MODULE MutationQueue ---------------------------
(***************************************************************************)
(* What an outbox promises of the mutations it is given: each one is kept   *)
(* until the server has it, or until there is a reason to give it up, and   *)
(* it is not kept for ever.  OutboxService implements it.                   *)
(*                                                                         *)
(* A mutation may reach the server more than once, and even after it has    *)
(* left the queue.                                                         *)
(***************************************************************************)
EXTENDS Naturals

CONSTANT MaxEntries

Entries == 1 .. MaxEntries

VARIABLES status,    \* of each mutation: new, queued, or gone
          received,  \* mutations the server has had
          excused,   \* mutations there was a reason to give up
          adrift     \* mutations that are queued where nobody looks

vars == <<status, received, excused, adrift>>

Init ==
    /\ status = [n \in Entries |-> "new"]
    /\ received = {} /\ excused = {} /\ adrift = {}

(* Mutations are numbered as they come. *)
Submit(n) ==
    /\ status[n] = "new" /\ \A m \in Entries : m < n => status[m] # "new"
    /\ status' = [status EXCEPT ![n] = "queued"]
    /\ adrift' \in {adrift, adrift \cup {n}}
    /\ UNCHANGED <<received, excused>>

Reach(n) ==
    /\ status[n] # "new" /\ received' = received \cup {n}
    /\ UNCHANGED <<status, excused, adrift>>

Leave(n) ==
    /\ status[n] = "queued" /\ n \in received
    /\ status' = [status EXCEPT ![n] = "gone"]
    /\ UNCHANGED <<received, excused, adrift>>

GiveUp(n) ==
    /\ status[n] # "new"
    /\ status' = [status EXCEPT ![n] = "gone"] /\ excused' = excused \cup {n}
    /\ UNCHANGED <<received, adrift>>

Next == \E n \in Entries : Submit(n) \/ Reach(n) \/ Leave(n) \/ GiveUp(n)

Settles == \A n \in Entries : status[n] = "queued" ~> status[n] = "gone" \/ n \in adrift

Safe == Init /\ [][Next]_vars
Spec == Safe /\ Settles
=============================================================================
