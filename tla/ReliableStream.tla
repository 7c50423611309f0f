--------------------------- MODULE ReliableStream ---------------------------
(***************************************************************************)
(* What a server's stream of events promises one client, whatever happens  *)
(* to the connection and to the server: a client at rest has everything,   *)
(* was told that it has not, or lost an event in one of two moments.       *)
(* EventStream implements it.                                              *)
(*                                                                         *)
(* Events may come more than once, and a later one before an earlier one.  *)
(***************************************************************************)
EXTENDS Naturals

VARIABLES published,   \* how many events there are; they are numbered from 1
          accounted,   \* events the client was given, or told it has lost
          lost,        \* events that went by it in silence
          resting      \* the client is connected and awaits nothing

vars == <<published, accounted, lost, resting>>

Init == published = 0 /\ accounted = {} /\ lost = {} /\ resting = FALSE

Missing == (1 .. published) \ accounted

(* A client comes to rest only with nothing missing that is not lost. *)
Rests == resting' \in BOOLEAN /\ (resting' => Missing' \subseteq lost')

(* A new event wakes the client, or is lost on a client that was not at rest. *)
Publish ==
    /\ published' = published + 1 /\ resting' = FALSE
    /\ \/ lost' = lost
       \/ ~resting /\ lost' = lost \cup {published'}
    /\ UNCHANGED accounted

HandOver(e) ==
    /\ ~resting /\ accounted' = accounted \cup {e} /\ Rests
    /\ UNCHANGED <<published, lost>>

(* Everything there is counts as lost: the client is to ask anew for all of it. *)
Announce ==
    /\ ~resting /\ accounted' = 1 .. published /\ Rests
    /\ UNCHANGED <<published, lost>>

(* The connection or the server goes; only a client that was not at rest   *)
(* may have lost something more.                                           *)
Disrupt ==
    /\ resting' = FALSE
    /\ lost \subseteq lost' /\ lost' \ lost \subseteq Missing
    /\ resting => lost' = lost
    /\ UNCHANGED <<published, accounted>>

Settle == ~resting /\ Rests /\ UNCHANGED <<published, accounted, lost>>

Next ==
    \/ Publish \/ Announce \/ Disrupt \/ Settle
    \/ \E e \in 1 .. published : HandOver(e)

Spec == Init /\ [][Next]_vars
=============================================================================
