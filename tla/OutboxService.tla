--------------------------- MODULE OutboxService ---------------------------
(***************************************************************************)
(* electron/shell/outbox-service over packages/router's Outbox: the        *)
(* durable queue of mutations for one paired server.                       *)
(*                                                                         *)
(* A call is an enqueueAndFire or a drain.  Each awaits its request, and   *)
(* nothing keeps two calls apart: the boot drain, the drain of a           *)
(* reconnect and a mutation the user makes may all be in flight.  Entries  *)
(* are numbered as they are enqueued, which is the order the routing       *)
(* table's index lists them in.  Methods, inputs and results are not told  *)
(* apart; the retry count decides nothing.                                 *)
(***************************************************************************)
EXTENDS Integers, FiniteSets

CONSTANTS Calls,       \* calls that may be in flight together
          MaxEntries,  \* bound: mutations enqueued
          MaxFaults    \* bound: requests that fail, and crashes

ASSUME OutboxAssumption ==
    IsFiniteSet(Calls) /\ MaxEntries \in Nat /\ MaxFaults \in Nat

VARIABLES outbox,    \* table outbox
          routing,   \* table outbox_routing
          call,      \* what each call is at
          applied,   \* history: entries the server has applied, once or more
          given,     \* history: how many entries were enqueued
          settled,   \* history: entries the server rejected, or the user removed
          orphaned,  \* history: entries a crash left without routing
          mistaken,  \* history: entries dropped on a failure read as a rejection
          faults     \* for the bound

history == <<applied, given, settled, orphaned, mistaken, faults>>
vars == <<outbox, routing, call, history>>

Entries == 1 .. given
Idle == [phase |-> "idle", drains |-> FALSE, entry |-> 0, todo |-> {}]

Init ==
    /\ outbox = {} /\ routing = {} /\ call = [c \in Calls |-> Idle]
    /\ applied = {} /\ given = 0 /\ settled = {} /\ orphaned = {} /\ mistaken = {} /\ faults = 0

-----------------------------------------------------------------------------
Sending(c) == call[c].phase \in {"sent", "applied"}

Ends(c) == call' = [call EXCEPT ![c] = Idle]

(* A drain goes on to its next row; what enqueueAndFire fires has none. *)
Continues(c) ==
    call' = [call EXCEPT ![c] =
               IF @.todo = {} THEN Idle ELSE [@ EXCEPT !.phase = "draining", !.entry = 0]]

(* Mutant: a failure does not stop the drain. *)
StopsNever(c) == Continues(c)

(* The first failure ends a drain. *)
Stops(c) == Ends(c)

(* outbox.remove and removeRouting; an entry already gone is no error. *)
Forgets(n) == outbox' = outbox \ {n} /\ routing' = routing \ {n}

(* Mutant: what failed is removed. *)
KeepsNothing(n) == outbox' = outbox \ {n} /\ routing' = routing \ {n}

(* markRetry, which throws if the entry is gone: either way the call ends. *)
Keeps(n) == UNCHANGED <<outbox, routing>>

Faults == faults < MaxFaults /\ faults' = faults + 1

-----------------------------------------------------------------------------
(* clientFor finds no server or no token: markRetry. *)
NoClient(c, n) == Faults /\ Keeps(n) /\ Stops(c)

(* enqueue, insertRouting, fireEntry *)
EnqueueAndFire(c) ==
    /\ call[c] = Idle /\ given < MaxEntries
    /\ given' = given + 1
    /\ outbox' = outbox \cup {given + 1} /\ routing' = routing \cup {given + 1}
    /\ \/ /\ call' = [call EXCEPT ![c].phase = "sent", ![c].entry = given + 1]
          /\ UNCHANGED faults
       \/ Faults /\ UNCHANGED call    \* no client: markRetry
    /\ UNCHANGED <<applied, settled, orphaned, mistaken>>

(* The process dies between the two inserts. *)
EnqueueTorn ==
    /\ given < MaxEntries /\ Faults
    /\ given' = given + 1
    /\ outbox' = outbox \cup {given + 1} /\ orphaned' = orphaned \cup {given + 1}
    /\ call' = [c \in Calls |-> Idle]
    /\ UNCHANGED <<routing, applied, settled, mistaken>>

Drain(c) ==
    /\ call[c] = Idle /\ routing # {}
    /\ call' = [call EXCEPT ![c] = [phase |-> "draining", drains |-> TRUE, entry |-> 0,
                                    todo |-> routing]]
    /\ UNCHANGED <<outbox, routing, history>>

(* The next row of the list, which is in order.  One whose entry went since *)
(* the list was read only loses its routing.                               *)
DrainNext(c) ==
    \E n \in call[c].todo :
       LET rest == call[c].todo \ {n}
       IN /\ call[c].phase = "draining" /\ \A m \in rest : n < m
          /\ \/ /\ n \in outbox
                /\ call' = [call EXCEPT ![c].phase = "sent", ![c].entry = n, ![c].todo = rest]
                /\ UNCHANGED <<outbox, routing, faults>>
             \/ n \in outbox /\ NoClient(c, n)
             \/ /\ n \notin outbox
                /\ routing' = routing \ {n}
                /\ call' = [call EXCEPT ![c] =
                              IF rest = {} THEN Idle ELSE [@ EXCEPT !.todo = rest]]
                /\ UNCHANGED <<outbox, faults>>
          /\ UNCHANGED <<applied, given, settled, orphaned, mistaken>>

-----------------------------------------------------------------------------
(* The request.  The idempotency key is not part of it: the server applies *)
(* what it is sent.                                                        *)

ServerApplies(c) ==
    /\ call[c].phase = "sent"
    /\ applied' = applied \cup {call[c].entry}
    /\ call' = [call EXCEPT ![c].phase = "applied"]
    /\ UNCHANGED <<outbox, routing, given, settled, orphaned, mistaken, faults>>

Succeeds(c) ==
    /\ call[c].phase = "applied"
    /\ Forgets(call[c].entry) /\ Continues(c)
    /\ UNCHANGED history

(* The server answers with an error of its own. *)
Rejected(c) ==
    /\ call[c].phase = "sent" /\ Faults
    /\ Forgets(call[c].entry) /\ Stops(c)
    /\ settled' = settled \cup {call[c].entry}
    /\ UNCHANGED <<applied, given, orphaned, mistaken>>

FailsTransiently(c) ==
    /\ Sending(c) /\ Faults
    /\ Keeps(call[c].entry) /\ Stops(c)
    /\ UNCHANGED <<applied, given, settled, orphaned, mistaken>>

(* A lost connection or a 5xx whose text isTransientFailure does not know: *)
(* ORPCError says "Internal Server Error", fetch says "terminated".        *)
FailsUnrecognised(c) ==
    /\ Sending(c) /\ Faults
    /\ Forgets(call[c].entry) /\ Stops(c)
    /\ mistaken' = mistaken \cup {call[c].entry}
    /\ UNCHANGED <<applied, given, settled, orphaned>>

RemoveEntry(n) ==
    /\ n \in outbox
    /\ outbox' = outbox \ {n} /\ routing' = routing \ {n}
    /\ settled' = settled \cup {n}
    /\ UNCHANGED <<call, applied, given, orphaned, mistaken, faults>>

Crash ==
    /\ Faults
    /\ call' = [c \in Calls |-> Idle]
    /\ UNCHANGED <<outbox, routing, applied, given, settled, orphaned, mistaken>>

-----------------------------------------------------------------------------
Answer(c) ==
    ServerApplies(c) \/ Succeeds(c) \/ Rejected(c) \/ FailsTransiently(c) \/ FailsUnrecognised(c)

Next ==
    \/ \E c \in Calls : EnqueueAndFire(c) \/ Drain(c) \/ DrainNext(c) \/ Answer(c)
    \/ EnqueueTorn \/ Crash
    \/ \E n \in Entries : RemoveEntry(n)

(* The bridge reconnects and the app is started again and again; a drain   *)
(* goes on; a request is answered or fails.                                *)
Fairness == \A c \in Calls : WF_vars(Drain(c)) /\ WF_vars(DrainNext(c)) /\ WF_vars(Answer(c))

Spec == Init /\ [][Next]_vars
FairSpec == Spec /\ Fairness
-----------------------------------------------------------------------------
(* Properties. *)

(* Types of the state; a call holds an entry exactly while its request is  *)
(* out, and one that is between two requests of a drain has rows to go.    *)
TypeOK ==
    /\ given \in 0 .. MaxEntries /\ faults \in 0 .. MaxFaults
    /\ outbox \subseteq Entries /\ routing \subseteq Entries
    /\ call \in [Calls -> [phase : {"idle", "draining", "sent", "applied"}, drains : BOOLEAN,
                           entry : 0 .. given, todo : SUBSET Entries]]
    /\ \A c \in Calls : /\ Sending(c) <=> call[c].entry # 0
                        /\ call[c].phase = "draining" => call[c].todo # {}
    /\ applied \subseteq Entries
    /\ settled \subseteq Entries /\ orphaned \subseteq Entries /\ mistaken \subseteq Entries

(* "preserve order: stop on first failure": while a drain has a row's      *)
(* request out, no older row is still queued - whatever other calls and    *)
(* faults did since the drain read its list (drainForRegistry).            *)
DrainsInOrder ==
    \A c \in Calls : call[c].drains /\ Sending(c) =>
        \A n \in outbox \cap routing : call[c].entry <= n

(* The queue of MutationQueue, seen in the tables. *)
Queue == INSTANCE MutationQueue WITH
    status <- [n \in 1 .. MaxEntries |->
                 IF n > given THEN "new" ELSE IF n \in outbox THEN "queued" ELSE "gone"],
    received <- applied,
    excused <- settled \cup mistaken,
    adrift <- orphaned

(* The outbox implements the queue: whatever calls overlap and whatever     *)
(* crashes, an entry leaves it only once the server has it, refused it, or  *)
(* the user dropped it - or a failure was misread - and every entry leaves  *)
(* it but for one whose routing a crash kept from being written (fireEntry, *)
(* drainForRegistry, removeEntry).                                         *)
ImplementsQueue == Queue!Spec
=============================================================================
