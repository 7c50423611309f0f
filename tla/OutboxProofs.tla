----------------------------- MODULE OutboxProofs -----------------------------
(***************************************************************************)
(* The outbox implements the safety of MutationQueue and keeps the order   *)
(* of its drains, for any number of calls, mutations and faults.           *)
(*                                                                         *)
(* That an entry may leave the table is seen from the call that removes    *)
(* it: its answer has come, so the server has the entry.  That a drain is  *)
(* in order hangs on what was enqueued after it read its list being later  *)
(* than all of the list.                                                   *)
(***************************************************************************)
EXTENDS OutboxService, TLAPS

(* What a call may be at when m mutations have been enqueued. *)
CallOf(m) == [phase : {"idle", "draining", "sent", "applied"}, drains : BOOLEAN,
              entry : 0 .. m, todo : SUBSET (1 .. m)]

(* An answer that is still to be handled is of an entry the server has.    *)
AnsweredIsApplied == \A c \in Calls : call[c].phase = "applied" => call[c].entry \in applied

(* What a drain has to do is later than what it is at; what is queued is   *)
(* in its hands, or later still.                                           *)
InHand(c) == call[c].todo \cup ({call[c].entry} \ {0})

DrainsAhead ==
    \A c \in Calls : call[c].drains =>
        /\ Sending(c) => \A n \in call[c].todo : call[c].entry < n
        /\ \A n \in outbox \cap routing : n \in InHand(c) \/ \A m \in InHand(c) : m < n

IInv == TypeOK /\ AnsweredIsApplied /\ DrainsAhead

(* The calls stay of their kind when a field of one is written. *)
LEMMA FieldUpdates ==
    ASSUME NEW g \in Nat, NEW f \in [Calls -> CallOf(g)], NEW c \in Calls
    PROVE  /\ \A p \in {"idle", "draining", "sent", "applied"} :
                [f EXCEPT ![c].phase = p] \in [Calls -> CallOf(g)]
           /\ \A n \in 0 .. g : [f EXCEPT ![c].entry = n] \in [Calls -> CallOf(g)]
           /\ \A t \in SUBSET (1 .. g) : [f EXCEPT ![c].todo = t] \in [Calls -> CallOf(g)]
           /\ [f EXCEPT ![c] = Idle] \in [Calls -> CallOf(g)]
BY DEF CallOf, Idle

(* So they do when a drain sends its next row, skips it, or goes on. *)
LEMMA CallUpdates ==
    ASSUME NEW g \in Nat, NEW f \in [Calls -> CallOf(g)], NEW c \in Calls
    PROVE  /\ \A n \in 1 .. g :
                /\ [f EXCEPT ![c].phase = "sent", ![c].entry = n, ![c].todo = @ \ {n}]
                      \in [Calls -> CallOf(g)]
                /\ [f EXCEPT ![c].todo = @ \ {n}] \in [Calls -> CallOf(g)]
           /\ [f EXCEPT ![c].phase = "draining", ![c].entry = 0] \in [Calls -> CallOf(g)]
<1>0. \A n \in 1 .. g : f[c].todo \ {n} \in SUBSET (1 .. g) /\ n \in 0 .. g
  BY DEF CallOf
<1>1. ASSUME NEW n \in 1 .. g
      PROVE  [f EXCEPT ![c].phase = "sent", ![c].entry = n, ![c].todo = @ \ {n}]
                \in [Calls -> CallOf(g)]
  <2> DEFINE h == [f EXCEPT ![c].phase = "sent"]
             k == [h EXCEPT ![c].entry = n]
  <2>1. h \in [Calls -> CallOf(g)] BY FieldUpdates
  <2>2. k \in [Calls -> CallOf(g)] BY <1>0, <2>1, FieldUpdates
  <2>3. [k EXCEPT ![c].todo = f[c].todo \ {n}] \in [Calls -> CallOf(g)]
    BY <1>0, <2>2, FieldUpdates
  <2> QED BY <2>3, Zenon
<1>2. \A n \in 1 .. g : [f EXCEPT ![c].todo = @ \ {n}] \in [Calls -> CallOf(g)]
  BY <1>0, FieldUpdates
<1>3. [f EXCEPT ![c].phase = "draining", ![c].entry = 0] \in [Calls -> CallOf(g)]
  <2> DEFINE h == [f EXCEPT ![c].phase = "draining"]
  <2>1. h \in [Calls -> CallOf(g)] BY FieldUpdates
  <2>2. [h EXCEPT ![c].entry = 0] \in [Calls -> CallOf(g)]
    BY <2>1, 0 \in 0 .. g, FieldUpdates
  <2> QED BY <2>2
<1> QED BY <1>1, <1>2, <1>3

LEMMA EnqueueAndFireKeeps ==
    ASSUME IInv, NEW c \in Calls, EnqueueAndFire(c)
    PROVE  IInv'
<1> USE OutboxAssumption DEF IInv, TypeOK, CallOf, Entries, Sending, Faults, Idle, history
<1>1. /\ given' \in 0 .. MaxEntries /\ faults' \in 0 .. MaxFaults
      /\ outbox' \cup routing' \subseteq Entries'
      /\ applied' \cup settled' \cup orphaned' \cup mistaken' \subseteq Entries'
  BY DEF EnqueueAndFire, Keeps, Stops, Ends
<1>2. call' \in [Calls -> CallOf(given')] BY DEF EnqueueAndFire, Keeps, Stops, Ends
<1>3. \A k \in Calls : /\ Sending(k)' <=> call'[k].entry # 0
                       /\ call'[k].phase = "draining" => call'[k].todo # {}
  BY DEF EnqueueAndFire, Keeps, Stops, Ends
<1>4. AnsweredIsApplied' BY DEF AnsweredIsApplied, EnqueueAndFire, Keeps, Stops, Ends
<1>5. DrainsAhead' BY DEF DrainsAhead, InHand, EnqueueAndFire, Keeps, Stops, Ends
<1> QED BY <1>1, <1>2, <1>3, <1>4, <1>5

LEMMA EnqueueTornKeeps ==
    ASSUME IInv, EnqueueTorn
    PROVE  IInv'
<1> USE OutboxAssumption DEF IInv, TypeOK, CallOf, Entries, Sending, Faults, Idle, history
<1>1. /\ given' \in 0 .. MaxEntries /\ faults' \in 0 .. MaxFaults
      /\ outbox' \cup routing' \subseteq Entries'
      /\ applied' \cup settled' \cup orphaned' \cup mistaken' \subseteq Entries'
  BY DEF EnqueueTorn
<1>2. call' \in [Calls -> CallOf(given')] BY DEF EnqueueTorn
<1>3. \A k \in Calls : /\ Sending(k)' <=> call'[k].entry # 0
                       /\ call'[k].phase = "draining" => call'[k].todo # {}
  BY DEF EnqueueTorn
<1>4. AnsweredIsApplied' BY DEF AnsweredIsApplied, EnqueueTorn
<1>5. DrainsAhead' BY DEF DrainsAhead, InHand, EnqueueTorn
<1> QED BY <1>1, <1>2, <1>3, <1>4, <1>5

LEMMA DrainKeeps ==
    ASSUME IInv, NEW c \in Calls, Drain(c)
    PROVE  IInv'
<1> USE OutboxAssumption DEF IInv, TypeOK, CallOf, Entries, Sending, Faults, Idle, history
<1>1. /\ given' \in 0 .. MaxEntries /\ faults' \in 0 .. MaxFaults
      /\ outbox' \cup routing' \subseteq Entries'
      /\ applied' \cup settled' \cup orphaned' \cup mistaken' \subseteq Entries'
  BY DEF Drain
<1>2. call' \in [Calls -> CallOf(given')] BY DEF Drain
<1>3. \A k \in Calls : /\ Sending(k)' <=> call'[k].entry # 0
                       /\ call'[k].phase = "draining" => call'[k].todo # {}
  BY DEF Drain
<1>4. AnsweredIsApplied' BY DEF AnsweredIsApplied, Drain
<1>5. DrainsAhead' BY DEF DrainsAhead, InHand, Drain
<1> QED BY <1>1, <1>2, <1>3, <1>4, <1>5

LEMMA DrainNextKeeps ==
    ASSUME IInv, NEW c \in Calls, DrainNext(c)
    PROVE  IInv'
<1> USE OutboxAssumption DEF IInv, TypeOK, CallOf, Entries, Sending, Faults, Idle, history
<1>1. /\ given' \in 0 .. MaxEntries /\ faults' \in 0 .. MaxFaults
      /\ outbox' \cup routing' \subseteq Entries'
      /\ applied' \cup settled' \cup orphaned' \cup mistaken' \subseteq Entries'
  BY DEF DrainNext, NoClient, Keeps, Stops, Ends
<1>2. call' \in [Calls -> CallOf(given')]
  <2>1. PICK n \in call[c].todo :
          \/ call' = [call EXCEPT ![c].phase = "sent", ![c].entry = n, ![c].todo = @ \ {n}]
          \/ call' = [call EXCEPT ![c] = Idle]
          \/ call' = [call EXCEPT ![c].todo = @ \ {n}]
    BY DEF DrainNext, NoClient, Stops, Ends
  <2>2. /\ given' = given /\ given \in Nat /\ n \in 1 .. given
        /\ call \in [Calls -> CallOf(given)]
    BY DEF DrainNext
  <2> HIDE DEF CallOf, Idle
  <2>3. /\ [call EXCEPT ![c].phase = "sent", ![c].entry = n, ![c].todo = @ \ {n}]
             \in [Calls -> CallOf(given)]
        /\ [call EXCEPT ![c].todo = @ \ {n}] \in [Calls -> CallOf(given)]
        /\ [call EXCEPT ![c] = Idle] \in [Calls -> CallOf(given)]
    BY <2>2, CallUpdates, FieldUpdates
  <2> QED BY <2>1, <2>2, <2>3
<1>3. \A k \in Calls : /\ Sending(k)' <=> call'[k].entry # 0
                       /\ call'[k].phase = "draining" => call'[k].todo # {}
  BY DEF DrainNext, NoClient, Keeps, Stops, Ends
<1>4. AnsweredIsApplied' BY DEF AnsweredIsApplied, DrainNext, NoClient, Keeps, Stops, Ends
<1>5. DrainsAhead' BY DEF DrainsAhead, InHand, DrainNext, NoClient, Keeps, Stops, Ends
<1> QED BY <1>1, <1>2, <1>3, <1>4, <1>5

LEMMA ServerAppliesKeeps ==
    ASSUME IInv, NEW c \in Calls, ServerApplies(c)
    PROVE  IInv'
<1> USE OutboxAssumption DEF IInv, TypeOK, CallOf, Entries, Sending, Faults, Idle, history
<1>1. /\ given' \in 0 .. MaxEntries /\ faults' \in 0 .. MaxFaults
      /\ outbox' \cup routing' \subseteq Entries'
      /\ applied' \cup settled' \cup orphaned' \cup mistaken' \subseteq Entries'
  BY DEF ServerApplies
<1>2. call' \in [Calls -> CallOf(given')] BY DEF ServerApplies
<1>3. \A k \in Calls : /\ Sending(k)' <=> call'[k].entry # 0
                       /\ call'[k].phase = "draining" => call'[k].todo # {}
  BY DEF ServerApplies
<1>4. AnsweredIsApplied' BY DEF AnsweredIsApplied, ServerApplies
<1>5. DrainsAhead' BY DEF DrainsAhead, InHand, ServerApplies
<1> QED BY <1>1, <1>2, <1>3, <1>4, <1>5

LEMMA SucceedsKeeps ==
    ASSUME IInv, NEW c \in Calls, Succeeds(c)
    PROVE  IInv'
<1> USE OutboxAssumption DEF IInv, TypeOK, CallOf, Entries, Sending, Faults, Idle, history
<1>1. /\ given' \in 0 .. MaxEntries /\ faults' \in 0 .. MaxFaults
      /\ outbox' \cup routing' \subseteq Entries'
      /\ applied' \cup settled' \cup orphaned' \cup mistaken' \subseteq Entries'
  BY DEF Succeeds, Forgets, Continues
<1>2. call' \in [Calls -> CallOf(given')]
  <2>1. \/ call' = [call EXCEPT ![c] = Idle]
        \/ call' = [call EXCEPT ![c].phase = "draining", ![c].entry = 0]
    BY DEF Succeeds, Continues
  <2>2. given' = given /\ given \in Nat /\ call \in [Calls -> CallOf(given)] BY DEF Succeeds
  <2> HIDE DEF CallOf, Idle
  <2>3. /\ [call EXCEPT ![c].phase = "draining", ![c].entry = 0] \in [Calls -> CallOf(given)]
        /\ [call EXCEPT ![c] = Idle] \in [Calls -> CallOf(given)]
    BY <2>2, CallUpdates, FieldUpdates
  <2> QED BY <2>1, <2>2, <2>3
<1>3. \A k \in Calls : /\ Sending(k)' <=> call'[k].entry # 0
                       /\ call'[k].phase = "draining" => call'[k].todo # {}
  BY DEF Succeeds, Forgets, Continues
<1>4. AnsweredIsApplied' BY DEF AnsweredIsApplied, Succeeds, Forgets, Continues
<1>5. DrainsAhead' BY DEF DrainsAhead, InHand, Succeeds, Forgets, Continues
<1> QED BY <1>1, <1>2, <1>3, <1>4, <1>5

LEMMA RejectedKeeps ==
    ASSUME IInv, NEW c \in Calls, Rejected(c)
    PROVE  IInv'
<1> USE OutboxAssumption DEF IInv, TypeOK, CallOf, Entries, Sending, Faults, Idle, history
<1>1. /\ given' \in 0 .. MaxEntries /\ faults' \in 0 .. MaxFaults
      /\ outbox' \cup routing' \subseteq Entries'
      /\ applied' \cup settled' \cup orphaned' \cup mistaken' \subseteq Entries'
  <2>1. call[c].entry \in Entries BY DEF Rejected
  <2>2. given' = given /\ applied' = applied /\ orphaned' = orphaned
        /\ settled' \cup mistaken' = settled \cup mistaken \cup {call[c].entry}
    BY DEF Rejected
  <2>3. outbox' \subseteq outbox /\ routing' \subseteq routing /\ faults' \in 0 .. MaxFaults
    BY DEF Rejected, Forgets, Stops, Ends
  <2> QED BY <2>1, <2>2, <2>3
<1>2. call' \in [Calls -> CallOf(given')] BY DEF Rejected, Forgets, Stops, Ends
<1>3. \A k \in Calls : /\ Sending(k)' <=> call'[k].entry # 0
                       /\ call'[k].phase = "draining" => call'[k].todo # {}
  BY DEF Rejected, Forgets, Stops, Ends
<1>4. AnsweredIsApplied' BY DEF AnsweredIsApplied, Rejected, Forgets, Stops, Ends
<1>5. DrainsAhead' BY DEF DrainsAhead, InHand, Rejected, Forgets, Stops, Ends
<1> QED BY <1>1, <1>2, <1>3, <1>4, <1>5

LEMMA FailsTransientlyKeeps ==
    ASSUME IInv, NEW c \in Calls, FailsTransiently(c)
    PROVE  IInv'
<1> USE OutboxAssumption DEF IInv, TypeOK, CallOf, Entries, Sending, Faults, Idle, history
<1>1. /\ given' \in 0 .. MaxEntries /\ faults' \in 0 .. MaxFaults
      /\ outbox' \cup routing' \subseteq Entries'
      /\ applied' \cup settled' \cup orphaned' \cup mistaken' \subseteq Entries'
  BY DEF FailsTransiently, Keeps, Stops, Ends
<1>2. call' \in [Calls -> CallOf(given')] BY DEF FailsTransiently, Keeps, Stops, Ends
<1>3. \A k \in Calls : /\ Sending(k)' <=> call'[k].entry # 0
                       /\ call'[k].phase = "draining" => call'[k].todo # {}
  BY DEF FailsTransiently, Keeps, Stops, Ends
<1>4. AnsweredIsApplied' BY DEF AnsweredIsApplied, FailsTransiently, Keeps, Stops, Ends
<1>5. DrainsAhead' BY DEF DrainsAhead, InHand, FailsTransiently, Keeps, Stops, Ends
<1> QED BY <1>1, <1>2, <1>3, <1>4, <1>5

LEMMA FailsUnrecognisedKeeps ==
    ASSUME IInv, NEW c \in Calls, FailsUnrecognised(c)
    PROVE  IInv'
<1> USE OutboxAssumption DEF IInv, TypeOK, CallOf, Entries, Sending, Faults, Idle, history
<1>1. /\ given' \in 0 .. MaxEntries /\ faults' \in 0 .. MaxFaults
      /\ outbox' \cup routing' \subseteq Entries'
      /\ applied' \cup settled' \cup orphaned' \cup mistaken' \subseteq Entries'
  <2>1. call[c].entry \in Entries BY DEF FailsUnrecognised
  <2>2. given' = given /\ applied' = applied /\ orphaned' = orphaned
        /\ settled' \cup mistaken' = settled \cup mistaken \cup {call[c].entry}
    BY DEF FailsUnrecognised
  <2>3. outbox' \subseteq outbox /\ routing' \subseteq routing /\ faults' \in 0 .. MaxFaults
    BY DEF FailsUnrecognised, Forgets, Stops, Ends
  <2> QED BY <2>1, <2>2, <2>3
<1>2. call' \in [Calls -> CallOf(given')] BY DEF FailsUnrecognised, Forgets, Stops, Ends
<1>3. \A k \in Calls : /\ Sending(k)' <=> call'[k].entry # 0
                       /\ call'[k].phase = "draining" => call'[k].todo # {}
  BY DEF FailsUnrecognised, Forgets, Stops, Ends
<1>4. AnsweredIsApplied' BY DEF AnsweredIsApplied, FailsUnrecognised, Forgets, Stops, Ends
<1>5. DrainsAhead' BY DEF DrainsAhead, InHand, FailsUnrecognised, Forgets, Stops, Ends
<1> QED BY <1>1, <1>2, <1>3, <1>4, <1>5

LEMMA RemoveEntryKeeps ==
    ASSUME IInv, NEW n \in Entries, RemoveEntry(n)
    PROVE  IInv'
<1> USE OutboxAssumption DEF IInv, TypeOK, CallOf, Entries, Sending, Faults, Idle, history
<1>1. /\ given' \in 0 .. MaxEntries /\ faults' \in 0 .. MaxFaults
      /\ outbox' \cup routing' \subseteq Entries'
      /\ applied' \cup settled' \cup orphaned' \cup mistaken' \subseteq Entries'
  BY DEF RemoveEntry
<1>2. call' \in [Calls -> CallOf(given')] BY DEF RemoveEntry
<1>3. \A k \in Calls : /\ Sending(k)' <=> call'[k].entry # 0
                       /\ call'[k].phase = "draining" => call'[k].todo # {}
  BY DEF RemoveEntry
<1>4. AnsweredIsApplied' BY DEF AnsweredIsApplied, RemoveEntry
<1>5. DrainsAhead' BY DEF DrainsAhead, InHand, RemoveEntry
<1> QED BY <1>1, <1>2, <1>3, <1>4, <1>5

LEMMA CrashKeeps ==
    ASSUME IInv, Crash
    PROVE  IInv'
<1> USE OutboxAssumption DEF IInv, TypeOK, CallOf, Entries, Sending, Faults, Idle, history
<1>1. /\ given' \in 0 .. MaxEntries /\ faults' \in 0 .. MaxFaults
      /\ outbox' \cup routing' \subseteq Entries'
      /\ applied' \cup settled' \cup orphaned' \cup mistaken' \subseteq Entries'
  BY DEF Crash
<1>2. call' \in [Calls -> CallOf(given')] BY DEF Crash
<1>3. \A k \in Calls : /\ Sending(k)' <=> call'[k].entry # 0
                       /\ call'[k].phase = "draining" => call'[k].todo # {}
  BY DEF Crash
<1>4. AnsweredIsApplied' BY DEF AnsweredIsApplied, Crash
<1>5. DrainsAhead' BY DEF DrainsAhead, InHand, Crash
<1> QED BY <1>1, <1>2, <1>3, <1>4, <1>5

-----------------------------------------------------------------------------
LEMMA InitHolds == Init => IInv
BY OutboxAssumption
   DEF Init, IInv, TypeOK, AnsweredIsApplied, DrainsAhead, Idle, Sending, Entries

LEMMA Inductive == IInv /\ [Next]_vars => IInv'
<1> SUFFICES ASSUME IInv, [Next]_vars PROVE IInv'
  OBVIOUS
<1>1. CASE Next
  <2>1. CASE \E c \in Calls : EnqueueAndFire(c) \/ Drain(c) \/ DrainNext(c)
    BY <2>1, EnqueueAndFireKeeps, DrainKeeps, DrainNextKeeps
  <2>2. CASE \E c \in Calls : Answer(c)
    BY <2>2, ServerAppliesKeeps, SucceedsKeeps, RejectedKeeps, FailsTransientlyKeeps,
       FailsUnrecognisedKeeps DEF Answer
  <2>3. CASE EnqueueTorn \/ Crash
    BY <2>3, EnqueueTornKeeps, CrashKeeps
  <2>4. CASE \E n \in Entries : RemoveEntry(n)
    BY <2>4, RemoveEntryKeeps
  <2> QED BY <1>1, <2>1, <2>2, <2>3, <2>4 DEF Next
<1>2. CASE UNCHANGED vars
  BY <1>2 DEF vars, history, IInv, TypeOK, AnsweredIsApplied, DrainsAhead, InHand, Sending, Entries
<1> QED BY <1>1, <1>2

LEMMA Invariance == Spec => []IInv
BY InitHolds, Inductive, PTL DEF Spec

(* Types hold, for any number of calls, mutations and faults. *)
THEOREM TypeCorrect == Spec => []TypeOK
<1>1. IInv => TypeOK BY DEF IInv
<1> QED BY <1>1, Invariance, PTL

(* No drain sends a row while an older one is still queued                 *)
(* (drainForRegistry's "preserve order: stop on first failure").           *)
THEOREM DrainsInOrderAlways == Spec => []DrainsInOrder
<1>1. IInv => DrainsInOrder
  BY DEF IInv, TypeOK, DrainsAhead, InHand, DrainsInOrder, Sending, Entries
<1> QED BY <1>1, Invariance, PTL

-----------------------------------------------------------------------------
(* The steps of the queue that the steps of the outbox are. *)

Status == [n \in 1 .. MaxEntries |->
             IF n > given THEN "new" ELSE IF n \in outbox THEN "queued" ELSE "gone"]

LEMMA SubmitsNext ==
    ASSUME IInv, NEW n \in 1 .. MaxEntries, n = given + 1, given' = n,
           outbox' = outbox \cup {n}, orphaned' \in {orphaned, orphaned \cup {n}},
           UNCHANGED <<applied, settled, mistaken>>
    PROVE  Queue!Submit(n)
<1> USE OutboxAssumption DEF IInv, TypeOK, Entries
<1>1. Status[n] = "new" /\ \A m \in 1 .. MaxEntries : m < n => Status[m] # "new"
  BY DEF Status
<1>2. \A m \in 1 .. MaxEntries : Status'[m] = IF m = n THEN "queued" ELSE Status[m]
  BY DEF Status
<1>3. Status' = [Status EXCEPT ![n] = "queued"]
  BY <1>2 DEF Status
<1> QED BY <1>1, <1>3 DEF Queue!Submit, Queue!Entries, Status

LEMMA NoQueueStep ==
    ASSUME UNCHANGED <<outbox, given, applied, settled, orphaned, mistaken>>
    PROVE  UNCHANGED Queue!vars
BY DEF Queue!vars

(* An entry that leaves the table because there was a reason. *)
LEMMA GivesUp ==
    ASSUME IInv, NEW n \in Entries, outbox' = outbox \ {n},
           settled' \cup mistaken' = (settled \cup mistaken) \cup {n},
           UNCHANGED <<given, applied, orphaned>>
    PROVE  Queue!GiveUp(n) /\ n \in 1 .. MaxEntries
<1> USE OutboxAssumption DEF IInv, TypeOK, Entries
<1>1. Status[n] # "new" BY DEF Status
<1>2. \A m \in 1 .. MaxEntries : Status'[m] = IF m = n THEN "gone" ELSE Status[m]
  BY DEF Status
<1>3. Status' = [Status EXCEPT ![n] = "gone"] BY <1>2 DEF Status
<1> QED BY <1>1, <1>3 DEF Queue!GiveUp, Status

LEMMA Reaches ==
    ASSUME IInv, NEW c \in Calls, ServerApplies(c)
    PROVE  Queue!Reach(call[c].entry) /\ call[c].entry \in 1 .. MaxEntries
<1> USE OutboxAssumption DEF IInv, TypeOK, Entries, Sending, ServerApplies
<1>1. call[c].entry \in Entries OBVIOUS
<1>2. Status[call[c].entry] # "new" BY <1>1 DEF Status
<1>3. Status' = Status BY DEF Status
<1> QED BY <1>1, <1>2, <1>3 DEF Queue!Reach, Status

LEMMA Leaves ==
    ASSUME IInv, NEW c \in Calls, Succeeds(c)
    PROVE  [\E n \in 1 .. MaxEntries : Queue!Leave(n)]_Queue!vars
<1> USE OutboxAssumption DEF IInv, TypeOK, Entries, Sending, Succeeds, Forgets, history
<1>1. PICK n \in Entries : n = call[c].entry /\ n \in applied BY DEF AnsweredIsApplied
<1>2. CASE n \in outbox
  <2>1. Status[n] = "queued" BY <1>1, <1>2 DEF Status
  <2>2. \A m \in 1 .. MaxEntries : Status'[m] = IF m = n THEN "gone" ELSE Status[m]
    BY <1>1, <1>2 DEF Status
  <2>3. Status' = [Status EXCEPT ![n] = "gone"] BY <2>2 DEF Status
  <2>4. Queue!Leave(n) BY <1>1, <2>1, <2>3 DEF Queue!Leave, Status
  <2>5. n \in 1 .. MaxEntries OBVIOUS
  <2> QED BY <2>4, <2>5
<1>3. CASE n \notin outbox
  BY <1>1, <1>3, NoQueueStep
<1> QED BY <1>2, <1>3

LEMMA StepsOfQueue == IInv /\ [Next]_vars => [Queue!Next]_Queue!vars
<1> SUFFICES ASSUME IInv, [Next]_vars PROVE [Queue!Next]_Queue!vars
  OBVIOUS
<1> USE DEF Queue!Next, Queue!Entries
<1>1. CASE UNCHANGED vars
  BY <1>1, NoQueueStep DEF vars, history
<1>2. CASE EnqueueTorn \/ \E c \in Calls : EnqueueAndFire(c)
  <2>0. given < MaxEntries BY <1>2 DEF EnqueueTorn, EnqueueAndFire
  <2>1. PICK n \in 1 .. MaxEntries : n = given + 1
    BY <2>0, OutboxAssumption DEF IInv, TypeOK
  <2>2. /\ given' = n /\ outbox' = outbox \cup {n}
        /\ orphaned' \in {orphaned, orphaned \cup {n}}
        /\ UNCHANGED <<applied, settled, mistaken>>
    BY <1>2, <2>1 DEF EnqueueTorn, EnqueueAndFire
  <2>3. Queue!Submit(n) BY <2>1, <2>2, SubmitsNext
  <2> QED BY <2>3
<1>3. CASE Crash \/ \E c \in Calls : Drain(c) \/ DrainNext(c) \/ FailsTransiently(c)
  BY <1>3, NoQueueStep DEF Crash, Drain, DrainNext, NoClient, FailsTransiently, Keeps, history
<1>4. CASE \E c \in Calls : ServerApplies(c)
  BY <1>4, Reaches
<1>5. CASE \E c \in Calls : Succeeds(c)
  BY <1>5, Leaves
<1>6. CASE \E c \in Calls : Rejected(c) \/ FailsUnrecognised(c)
  <2>1. PICK c \in Calls : Rejected(c) \/ FailsUnrecognised(c) BY <1>6
  <2>2. PICK n \in Entries : n = call[c].entry
    BY <2>1 DEF IInv, TypeOK, Sending, Entries, Rejected, FailsUnrecognised
  <2>3. /\ outbox' = outbox \ {n}
        /\ settled' \cup mistaken' = (settled \cup mistaken) \cup {n}
        /\ UNCHANGED <<given, applied, orphaned>>
    BY <2>1, <2>2 DEF Rejected, FailsUnrecognised, Forgets
  <2>4. Queue!GiveUp(n) /\ n \in 1 .. MaxEntries BY <2>3, GivesUp
  <2> QED BY <2>4
<1>7. CASE \E n \in Entries : RemoveEntry(n)
  <2>1. PICK n \in Entries : RemoveEntry(n) BY <1>7
  <2>2. Queue!GiveUp(n) /\ n \in 1 .. MaxEntries BY <2>1, GivesUp DEF RemoveEntry
  <2> QED BY <2>2
<1> QED BY <1>1, <1>2, <1>3, <1>4, <1>5, <1>6, <1>7 DEF Next, Answer

(* The outbox is a MutationQueue: a mutation leaves it only once the server *)
(* has it, or for a reason on record (fireEntry, drainForRegistry,          *)
(* removeEntry).  That it leaves at all is left to the run.                 *)
THEOREM QueueIsImplemented == Spec => Queue!Safe
<1>1. Init => Queue!Init
  BY OutboxAssumption DEF Init, Queue!Init, Queue!Entries
<1> QED BY <1>1, StepsOfQueue, Invariance, PTL DEF Spec, Queue!Safe
=============================================================================
