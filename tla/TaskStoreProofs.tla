---------------------------- MODULE TaskStoreProofs ----------------------------
(***************************************************************************)
(* The safety of the task board, for any tasks, agents, calls and bounds.  *)
(*                                                                         *)
(* Every property turns on the same point: what was decided on a row read  *)
(* some time ago was decided on the row that is there, because the version *)
(* still is the one that was read.  `Snap` says it of one snapshot, and    *)
(* the invariant says it of every snapshot a call or the tick holds.       *)
(* The last section shows from it that the board is one of atomic          *)
(* operations (TaskBoard).                                                 *)
(***************************************************************************)
EXTENDS TaskStore, FiniteSetTheorems, TLAPS

(* A snapshot that has the version of the row is the row; and it is not    *)
(* ahead of it.                                                            *)
Snap(t, seen) ==
    /\ seen.version >= 1
    /\ task[t].status = "deleted" \/ seen.version <= task[t].version
    /\ task[t].version = seen.version => task[t] = seen

(* A row that is there has a version, a number the counter has passed, and *)
(* a place in the history if it is completed; past its bound it waits for  *)
(* nobody.                                                                 *)
RowGood(t) ==
    /\ task[t].version <= MaxVersion[t] + 1
    /\ IF Exists(t)
       THEN /\ task[t].version >= 1
            /\ task[t].seq >= 1 /\ task[t].seq <= counter
            /\ task[t].status = "completed" => t \in finished
            /\ task[t].version > MaxVersion[t] => task[t].status \notin {"in_progress", "pending"}
       ELSE task[t] \in {NoTask, [NoTask EXCEPT !.status = "deleted"]}

Table ==
    /\ task \in [Tasks -> TaskRow] /\ counter \in Nat
    /\ now \in 0 .. MaxClock /\ finished \subseteq Tasks
    /\ \A t \in Tasks : RowGood(t)
    /\ SequenceIdsUnique

CallRecord ==
    [phase : {"idle", "project", "numbered", "held", "claimed", "subtasks", "context"},
     id : Tasks \cup {None}, seen : TaskRow, agent : Agents \cup {None},
     todo : SUBSET (Tasks \X (Nat \ {0}))]

(* What a call holds: a snapshot of a row, or an id and a number that are  *)
(* its own.                                                                *)
CallGood(k) ==
    /\ k.phase = "held" => k.id \in Tasks /\ Snap(k.id, k.seen)
    /\ k.phase = "numbered" =>
          /\ k.id \in Tasks /\ task[k.id] = NoTask
          /\ k.seen.seq >= 1 /\ k.seen.seq <= counter
          /\ \A t \in Tasks : Exists(t) => task[t].seq # k.seen.seq

NumbersDiffer ==
    \A c, d \in Callers :
        c # d /\ call[c].phase = "numbered" /\ call[d].phase = "numbered" =>
            call[c].id # call[d].id /\ call[c].seen.seq # call[d].seen.seq

Calls ==
    /\ call \in [Callers -> CallRecord]
    /\ \A c \in Callers : CallGood(call[c])
    /\ NumbersDiffer

TickRecord ==
    [phase : {"idle", "leases", "deps"}, todo : SUBSET Snapshot, met : Tasks \cup {None}]

(* What the tick holds: one snapshot of a row, each of one whose lease has *)
(* run out, or that is pending.                                            *)
Entry(k, s) ==
    /\ Snap(s.id, s.seen)
    /\ k.phase = "leases" => /\ s.seen.status = "in_progress"
                             /\ s.seen.lease # NoLease /\ s.seen.lease < now
    /\ k.phase = "deps" => s.seen.status = "pending"
    /\ k.met = s.id => Range(s.seen.deps) \subseteq finished

TickGood(k) ==
    /\ \A s \in k.todo : Entry(k, s)
    /\ \A r, s \in k.todo : r.id = s.id => r = s

IInv == Table /\ Calls /\ tick \in TickRecord /\ TickGood(tick)

-----------------------------------------------------------------------------
(* The kinds of step the table takes. *)

(* One row is replaced by its successor; the history grows with it. *)
Replaces(t) ==
    /\ t \in Tasks /\ Exists(t)
    /\ task' \in [Tasks -> TaskRow] /\ \A u \in Tasks \ {t} : task'[u] = task[u]
    /\ task'[t].version = task[t].version + 1 /\ task'[t].seq = task[t].seq
    /\ task'[t].status \in Statuses
    /\ task'[t].status = "completed" => t \in finished'
    /\ \/ task'[t].version <= MaxVersion[t]
       \/ /\ task[t].version <= MaxVersion[t]
          /\ task'[t].status \notin {"in_progress", "pending"}
    /\ finished \subseteq finished' /\ finished' \subseteq Tasks
    /\ UNCHANGED <<counter, now>>

(* The owner is set on a row nobody owns, kept, or taken away. *)
KeepsOwner(t) ==
    task[t].owner # None /\ task'[t].owner # None => task'[t].owner = task[t].owner

LEMMA ReplaceKeeps ==
    ASSUME Table, NEW t, Replaces(t)
    PROVE  /\ Table'
           /\ \A u \in Tasks, seen \in TaskRow : Snap(u, seen) => Snap(u, seen)'
           /\ \A k \in CallRecord : CallGood(k) => CallGood(k)'
           /\ \A k \in TickRecord : TickGood(k) => TickGood(k)'
<1> USE BoardAssumption DEF Table, Replaces
<1>0. /\ t \in Tasks /\ task[t].version \in Nat /\ MaxVersion[t] \in Nat
      /\ task'[t].version = task[t].version + 1
      /\ \A u \in Tasks : task[u] \in TaskRow /\ task'[u] \in TaskRow
      /\ \A u \in Tasks : task[u].version \in Nat /\ task[u].seq \in Nat
  BY DEF TaskRow
<1>1. \A u \in Tasks : Exists(u)' <=> Exists(u)
  BY DEF Exists
<1>2. \A u \in Tasks : task'[u].seq = task[u].seq
  OBVIOUS
<1>3. \A u \in Tasks : RowGood(u)'
  <2> TAKE u \in Tasks
  <2>1. CASE u # t BY <2>1, <1>0, <1>1 DEF RowGood, Exists
  <2>2. CASE u = t BY <2>2, <1>0, <1>1 DEF RowGood, Exists
  <2> QED BY <2>1, <2>2
<1>4. SequenceIdsUnique' BY <1>1, <1>2 DEF SequenceIdsUnique
<1>5. ASSUME NEW u \in Tasks, NEW seen \in TaskRow, Snap(u, seen)
      PROVE  Snap(u, seen)'
  <2>1. seen.version \in Nat BY DEF TaskRow
  <2>2. CASE u # t BY <2>2, <1>5 DEF Snap
  <2>3. CASE u = t
    <3>1. task[t].status # "deleted" BY DEF Exists, Statuses
    <3> QED BY <3>1, <2>3, <2>1, <1>0, <1>5 DEF Snap
  <2> QED BY <2>2, <2>3
<1>6. ASSUME NEW k \in CallRecord, CallGood(k)
      PROVE  CallGood(k)'
  <2>1. k.seen \in TaskRow BY DEF CallRecord
  <2>2. k.phase = "held" => k.id \in Tasks /\ Snap(k.id, k.seen)'
    BY <2>1, <1>5, <1>6 DEF CallGood
  <2>3. ASSUME k.phase = "numbered" PROVE k.id # t
    BY <2>3, <1>6 DEF CallGood, Exists, NoTask, Statuses
  <2> QED BY <2>2, <2>3, <1>1, <1>2, <1>6 DEF CallGood
<1>7. ASSUME NEW k \in TickRecord, TickGood(k)
      PROVE  TickGood(k)'
  <2>1. ASSUME NEW s \in k.todo PROVE Entry(k, s)'
    <3>1. s.id \in Tasks /\ s.seen \in TaskRow BY DEF TickRecord, Snapshot
    <3>2. Snap(s.id, s.seen)' BY <3>1, <1>5, <1>7 DEF TickGood, Entry
    <3> QED BY <3>2, <1>7 DEF TickGood, Entry
  <2> QED BY <2>1, <1>7 DEF TickGood
<1> QED BY <1>3, <1>4, <1>5, <1>6, <1>7

(* What a call decided on is the row that is there. *)
LEMMA HeldIsCurrent ==
    ASSUME IInv, NEW c \in Callers, Writes(c)
    PROVE  /\ call[c].id \in Tasks /\ call[c].seen \in TaskRow
           /\ task[call[c].id] = call[c].seen /\ Exists(call[c].id)
           /\ task[call[c].id].version < MaxVersion[call[c].id]
<1> DEFINE t == call[c].id
<1>1. call[c] \in CallRecord /\ t \in Tasks /\ Snap(t, call[c].seen)
  BY DEF IInv, Calls, CallGood, Writes
<1>2. task[t] = call[c].seen BY <1>1 DEF Writes, Swaps, Snap
<1>3. call[c].seen.version >= 1 BY <1>1 DEF Snap
<1>4. RowGood(t) BY <1>1 DEF IInv, Table
<1>5. Exists(t) BY <1>2, <1>3, <1>4 DEF RowGood, NoTask
<1> QED BY <1>1, <1>2, <1>5 DEF Writes, Room, CallRecord

(* A call that writes a successor of what it read replaces the row. *)
LEMMA WriteReplaces ==
    ASSUME IInv, NEW c \in Callers, Writes(c), NEW r \in TaskRow,
           task' = [task EXCEPT ![call[c].id] = r],
           r.version = call[c].seen.version + 1, r.seq = call[c].seen.seq,
           r.status \in Statuses, r.status = "completed" => call[c].id \in finished',
           finished \subseteq finished', finished' \subseteq Tasks,
           call[c].seen.owner # None => r.owner \in {None, call[c].seen.owner}
    PROVE  Replaces(call[c].id) /\ KeepsOwner(call[c].id)
<1> DEFINE t == call[c].id
<1>1. /\ t \in Tasks /\ task[t] = call[c].seen /\ Exists(t)
      /\ task[t] \in TaskRow /\ task[t].version < MaxVersion[t]
  BY HeldIsCurrent
<1>2. task \in [Tasks -> TaskRow] BY DEF IInv, Table
<1>3. task'[t] = r /\ task' \in [Tasks -> TaskRow] /\ \A u \in Tasks \ {t} : task'[u] = task[u]
  BY <1>1, <1>2
<1>4. task[t].version \in Nat /\ MaxVersion[t] \in Nat BY <1>1, BoardAssumption DEF TaskRow
<1>5. UNCHANGED <<counter, now>> BY DEF Writes
<1> QED BY <1>1, <1>3, <1>4, <1>5 DEF Replaces, KeepsOwner

LEMMA CallRecordKept ==
    ASSUME Calls, NEW c \in Callers, NEW k \in CallRecord,
           call' = [call EXCEPT ![c] = k],
           \A j \in CallRecord : CallGood(j) => CallGood(j)', CallGood(k)',
           k.phase # "numbered"
    PROVE  Calls'
<1>1. call' \in [Callers -> CallRecord] BY DEF Calls
<1>2. \A d \in Callers : CallGood(call[d])' BY DEF Calls
<1>3. NumbersDiffer' BY DEF Calls, NumbersDiffer
<1> QED BY <1>1, <1>2, <1>3 DEF Calls

LEMMA NoDeps == <<>> \in DepLists
BY DEF DepLists

LEMMA IdleIsGood == Idle \in CallRecord /\ CallGood(Idle) /\ CallGood(Idle)'
BY BoardAssumption, NoDeps DEF Idle, NoTask, CallRecord, TaskRow, CallGood

(* A step of a call that replaces a row keeps the invariant. *)
LEMMA ReplaceByCallKeeps ==
    ASSUME IInv, NEW c \in Callers, NEW t, Replaces(t), NEW k \in CallRecord,
           call' = [call EXCEPT ![c] = k], k.phase \notin {"held", "numbered"},
           UNCHANGED tick
    PROVE  IInv'
<1>1. /\ Table'
      /\ \A j \in CallRecord : CallGood(j) => CallGood(j)'
      /\ \A j \in TickRecord : TickGood(j) => TickGood(j)'
  BY ReplaceKeeps DEF IInv
<1>2. CallGood(k)' BY DEF CallGood
<1>3. Calls' BY <1>1, <1>2, CallRecordKept DEF IInv
<1>4. tick' \in TickRecord /\ TickGood(tick') BY DEF IInv
<1> QED BY <1>1, <1>3, <1>4 DEF IInv

(* The rows that Moved and Freed write. *)
MovedRow(row, to, v) == [row EXCEPT !.status = to, !.version = v]
FreedRow(row, to, v) ==
    [row EXCEPT !.status = to, !.version = v, !.owner = None, !.lease = NoLease]

LEMMA SuccessorRows ==
    ASSUME NEW row \in TaskRow, NEW to \in Statuses, NEW v \in Nat
    PROVE  /\ MovedRow(row, to, v) \in TaskRow
           /\ MovedRow(row, to, v).status = to /\ MovedRow(row, to, v).version = v
           /\ MovedRow(row, to, v).seq = row.seq /\ MovedRow(row, to, v).owner = row.owner
           /\ FreedRow(row, to, v) \in TaskRow
           /\ FreedRow(row, to, v).status = to /\ FreedRow(row, to, v).version = v
           /\ FreedRow(row, to, v).seq = row.seq /\ FreedRow(row, to, v).owner = None
BY DEF TaskRow, MovedRow, FreedRow

LEMMA MovedReplaces ==
    ASSUME IInv, NEW c \in Callers, Writes(c), NEW to \in Statuses,
           task' = Moved(call[c].id, call[c].seen, to),
           to = "completed" => call[c].id \in finished',
           finished \subseteq finished', finished' \subseteq Tasks
    PROVE  Replaces(call[c].id) /\ KeepsOwner(call[c].id)
<1> DEFINE t == call[c].id
           r == MovedRow(task[t], to, call[c].seen.version + 1)
<1>1. t \in Tasks /\ task[t] = call[c].seen /\ task[t] \in TaskRow BY HeldIsCurrent
<1>a. call[c].seen.version + 1 \in Nat BY <1>1 DEF TaskRow
<1>2. task' = [task EXCEPT ![t] = r] BY DEF Moved, MovedRow
<1>3. r \in TaskRow /\ r.version = call[c].seen.version + 1 /\ r.seq = call[c].seen.seq
      /\ r.status = to /\ r.owner = call[c].seen.owner
  <2> DEFINE row == task[t]
             v == call[c].seen.version + 1
  <2>1. row \in TaskRow /\ v \in Nat BY <1>1, <1>a
  <2>2. r = MovedRow(row, to, v) OBVIOUS
  <2> HIDE DEF r, row, v
  <2>3. /\ r \in TaskRow /\ r.version = v /\ r.seq = row.seq
        /\ r.status = to /\ r.owner = row.owner
    BY <2>1, <2>2, SuccessorRows
  <2> USE DEF row, v
  <2> QED BY <2>3, <1>1
<1> HIDE DEF r
<1> QED BY <1>2, <1>3, WriteReplaces

LEMMA FreedReplaces ==
    ASSUME IInv, NEW c \in Callers, Writes(c), NEW to \in Statuses,
           task' = Freed(call[c].id, call[c].seen, to),
           to = "completed" => call[c].id \in finished',
           finished \subseteq finished', finished' \subseteq Tasks
    PROVE  Replaces(call[c].id) /\ KeepsOwner(call[c].id)
<1> DEFINE t == call[c].id
           r == FreedRow(task[t], to, call[c].seen.version + 1)
<1>1. t \in Tasks /\ task[t] = call[c].seen /\ task[t] \in TaskRow BY HeldIsCurrent
<1>a. call[c].seen.version + 1 \in Nat BY <1>1 DEF TaskRow
<1>2. task' = [task EXCEPT ![t] = r] BY DEF Freed, FreedRow
<1>3. r \in TaskRow /\ r.version = call[c].seen.version + 1 /\ r.seq = call[c].seen.seq
      /\ r.status = to /\ r.owner = None
  <2> DEFINE row == task[t]
             v == call[c].seen.version + 1
  <2>1. row \in TaskRow /\ v \in Nat BY <1>1, <1>a
  <2>2. r = FreedRow(row, to, v) OBVIOUS
  <2> HIDE DEF r, row, v
  <2>3. /\ r \in TaskRow /\ r.version = v /\ r.seq = row.seq
        /\ r.status = to /\ r.owner = None
    BY <2>1, <2>2, SuccessorRows
  <2> USE DEF row, v
  <2> QED BY <2>3, <1>1
<1> HIDE DEF r
<1> QED BY <1>2, <1>3, WriteReplaces

-----------------------------------------------------------------------------
(* What a step of a call shows. *)
Owners == \A t \in Tasks : KeepsOwner(t)
Kept == IInv' /\ Owners /\ UNCHANGED tick

LEMMA CallReplaces ==
    ASSUME IInv, NEW c \in Callers, NEW t, Replaces(t), KeepsOwner(t), NEW k \in CallRecord,
           call' = [call EXCEPT ![c] = k], k.phase \notin {"held", "numbered"},
           UNCHANGED tick
    PROVE  Kept
<1>1. IInv' BY ReplaceByCallKeeps
<1>2. Owners BY DEF Owners, KeepsOwner, Replaces
<1> QED BY <1>1, <1>2 DEF Kept

LEMMA PlainReplaces ==
    ASSUME IInv, NEW c \in Callers, Plain(c),
           Replaces(call[c].id), KeepsOwner(call[c].id)
    PROVE  Kept
<1>1. Idle \in CallRecord /\ Idle.phase = "idle" BY IdleIsGood DEF Idle
<1>2. call' = [call EXCEPT ![c] = Idle] /\ UNCHANGED tick BY DEF Plain, Done, Writes
<1> QED BY <1>1, <1>2, CallReplaces

LEMMA FinishedKept ==
    ASSUME IInv, UNCHANGED finished
    PROVE  finished \subseteq finished' /\ finished' \subseteq Tasks
BY DEF IInv, Table

LEMMA PublishKeeps == ASSUME IInv, NEW c \in Callers, Publish(c) PROVE Kept
<1> DEFINE to == IF call[c].seen.deps # <<>> THEN "pending" ELSE "ready"
<1>1. /\ Plain(c) /\ Writes(c) /\ to \in Statuses /\ to # "completed"
      /\ task' = Moved(call[c].id, call[c].seen, to) /\ UNCHANGED finished
  BY DEF Publish, Plain, Statuses
<1> HIDE DEF to
<1>2. Replaces(call[c].id) /\ KeepsOwner(call[c].id) BY <1>1, MovedReplaces, FinishedKept
<1> QED BY <1>1, <1>2, PlainReplaces

LEMMA BlockKeeps == ASSUME IInv, NEW c \in Callers, Block(c) PROVE Kept
<1>1. /\ Plain(c) /\ Writes(c) /\ "blocked" \in Statuses
      /\ task' = Moved(call[c].id, call[c].seen, "blocked") /\ UNCHANGED finished
  BY DEF Block, Plain, Statuses
<1>2. Replaces(call[c].id) /\ KeepsOwner(call[c].id) BY <1>1, MovedReplaces, FinishedKept
<1> QED BY <1>1, <1>2, PlainReplaces

LEMMA FreeingKeeps ==
    ASSUME IInv, NEW c \in Callers, Fail(c) \/ Unblock(c) \/ Release(c)
    PROVE  Kept
<1>1. PICK to \in {"failed", "ready"} :
        /\ Plain(c) /\ Writes(c)
        /\ task' = Freed(call[c].id, call[c].seen, to) /\ UNCHANGED finished
  BY DEF Fail, Unblock, Release, Plain
<1>2. to \in Statuses /\ to # "completed" BY DEF Statuses
<1>3. Replaces(call[c].id) /\ KeepsOwner(call[c].id) BY <1>1, <1>2, FreedReplaces, FinishedKept
<1> QED BY <1>1, <1>3, PlainReplaces

LEMMA CompleteKeeps == ASSUME IInv, NEW c \in Callers, Complete(c) PROVE Kept
<1>1. /\ Plain(c) /\ Writes(c) /\ "completed" \in Statuses
      /\ task' = Freed(call[c].id, call[c].seen, "completed")
      /\ finished' = finished \cup {call[c].id}
  BY DEF Complete, Plain, Statuses
<1>2. call[c].id \in finished' /\ finished \subseteq finished' /\ finished' \subseteq Tasks
  BY <1>1, HeldIsCurrent DEF IInv, Table
<1>3. Replaces(call[c].id) /\ KeepsOwner(call[c].id) BY <1>1, <1>2, FreedReplaces
<1> QED BY <1>1, <1>3, PlainReplaces

LEMMA UpdateStatusKeeps ==
    ASSUME IInv, NEW c \in Callers, NEW to \in Statuses, UpdateStatus(c, to)
    PROVE  Kept
<1>1. /\ Plain(c) /\ Writes(c)
      /\ \/ task' = Freed(call[c].id, call[c].seen, to)
         \/ task' = Moved(call[c].id, call[c].seen, to)
      /\ finished' = IF to = "completed" THEN finished \cup {call[c].id} ELSE finished
  BY DEF UpdateStatus, Plain
<1>2. /\ to = "completed" => call[c].id \in finished'
      /\ finished \subseteq finished' /\ finished' \subseteq Tasks
  BY <1>1, HeldIsCurrent DEF IInv, Table
<1>3. Replaces(call[c].id) /\ KeepsOwner(call[c].id)
  BY <1>1, <1>2, FreedReplaces, MovedReplaces
<1> QED BY <1>1, <1>3, PlainReplaces

(* Calls that change the row but not its status. *)
LEMMA SameStatusReplaces ==
    ASSUME IInv, NEW c \in Callers, Writes(c), UNCHANGED finished, NEW r \in TaskRow,
           task' = [task EXCEPT ![call[c].id] = r],
           r.version = call[c].seen.version + 1, r.seq = call[c].seen.seq,
           r.status = call[c].seen.status, r.owner = call[c].seen.owner
    PROVE  Replaces(call[c].id) /\ KeepsOwner(call[c].id)
<1> DEFINE t == call[c].id
<1>1. t \in Tasks /\ task[t] = call[c].seen /\ Exists(t) BY HeldIsCurrent
<1>2. r.status \in Statuses BY <1>1 DEF Exists
<1>3. RowGood(t) BY <1>1 DEF IInv, Table
<1>4. r.status = "completed" => t \in finished' BY <1>1, <1>3 DEF RowGood
<1> QED BY <1>2, <1>4, FinishedKept, WriteReplaces

LEMMA RenewKeeps ==
    ASSUME IInv, NEW c \in Callers, NEW ttl \in Ttls \ {NoLease}, Renew(c, ttl)
    PROVE  Kept
<1> DEFINE t == call[c].id
           r == [task[t] EXCEPT !.lease = now + ttl, !.version = call[c].seen.version + 1]
<1>1. Plain(c) /\ Writes(c) /\ UNCHANGED finished /\ task' = [task EXCEPT ![t] = r]
  BY DEF Renew, Plain
<1>2. task[t] = call[c].seen /\ call[c].seen \in TaskRow BY <1>1, HeldIsCurrent
<1>3. now + ttl \in Nat
  <2>1. now \in Nat BY DEF IInv, Table
  <2> QED BY <2>1, BoardAssumption
<1>4. /\ r \in TaskRow /\ r.version = call[c].seen.version + 1
      /\ r.seq = call[c].seen.seq /\ r.status = call[c].seen.status
      /\ r.owner = call[c].seen.owner
  <2> DEFINE row == task[t]
             v == call[c].seen.version + 1
             lease == now + ttl
  <2>1. row \in TaskRow /\ v \in Nat BY <1>2 DEF TaskRow
  <2>2. r = [row EXCEPT !.lease = lease, !.version = v] OBVIOUS
  <2>4. lease \in Nat BY <1>3
  <2> HIDE DEF r, row, v, lease
  <2>3. /\ r \in TaskRow /\ r.version = v /\ r.seq = row.seq
        /\ r.status = row.status /\ r.owner = row.owner
    BY <2>1, <2>2, <2>4 DEF TaskRow
  <2> USE DEF row, v
  <2> QED BY <2>3, <1>2
<1> HIDE DEF r
<1>5. Replaces(t) /\ KeepsOwner(t) BY <1>1, <1>4, SameStatusReplaces
<1> QED BY <1>1, <1>5, PlainReplaces

LEMMA UpdateDepsKeeps ==
    ASSUME IInv, NEW c \in Callers, NEW deps \in DepLists, UpdateDeps(c, deps)
    PROVE  Kept
<1> DEFINE t == call[c].id
           r == [task[t] EXCEPT !.deps = deps, !.version = call[c].seen.version + 1]
<1>1. Plain(c) /\ Writes(c) /\ UNCHANGED finished /\ task' = [task EXCEPT ![t] = r]
  BY DEF UpdateDeps, Plain
<1>2. task[t] = call[c].seen /\ call[c].seen \in TaskRow BY <1>1, HeldIsCurrent
<1>4. /\ r \in TaskRow /\ r.version = call[c].seen.version + 1
      /\ r.seq = call[c].seen.seq /\ r.status = call[c].seen.status
      /\ r.owner = call[c].seen.owner
  <2> DEFINE row == task[t]
             v == call[c].seen.version + 1
  <2>1. row \in TaskRow /\ v \in Nat BY <1>2 DEF TaskRow
  <2>2. r = [row EXCEPT !.deps = deps, !.version = v] OBVIOUS
  <2> HIDE DEF r, row, v
  <2>3. /\ r \in TaskRow /\ r.version = v /\ r.seq = row.seq
        /\ r.status = row.status /\ r.owner = row.owner
    BY <2>1, <2>2 DEF TaskRow
  <2> USE DEF row, v
  <2> QED BY <2>3, <1>2
<1> HIDE DEF r
<1>5. Replaces(t) /\ KeepsOwner(t) BY <1>1, <1>4, SameStatusReplaces
<1> QED BY <1>1, <1>5, PlainReplaces

(* The versions listed of rows that are there are versions a call may hold. *)
LEMMA VersionsTyped ==
    ASSUME IInv, NEW S \in SUBSET Tasks, \A k \in S : Exists(k)
    PROVE  Versions(S) \in SUBSET (Tasks \X (Nat \ {0}))
<1>1. \A k \in S : task[k].version \in Nat \ {0}
  BY DEF IInv, Table, RowGood, TaskRow
<1> QED BY <1>1 DEF Versions

LEMMA ChildrenTyped ==
    ASSUME IInv, NEW t
    PROVE  Versions(Children(t)) \in SUBSET (Tasks \X (Nat \ {0}))
BY VersionsTyped DEF Children

LEMMA UpdateContextKeeps == ASSUME IInv, NEW c \in Callers, UpdateContext(c) PROVE Kept
<1> DEFINE t == call[c].id
           r == [task[t] EXCEPT !.version = call[c].seen.version + 1]
           todo == Versions(Children(t))
           k == [Idle EXCEPT !.phase = "context", !.todo = todo]
<1>1. /\ Writes(c) /\ UNCHANGED <<finished, tick>> /\ task' = [task EXCEPT ![t] = r]
      /\ call' = [call EXCEPT ![c] = k]
  BY DEF UpdateContext, Writes
<1>2. task[t] = call[c].seen /\ call[c].seen \in TaskRow BY <1>1, HeldIsCurrent
<1>3. /\ r \in TaskRow /\ r.version = call[c].seen.version + 1
      /\ r.seq = call[c].seen.seq /\ r.status = call[c].seen.status
      /\ r.owner = call[c].seen.owner
  BY <1>2 DEF TaskRow
<1> HIDE DEF r
<1>4. Replaces(t) /\ KeepsOwner(t) BY <1>1, <1>3, SameStatusReplaces
<1>5. todo \in SUBSET (Tasks \X (Nat \ {0})) BY ChildrenTyped
<1> HIDE DEF todo
<1>6. k \in CallRecord /\ k.phase = "context" BY <1>5, IdleIsGood DEF CallRecord, Idle
<1> HIDE DEF k
<1> QED BY <1>1, <1>4, <1>6, CallReplaces

LEMMA ClaimKeeps ==
    ASSUME IInv, NEW c \in Callers, NEW a \in Agents, NEW ttl \in Ttls, Claim(c, a, ttl)
    PROVE  Kept
<1> DEFINE t == call[c].id
           lease == IF ttl = NoLease THEN NoLease ELSE now + ttl
           v == call[c].seen.version + 1
           row == task[t]
           r == [row EXCEPT !.status = "in_progress", !.owner = a, !.lease = lease, !.version = v]
           k == IF AutoClaim THEN [call[c] EXCEPT !.phase = "claimed", !.agent = a, !.seen = NoTask]
                ELSE Idle
<1>1. /\ Writes(c) /\ UNCHANGED <<finished, tick>> /\ task' = [task EXCEPT ![t] = r]
      /\ call[c].seen.owner = None
  BY DEF Claim, Writes
<1>2. call' = [call EXCEPT ![c] = k] BY DEF Claim
<1>3. row = call[c].seen /\ row \in TaskRow BY <1>1, HeldIsCurrent
<1>4. lease \in Nat \cup {NoLease} /\ v \in Nat
  <2>1. now \in Nat BY DEF IInv, Table
  <2> QED BY <2>1, <1>3, BoardAssumption DEF TaskRow
<1>5. "in_progress" \in Statuses BY DEF Statuses
<1>6. /\ r \in TaskRow /\ r.version = v /\ r.seq = row.seq /\ r.status = "in_progress"
  <2> HIDE DEF lease, v, row
  <2> QED BY <1>3, <1>4, <1>5 DEF TaskRow
<1>7. k \in CallRecord /\ k.phase \notin {"held", "numbered"}
  <2>1. call[c] \in CallRecord BY DEF IInv, Calls
  <2>2. NoTask \in TaskRow BY IdleIsGood DEF Idle, CallRecord
  <2>3. [call[c] EXCEPT !.phase = "claimed", !.agent = a, !.seen = NoTask] \in CallRecord
    BY <2>1, <2>2 DEF CallRecord
  <2>4. Idle \in CallRecord /\ Idle.phase = "idle" BY IdleIsGood DEF Idle
  <2> QED BY <2>1, <2>3, <2>4 DEF CallRecord
<1> HIDE DEF r, k, lease
<1>8. Replaces(t) /\ KeepsOwner(t)
  BY <1>1, <1>3, <1>5, <1>6, FinishedKept, WriteReplaces
<1> QED BY <1>1, <1>2, <1>7, <1>8, CallReplaces

-----------------------------------------------------------------------------
(* Calls that leave the table alone. *)

LEMMA StillGood ==
    ASSUME UNCHANGED <<task, counter, now, finished>>
    PROVE  /\ Table => Table'
           /\ \A t, seen : Snap(t, seen) <=> Snap(t, seen)'
           /\ \A k : CallGood(k) <=> CallGood(k)'
           /\ \A k : TickGood(k) <=> TickGood(k)'
<1>1. \A t, seen : Snap(t, seen) <=> Snap(t, seen)' BY DEF Snap
<1>2. Table => Table' BY DEF Table, RowGood, Exists, SequenceIdsUnique
<1>3. \A k : CallGood(k) <=> CallGood(k)' BY <1>1 DEF CallGood, Exists
<1>4. \A k : TickGood(k) <=> TickGood(k)' BY <1>1 DEF TickGood, Entry
<1> QED BY <1>1, <1>2, <1>3, <1>4

LEMMA CallOnly ==
    ASSUME IInv, NEW c \in Callers, NEW k \in CallRecord, CallGood(k), k.phase # "numbered",
           call' = [call EXCEPT ![c] = k], UNCHANGED <<task, counter, tick, now, finished>>
    PROVE  Kept
<1>1. /\ Table' /\ CallGood(k)'
      /\ \A j \in CallRecord : CallGood(j) => CallGood(j)'
  BY StillGood DEF IInv
<1>2. Calls' BY <1>1, CallRecordKept DEF IInv
<1>3. tick' \in TickRecord /\ TickGood(tick)' BY StillGood DEF IInv
<1>4. Owners BY DEF Owners, KeepsOwner
<1> QED BY <1>1, <1>2, <1>3, <1>4 DEF Kept, IInv

LEMMA ReadKeeps ==
    ASSUME IInv, NEW c \in Callers, NEW t \in Tasks, Read(c, t)
    PROVE  Kept
<1> DEFINE row == task[t]
           k == [call[c] EXCEPT !.phase = "held", !.id = t, !.seen = row]
<1>1. call' = [call EXCEPT ![c] = k] /\ UNCHANGED <<task, counter, tick, now, finished>>
  BY DEF Read, Hold
<1>2. call[c] \in CallRecord /\ row \in TaskRow BY DEF IInv, Calls, Table
<1>3. RowGood(t) /\ Exists(t) BY DEF IInv, Table, Read
<1>4. Snap(t, row) BY <1>2, <1>3 DEF Snap, RowGood, TaskRow
<1>5. k \in CallRecord /\ k.phase = "held" /\ k.id = t /\ k.seen = row
  <2> HIDE DEF row
  <2> QED BY <1>2 DEF CallRecord
<1>6. CallGood(k) BY <1>4, <1>5 DEF CallGood
<1> HIDE DEF k
<1> QED BY <1>1, <1>5, <1>6, CallOnly

LEMMA ReadProjectKeeps == ASSUME IInv, NEW c \in Callers, ReadProject(c) PROVE Kept
<1> DEFINE k == [call[c] EXCEPT !.phase = "project", !.seen.seq = counter]
<1>1. call' = [call EXCEPT ![c] = k] /\ UNCHANGED <<task, counter, tick, now, finished>>
  BY DEF ReadProject
<1>2. call[c] \in CallRecord /\ counter \in Nat BY DEF IInv, Calls, Table
<1>3. [call[c].seen EXCEPT !.seq = counter] \in TaskRow BY <1>2 DEF CallRecord, TaskRow
<1>4. k \in CallRecord /\ k.phase = "project" BY <1>2, <1>3 DEF CallRecord
<1> HIDE DEF k
<1>5. CallGood(k) BY <1>4 DEF CallGood
<1> QED BY <1>1, <1>4, <1>5, CallOnly

LEMMA DoneKeeps ==
    ASSUME IInv, NEW c \in Callers, Done(c), UNCHANGED <<task, counter, tick, now, finished>>
    PROVE  Kept
<1>1. Idle \in CallRecord /\ CallGood(Idle) /\ Idle.phase = "idle" BY IdleIsGood DEF Idle
<1> QED BY <1>1, CallOnly DEF Done

LEMMA SubtaskStepsKeep ==
    ASSUME IInv, NEW c \in Callers, ListSubtasks(c) \/ SkipSubtask(c)
    PROVE  Kept
<1> DEFINE S == Versions({k \in Children(call[c].id) : task[k].status = "ready"})
           todo == call[c].todo \cup S
<1>1. call[c] \in CallRecord /\ UNCHANGED <<task, counter, tick, now, finished>>
  BY DEF IInv, Calls, ListSubtasks, SkipSubtask
<1>2. todo \in SUBSET (Tasks \X (Nat \ {0}))
  <2>1. S \in SUBSET (Tasks \X (Nat \ {0})) BY VersionsTyped DEF Children
  <2>2. call[c].todo \in SUBSET (Tasks \X (Nat \ {0})) BY <1>1 DEF CallRecord
  <2> HIDE DEF S
  <2> QED BY <2>1, <2>2
<1>3. NoTask \in TaskRow BY IdleIsGood DEF Idle, CallRecord
<1>4. PICK k \in {[call[c] EXCEPT !.phase = "subtasks", !.todo = todo],
                  [call[c] EXCEPT !.phase = "subtasks", !.seen = NoTask]} :
        call' = [call EXCEPT ![c] = k]
  BY DEF ListSubtasks, SkipSubtask
<1> HIDE DEF todo
<1>5. k \in CallRecord /\ k.phase = "subtasks" BY <1>1, <1>2, <1>3, <1>4 DEF CallRecord
<1>6. CallGood(k) BY <1>5 DEF CallGood
<1> QED BY <1>1, <1>4, <1>5, <1>6, CallOnly

LEMMA ReadSubtaskKeeps ==
    ASSUME IInv, NEW c \in Callers, NEW p \in call[c].todo, ReadSubtask(c, p[1], p[2])
    PROVE  Kept
<1> DEFINE t == p[1]
           row == task[t]
           todo == call[c].todo \ {<<p[1], p[2]>>}
<1>1. call[c] \in CallRecord /\ UNCHANGED <<task, counter, tick, now, finished>>
  BY DEF IInv, Calls, ReadSubtask
<1>2. t \in Tasks /\ todo \in SUBSET (Tasks \X (Nat \ {0})) BY <1>1 DEF CallRecord
<1>3. row \in TaskRow /\ RowGood(t) BY <1>2 DEF IInv, Table
<1>4. CASE Exists(t)
  <2> DEFINE k == [call[c] EXCEPT !.phase = "held", !.id = t, !.seen = row, !.todo = todo]
  <2>1. call' = [call EXCEPT ![c] = k] BY <1>4 DEF ReadSubtask
  <2>2. Snap(t, row) BY <1>3, <1>4 DEF Snap, RowGood, TaskRow
  <2>3. k \in CallRecord /\ k.phase = "held" /\ k.id = t /\ k.seen = row
    <3> HIDE DEF row, t, todo
    <3> QED BY <1>1, <1>2, <1>3 DEF CallRecord
  <2>4. CallGood(k) BY <1>2, <2>2, <2>3 DEF CallGood
  <2> HIDE DEF k
  <2> QED BY <1>1, <2>1, <2>3, <2>4, CallOnly
<1>5. CASE ~Exists(t)
  <2> DEFINE k == [call[c] EXCEPT !.todo = todo]
  <2>1. call' = [call EXCEPT ![c] = k] BY <1>5 DEF ReadSubtask
  <2>2. call[c].phase = "subtasks" BY DEF ReadSubtask
  <2>3. k \in CallRecord /\ k.phase = "subtasks"
    <3> HIDE DEF todo
    <3> QED BY <1>1, <1>2, <2>2 DEF CallRecord
  <2>4. CallGood(k) BY <2>3 DEF CallGood
  <2> HIDE DEF k
  <2> QED BY <1>1, <2>1, <2>3, <2>4, CallOnly
<1> QED BY <1>4, <1>5

(* create's number: nobody else has it, and the counter has passed it. *)
LEMMA TakeNumberKeeps ==
    ASSUME IInv, NEW c \in Callers, NEW t \in Tasks, TakeNumber(c, t)
    PROVE  Kept
<1>1. UNCHANGED <<task, tick, now, finished>> BY DEF TakeNumber
<1>2. CASE ~CounterSwaps(call[c].seen.seq)
  <2>1. Done(c) /\ UNCHANGED counter BY <1>2 DEF TakeNumber
  <2> QED BY <1>1, <2>1, DoneKeeps
<1>3. CASE CounterSwaps(call[c].seen.seq)
  <2> DEFINE m == counter + 1
             j == [call[c] EXCEPT !.phase = "numbered", !.id = t, !.seen.seq = @ + 1]
  <2>a. /\ counter' = m /\ call' = [call EXCEPT ![c] = j]
        /\ call[c] \in CallRecord /\ counter \in Nat /\ call[c].seen.seq = counter
    BY <1>3 DEF TakeNumber, CounterSwaps, IInv, Calls, Table
  <2>b. [call[c].seen EXCEPT !.seq = m] \in TaskRow BY <2>a DEF CallRecord, TaskRow
  <2>c. j.seen.seq = m
    <3>1. j.seen = [call[c].seen EXCEPT !.seq = m] BY <2>a DEF CallRecord
    <3>2. call[c].seen \in TaskRow BY <2>a DEF CallRecord
    <3> HIDE DEF j, m
    <3> QED BY <3>1, <3>2 DEF TaskRow
  <2>d. j \in CallRecord /\ j.phase = "numbered" /\ j.id = t
    BY <2>a, <2>b DEF CallRecord
  <2> HIDE DEF j
  <2>2. PICK k \in CallRecord, n \in Nat : k = j /\ n = counter + 1
    BY <2>a, <2>d
  <2>1. counter' = n /\ n = counter + 1 /\ counter \in Nat /\ call' = [call EXCEPT ![c] = k]
    BY <2>2, <2>a
  <2>3. k.seen.seq = n BY <2>2, <2>c
  <2>4. k \in CallRecord /\ k.phase = "numbered" /\ k.id = t BY <2>2, <2>d
  <2>5. \A u \in Tasks : Exists(u) => task[u].seq \in Nat /\ task[u].seq < n
    BY <2>1 DEF IInv, Table, RowGood, TaskRow
  <2>6. Table'
    BY <1>1, <2>1, <2>5 DEF IInv, Table, RowGood, Exists, SequenceIdsUnique, TaskRow
  <2>7. ASSUME NEW i \in CallRecord, CallGood(i) PROVE CallGood(i)'
    <3>1. i.seen.seq \in Nat BY DEF CallRecord, TaskRow
    <3> QED BY <1>1, <2>1, <2>7, <3>1 DEF CallGood, Snap, Exists
  <2>8. CallGood(k)'
    <3>1. task[t] = NoTask BY DEF TakeNumber, Unborn
    <3> QED BY <1>1, <2>1, <2>3, <2>4, <2>5, <3>1 DEF CallGood, Exists
  <2>9. NumbersDiffer'
    <3>1. ASSUME NEW d \in Callers, d # c, call[d].phase = "numbered"
          PROVE  call[d].id # t /\ call[d].seen.seq # n
      <4>1. call[d].id # t BY <3>1 DEF TakeNumber, Unborn
      <4>2. CallGood(call[d]) /\ call[d].seen.seq \in Nat
        BY DEF IInv, Calls, CallRecord, TaskRow
      <4> QED BY <4>1, <4>2, <3>1, <2>1 DEF CallGood
    <3> QED BY <2>1, <2>3, <2>4, <3>1 DEF IInv, Calls, NumbersDiffer
  <2>10. Calls'
    <3>1. \A d \in Callers : call'[d] \in CallRecord /\ (call'[d] = k \/ call'[d] = call[d])
      BY <2>1, <2>4 DEF IInv, Calls
    <3>2. \A d \in Callers : CallGood(call[d])'
      BY <3>1, <2>7, <2>8 DEF IInv, Calls, CallGood
    <3>3. call' \in [Callers -> CallRecord] BY <2>1, <2>4 DEF IInv, Calls
    <3> QED BY <3>2, <3>3, <2>9 DEF Calls
  <2>11. TickGood(tick)' BY <1>1 DEF IInv, TickGood, Entry, Snap
  <2>12. Owners BY <1>1 DEF Owners, KeepsOwner
  <2> QED BY <1>1, <2>6, <2>10, <2>11, <2>12 DEF Kept, IInv
<1> QED BY <1>2, <1>3

(* A row that appears, or one that goes, disturbs no snapshot: of a row    *)
(* not yet there none is held, and one that goes is never back.            *)
LEMMA CreateKeeps ==
    ASSUME IInv, NEW c \in Callers, NEW status \in {"draft", "ready"},
           NEW deps \in DepLists, Create(c, status, deps)
    PROVE  Kept
<1> DEFINE to == IF status = "ready" /\ deps # <<>> THEN "pending" ELSE status
<1>0. PICK t \in Tasks, n \in Nat : t = call[c].id /\ n = call[c].seen.seq
  BY DEF Create, IInv, Calls, CallGood, CallRecord, TaskRow
<1> DEFINE r == [NoTask EXCEPT !.status = to, !.deps = deps, !.seq = n, !.version = 1]
<1>1. /\ call[c] \in CallRecord /\ CallGood(call[c]) /\ call[c].phase = "numbered"
      /\ UNCHANGED <<counter, tick, now, finished>>
      /\ task' = [task EXCEPT ![t] = r] /\ call' = [call EXCEPT ![c] = Idle]
  BY <1>0 DEF Create, Done, IInv, Calls
<1>2. /\ t \in Tasks /\ task[t] = NoTask /\ n \in Nat /\ n >= 1 /\ n <= counter
      /\ \A u \in Tasks : Exists(u) => task[u].seq # n
  BY <1>0, <1>1 DEF CallGood, CallRecord, TaskRow
<1>3. /\ r.status = to /\ r.seq = n /\ r.version = 1 /\ r.owner = None /\ r.deps = deps
      /\ r.lease = NoLease
  BY DEF NoTask
<1>4. to \in {"draft", "ready", "pending"} OBVIOUS
<1>5. r \in TaskRow BY <1>2, <1>4 DEF NoTask, TaskRow, Statuses
<1> HIDE DEF r, to
<1>6. /\ task'[t] = r /\ task' \in [Tasks -> TaskRow]
      /\ \A u \in Tasks \ {t} : task'[u] = task[u]
  BY <1>1, <1>2, <1>5 DEF IInv, Table
<1>7. to \in Statuses /\ to # "completed" /\ to # "deleted" BY <1>4 DEF Statuses
<1>8. Exists(t)' /\ \A u \in Tasks \ {t} : Exists(u)' <=> Exists(u)
  BY <1>3, <1>6, <1>7 DEF Exists
<1>9. \A u \in Tasks : RowGood(u)'
  <2> TAKE u \in Tasks
  <2>1. CASE u # t BY <2>1, <1>1, <1>6, <1>8 DEF IInv, Table, RowGood
  <2>2. CASE u = t
    <3>1. MaxVersion[t] \in Nat \ {0} BY <1>2, BoardAssumption
    <3> QED BY <2>2, <3>1, <1>1, <1>2, <1>3, <1>6, <1>7, <1>8 DEF RowGood
  <2> QED BY <2>1, <2>2
<1>10. Table'
  <2>1. SequenceIdsUnique'
    BY <1>2, <1>3, <1>6, <1>8 DEF IInv, Table, SequenceIdsUnique
  <2> QED BY <2>1, <1>1, <1>6, <1>9 DEF IInv, Table
<1>11. ASSUME NEW u \in Tasks, NEW seen \in TaskRow, Snap(u, seen)
       PROVE  u # t /\ Snap(u, seen)'
  <2>1. u # t
    <3>1. task[t].status = "absent" /\ task[t].version = 0 BY <1>2 DEF NoTask
    <3> QED BY <3>1, <1>11 DEF Snap, TaskRow
  <2> QED BY <2>1, <1>6, <1>11 DEF Snap
<1>12. ASSUME NEW d \in Callers, d # c PROVE CallGood(call[d])'
  <2>1. PICK k \in CallRecord : k = call[d] BY DEF IInv, Calls
  <2>2. CallGood(k) /\ k.seen \in TaskRow BY <2>1 DEF IInv, Calls, CallRecord
  <2>3. k.phase = "numbered" => k.id # t /\ k.seen.seq # n
    BY <2>1, <1>0, <1>1, <1>12 DEF IInv, Calls, NumbersDiffer
  <2>4. k.phase = "held" => k.id \in Tasks /\ Snap(k.id, k.seen)'
    BY <2>2, <1>11 DEF CallGood
  <2>5. ASSUME k.phase = "numbered"
        PROVE  /\ k.id \in Tasks /\ task'[k.id] = NoTask
               /\ k.seen.seq >= 1 /\ k.seen.seq <= counter'
               /\ \A u \in Tasks : Exists(u)' => task'[u].seq # k.seen.seq
    BY <2>2, <2>3, <2>5, <1>1, <1>3, <1>6, <1>8 DEF CallGood
  <2>6. CallGood(k)' BY <2>4, <2>5 DEF CallGood
  <2>7. call'[d] = k BY <2>1, <1>1, <1>12 DEF IInv, Calls
  <2> QED BY <2>6, <2>7 DEF CallGood
<1>13. Calls'
  <2>1. Idle \in CallRecord /\ CallGood(Idle)' /\ Idle.phase = "idle"
    BY IdleIsGood DEF Idle
  <2>2. call' \in [Callers -> CallRecord] BY <1>1, <2>1 DEF IInv, Calls
  <2>3. \A d \in Callers \ {c} : call'[d] = call[d] BY <1>1 DEF IInv, Calls
  <2>4. call'[c] = Idle BY <1>1 DEF IInv, Calls
  <2>5. \A d \in Callers : CallGood(call[d])' BY <1>12, <2>1, <2>3, <2>4 DEF CallGood
  <2>6. NumbersDiffer' BY <2>1, <2>3, <2>4 DEF IInv, Calls, NumbersDiffer
  <2> QED BY <2>2, <2>5, <2>6 DEF Calls
<1>14. TickGood(tick)'
  <2>1. ASSUME NEW s \in tick.todo PROVE Entry(tick, s)'
    <3>1. s.id \in Tasks /\ s.seen \in TaskRow BY DEF IInv, TickRecord, Snapshot
    <3> QED BY <3>1, <1>1, <1>11 DEF IInv, TickGood, Entry
  <2> QED BY <2>1, <1>1 DEF IInv, TickGood
<1>15. Owners
  <2>1. task[t].owner = None BY <1>2 DEF NoTask
  <2> QED BY <2>1, <1>6 DEF Owners, KeepsOwner
<1> QED BY <1>1, <1>10, <1>13, <1>14, <1>15 DEF Kept, IInv

LEMMA DeleteKeeps == ASSUME IInv, NEW c \in Callers, Delete(c) PROVE Kept
<1> DEFINE gone == [NoTask EXCEPT !.status = "deleted"]
<1>0. PICK t \in Tasks, seen0 \in TaskRow : t = call[c].id /\ seen0 = call[c].seen
  BY DEF Delete, IInv, Calls, CallGood, CallRecord
<1>1. /\ UNCHANGED <<counter, tick, now, finished>> /\ Snap(t, seen0)
      /\ task' = [task EXCEPT ![t] = gone] /\ call' = [call EXCEPT ![c] = Idle]
  BY <1>0 DEF Delete, Done, IInv, Calls, CallGood
<1>2. gone \in TaskRow /\ gone.status = "deleted" /\ gone.owner = None /\ gone.version = 0
  BY NoDeps DEF NoTask, TaskRow
<1>3. task[t] # NoTask BY <1>1 DEF Snap, NoTask, TaskRow
<1>4. /\ task'[t] = gone /\ task' \in [Tasks -> TaskRow]
      /\ \A u \in Tasks \ {t} : task'[u] = task[u]
  BY <1>1, <1>2 DEF IInv, Table
<1>5. ~ Exists(t)' /\ \A u \in Tasks \ {t} : Exists(u)' <=> Exists(u)
  BY <1>2, <1>4 DEF Exists, Statuses
<1>6. \A u \in Tasks : RowGood(u)'
  <2> TAKE u \in Tasks
  <2>1. CASE u # t BY <2>1, <1>1, <1>4, <1>5 DEF IInv, Table, RowGood
  <2>2. CASE u = t
    <3>1. MaxVersion[t] \in Nat BY BoardAssumption
    <3>2. task'[t].version <= MaxVersion[t] + 1 BY <3>1, <1>2, <1>4
    <3>3. task'[t] \in {NoTask, gone} BY <1>4
    <3> QED BY <2>2, <3>2, <3>3, <1>5 DEF RowGood
  <2> QED BY <2>1, <2>2
<1>7. Table'
  <2>1. SequenceIdsUnique' BY <1>4, <1>5 DEF IInv, Table, SequenceIdsUnique
  <2> QED BY <2>1, <1>1, <1>4, <1>6 DEF IInv, Table
<1>8. ASSUME NEW u \in Tasks, NEW seen \in TaskRow, Snap(u, seen)
      PROVE  Snap(u, seen)'
  <2>1. CASE u # t BY <2>1, <1>4, <1>8 DEF Snap
  <2>2. CASE u = t BY <2>2, <1>2, <1>4, <1>8 DEF Snap
  <2> QED BY <2>1, <2>2
<1>9. ASSUME NEW k \in CallRecord, CallGood(k) PROVE CallGood(k)'
  <2>1. k.seen \in TaskRow BY DEF CallRecord
  <2>2. k.phase = "held" => k.id \in Tasks /\ Snap(k.id, k.seen)'
    BY <2>1, <1>8, <1>9 DEF CallGood
  <2>3. ASSUME k.phase = "numbered"
        PROVE  /\ k.id \in Tasks /\ task'[k.id] = NoTask
               /\ k.seen.seq >= 1 /\ k.seen.seq <= counter'
               /\ \A u \in Tasks : Exists(u)' => task'[u].seq # k.seen.seq
    BY <2>3, <1>1, <1>3, <1>4, <1>5, <1>9 DEF CallGood
  <2> QED BY <2>2, <2>3 DEF CallGood
<1>10. Calls'
  <2>1. Idle \in CallRecord /\ CallGood(Idle)' /\ Idle.phase = "idle"
    BY IdleIsGood DEF Idle
  <2> QED BY <1>1, <1>9, <2>1, CallRecordKept DEF IInv
<1>11. TickGood(tick)'
  <2>1. ASSUME NEW s \in tick.todo PROVE Entry(tick, s)'
    <3>1. s.id \in Tasks /\ s.seen \in TaskRow BY DEF IInv, TickRecord, Snapshot
    <3> QED BY <3>1, <1>1, <1>8 DEF IInv, TickGood, Entry
  <2> QED BY <2>1, <1>1 DEF IInv, TickGood
<1>12. Owners BY <1>2, <1>4 DEF Owners, KeepsOwner
<1> QED BY <1>1, <1>7, <1>10, <1>11, <1>12 DEF Kept, IInv

LEMMA PropagateContextKeeps ==
    ASSUME IInv, NEW c \in Callers, NEW p \in call[c].todo, PropagateContext(c, p[1], p[2])
    PROVE  Kept
<1> DEFINE t == p[1]
           v == p[2]
           row == task[t]
           r == [row EXCEPT !.version = v + 1]
           todo == (call[c].todo \ {<<p[1], p[2]>>}) \cup Versions(Children(t))
           k == [call[c] EXCEPT !.todo = todo]
<1>1. CASE task[t].version # v
  BY <1>1, DoneKeeps DEF PropagateContext
<1>2. CASE task[t].version = v
  <2>1. /\ task' = [task EXCEPT ![t] = r] /\ call' = [call EXCEPT ![c] = k]
        /\ UNCHANGED <<counter, tick, now, finished>>
        /\ call[c].phase = "context" /\ v < MaxVersion[t] /\ call[c] \in CallRecord
    BY <1>2 DEF PropagateContext, Room, IInv, Calls
  <2>2. t \in Tasks /\ v \in Nat \ {0} BY <2>1 DEF CallRecord
  <2>3. row \in TaskRow /\ RowGood(t) /\ task \in [Tasks -> TaskRow] BY <2>2 DEF IInv, Table
  <2>4. Exists(t) BY <1>2, <2>2, <2>3 DEF RowGood, NoTask
  <2>5. /\ r \in TaskRow /\ r.version = row.version + 1 /\ r.seq = row.seq
        /\ r.status = row.status /\ r.owner = row.owner
    <3>1. row.version = v BY <1>2
    <3> HIDE DEF row, v
    <3> QED BY <3>1, <2>2, <2>3 DEF TaskRow
  <2> HIDE DEF r
  <2>6. Replaces(t) /\ KeepsOwner(t)
    <3>1. task'[t] = r /\ task' \in [Tasks -> TaskRow] /\ \A u \in Tasks \ {t} : task'[u] = task[u]
      BY <2>1, <2>2, <2>3, <2>5
    <3>2. row.status \in Statuses /\ (row.status = "completed" => t \in finished')
      BY <2>1, <2>3, <2>4 DEF RowGood, Exists
    <3>3. finished \subseteq finished' /\ finished' \subseteq Tasks BY <2>1, FinishedKept
    <3>4. MaxVersion[t] \in Nat BY <2>2, BoardAssumption
    <3>5. r.version <= MaxVersion[t] BY <3>4, <2>1, <2>2, <2>5, <1>2
    <3>6. Replaces(t) BY <3>1, <3>2, <3>3, <3>5, <2>1, <2>2, <2>4, <2>5 DEF Replaces
    <3>7. KeepsOwner(t) BY <3>1, <2>5 DEF KeepsOwner
    <3> QED BY <3>6, <3>7
  <2>7. k \in CallRecord /\ k.phase = "context"
    <3>1. todo \in SUBSET (Tasks \X (Nat \ {0}))
      <4>1. Versions(Children(t)) \in SUBSET (Tasks \X (Nat \ {0})) BY ChildrenTyped
      <4>2. call[c].todo \in SUBSET (Tasks \X (Nat \ {0})) BY <2>1 DEF CallRecord
      <4> QED BY <4>1, <4>2
    <3> HIDE DEF todo
    <3> QED BY <3>1, <2>1 DEF CallRecord
  <2> HIDE DEF k, t
  <2> QED BY <2>1, <2>6, <2>7, CallReplaces
<1> QED BY <1>1, <1>2

LEMMA OperationKeeps == ASSUME IInv, NEW c \in Callers, Operation(c) PROVE Kept
<1>1. CASE \E t \in Tasks : Read(c, t) BY <1>1, ReadKeeps
<1>2. CASE ReadProject(c) BY <1>2, ReadProjectKeeps
<1>3. CASE \E t \in Tasks : TakeNumber(c, t) BY <1>3, TakeNumberKeeps
<1>4. CASE \E t \in Tasks : \E d \in DepChoices[t] :
             UpdateDeps(c, d) \/ \E st \in {"draft", "ready"} : Create(c, st, d)
  <2>1. \A t \in Tasks : DepChoices[t] \subseteq DepLists
    BY BoardAssumption DEF DepLists
  <2> QED BY <1>4, <2>1, UpdateDepsKeeps, CreateKeeps
<1>5. CASE Refused(c) \/ ContextDone(c) \/ SubtasksDone(c)
  BY <1>5, DoneKeeps DEF Refused, ContextDone, SubtasksDone
<1>6. CASE Publish(c) BY <1>6, PublishKeeps
<1>7. CASE \E a \in Agents, ttl \in Ttls : Claim(c, a, ttl) BY <1>7, ClaimKeeps
<1>8. CASE Complete(c) BY <1>8, CompleteKeeps
<1>9. CASE Fail(c) \/ Unblock(c) \/ Release(c) BY <1>9, FreeingKeeps
<1>10. CASE Block(c) BY <1>10, BlockKeeps
<1>11. CASE \E ttl \in Ttls \ {NoLease} : Renew(c, ttl) BY <1>11, RenewKeeps
<1>12. CASE \E st \in Statuses : UpdateStatus(c, st) BY <1>12, UpdateStatusKeeps
<1>13. CASE UpdateContext(c) BY <1>13, UpdateContextKeeps
<1>14. CASE \E p \in call[c].todo : PropagateContext(c, p[1], p[2])
  BY <1>14, PropagateContextKeeps
<1>15. CASE \E p \in call[c].todo : ReadSubtask(c, p[1], p[2])
  BY <1>15, ReadSubtaskKeeps
<1>16. CASE ListSubtasks(c) \/ SkipSubtask(c) BY <1>16, SubtaskStepsKeep
<1>17. CASE Delete(c) BY <1>17, DeleteKeeps
<1> QED
  BY <1>1, <1>2, <1>3, <1>4, <1>5, <1>6, <1>7, <1>8, <1>9, <1>10, <1>11, <1>12, <1>13,
     <1>14, <1>15, <1>16, <1>17 DEF Operation

-----------------------------------------------------------------------------
(* The tick *)

Spares ==
    \A t \in Tasks :
        tick' # tick /\ task[t].status = "in_progress" /\ task'[t].status # "in_progress"
        => task[t].lease # NoLease /\ task[t].lease < now

Waits ==
    \A t \in Tasks :
        tick' # tick /\ task[t].status = "pending" /\ task'[t].status = "ready"
        => Range(task[t].deps) \subseteq finished

TickKept == IInv' /\ Owners /\ Spares /\ Waits

LEMMA NoTickIsGood == NoTick \in TickRecord /\ TickGood(NoTick)
BY DEF NoTick, TickRecord, TickGood

LEMMA TickOnly ==
    ASSUME IInv, NEW k \in TickRecord, TickGood(k),
           tick' = k, UNCHANGED <<task, counter, call, now, finished>>
    PROVE  TickKept
<1>1. Table' /\ TickGood(k)' /\ \A j : CallGood(j) => CallGood(j)' BY StillGood DEF IInv
<1>2. TickGood(tick)' BY <1>1 DEF TickGood, Entry, Snap
<1>3. Calls'
  <2>1. \A d \in Callers : CallGood(call[d])' BY StillGood DEF IInv, Calls, CallGood, Snap, Exists
  <2> QED BY <2>1 DEF IInv, Calls, NumbersDiffer
<1>4. Owners /\ Spares /\ Waits BY DEF Owners, KeepsOwner, Spares, Waits
<1> QED BY <1>1, <1>2, <1>3, <1>4 DEF TickKept, IInv

LEMMA TickReplaces ==
    ASSUME IInv, NEW t, Replaces(t), KeepsOwner(t), NEW k \in TickRecord, TickGood(k),
           tick' = k, UNCHANGED call,
           task[t].status = "in_progress" => task[t].lease # NoLease /\ task[t].lease < now,
           task[t].status = "pending" => Range(task[t].deps) \subseteq finished
    PROVE  TickKept
<1>1. /\ Table' /\ TickGood(k)'
      /\ \A j \in CallRecord : CallGood(j) => CallGood(j)'
  BY ReplaceKeeps DEF IInv
<1>2. TickGood(tick)' BY <1>1 DEF TickGood, Entry, Snap
<1>3. Calls'
  <2>1. ASSUME NEW d \in Callers PROVE CallGood(call[d])'
    <3>1. PICK j \in CallRecord : j = call[d] BY DEF IInv, Calls
    <3>2. CallGood(j) BY <3>1 DEF IInv, Calls
    <3>3. CallGood(j)' BY <3>2, <1>1
    <3>4. call'[d] = j BY <3>1
    <3> QED BY <3>3, <3>4 DEF CallGood
  <2> QED BY <2>1 DEF IInv, Calls, NumbersDiffer
<1>4. Owners /\ Spares /\ Waits BY DEF Owners, KeepsOwner, Spares, Waits, Replaces
<1> QED BY <1>1, <1>2, <1>3, <1>4 DEF TickKept, IInv

(* What the tick decided on, if the swap succeeds, is the row that is there. *)
LEMMA ListedIsCurrent ==
    ASSUME IInv, NEW s \in tick.todo, Swaps(s.id, s.seen), tick.phase # "idle",
           s.seen.status \in {"in_progress", "pending"}
    PROVE  /\ s.id \in Tasks /\ s.seen \in TaskRow /\ task[s.id] = s.seen
           /\ Exists(s.id) /\ s.seen.version <= MaxVersion[s.id]
<1>1. s.id \in Tasks /\ s.seen \in TaskRow BY DEF IInv, TickRecord, Snapshot
<1>2. Snap(s.id, s.seen) BY DEF IInv, TickGood, Entry
<1>3. task[s.id] = s.seen BY <1>2 DEF Snap, Swaps
<1>4. Exists(s.id) BY <1>3 DEF Exists, Statuses
<1>5. RowGood(s.id) BY <1>1 DEF IInv, Table
<1>6. MaxVersion[s.id] \in Nat /\ s.seen.version \in Nat BY <1>1, BoardAssumption DEF TaskRow
<1> QED BY <1>1, <1>3, <1>4, <1>5, <1>6 DEF RowGood

LEMMA ListedReplaces ==
    ASSUME IInv, NEW s \in tick.todo, Swaps(s.id, s.seen), tick.phase # "idle",
           s.seen.status \in {"in_progress", "pending"},
           UNCHANGED <<counter, now, finished>>,
           \/ task' = Freed(s.id, s.seen, "ready")
           \/ task' = Moved(s.id, s.seen, "ready")
    PROVE  Replaces(s.id) /\ KeepsOwner(s.id)
<1>0. PICK t \in Tasks, row \in TaskRow : t = s.id /\ row = s.seen
  BY ListedIsCurrent
<1>1. task[t] = row /\ Exists(t) /\ row.version <= MaxVersion[t] BY <1>0, ListedIsCurrent
<1>2. "ready" \in Statuses /\ row.version + 1 \in Nat BY DEF Statuses, TaskRow
<1>3. PICK r \in {MovedRow(row, "ready", row.version + 1),
                   FreedRow(row, "ready", row.version + 1)} :
        task' = [task EXCEPT ![t] = r]
  BY <1>0, <1>1 DEF Freed, Moved, MovedRow, FreedRow
<1>4. /\ r \in TaskRow /\ r.status = "ready" /\ r.version = row.version + 1
      /\ r.seq = row.seq /\ r.owner \in {None, row.owner}
  <2> DEFINE v == row.version + 1
  <2> DEFINE m == MovedRow(row, "ready", v)
             f == FreedRow(row, "ready", v)
  <2>1. v \in Nat BY <1>2
  <2> HIDE DEF v
  <2>2. /\ m \in TaskRow /\ m.status = "ready" /\ m.version = v
        /\ m.seq = row.seq /\ m.owner = row.owner
        /\ f \in TaskRow /\ f.status = "ready" /\ f.version = v
        /\ f.seq = row.seq /\ f.owner = None
    <3>1. row \in TaskRow /\ v \in Nat /\ "ready" \in Statuses BY <2>1, <1>2
    <3> QED BY ONLY <3>1 DEF MovedRow, FreedRow, TaskRow, Statuses
  <2>3. r = m \/ r = f BY <1>3 DEF v
  <2> HIDE DEF m, f
  <2> QED BY <2>2, <2>3 DEF v
<1>5. task'[t] = r /\ task' \in [Tasks -> TaskRow] /\ \A u \in Tasks \ {t} : task'[u] = task[u]
  BY <1>3, <1>4 DEF IInv, Table
<1>6. Replaces(t)
  BY <1>1, <1>2, <1>4, <1>5, FinishedKept DEF Replaces
<1>7. KeepsOwner(t) BY <1>1, <1>4, <1>5 DEF KeepsOwner
<1> QED BY <1>0, <1>6, <1>7

(* Snapshots just taken are good ones. *)
LEMMA SnapshotsGood ==
    ASSUME IInv, NEW S \in SUBSET Tasks, \A t \in S : Exists(t)
    PROVE  /\ Snapshots(S) \in SUBSET Snapshot
           /\ \A s \in Snapshots(S) : s.id \in S /\ s.seen = task[s.id] /\ Snap(s.id, s.seen)
           /\ \A r, s \in Snapshots(S) : r.id = s.id => r = s
<1>1. \A t \in S : task[t] \in TaskRow /\ RowGood(t) BY DEF IInv, Table
<1>2. \A t \in S : Snap(t, task[t]) BY <1>1 DEF Snap, RowGood, TaskRow
<1> QED BY <1>1, <1>2 DEF Snapshots, Snapshot

LEMMA TickStartKeeps == ASSUME IInv, TickStart PROVE TickKept
<1> DEFINE S == {t \in Tasks : Stale(t)}
           todo == Snapshots(S)
           k == [NoTick EXCEPT !.phase = "leases", !.todo = todo]
<1>1. tick' = k /\ UNCHANGED <<task, counter, call, now, finished>> BY DEF TickStart
<1>2. \A t \in S : Exists(t) BY DEF Stale, Exists, Statuses
<1>3. \A t \in S : /\ task[t].status = "in_progress"
                   /\ task[t].lease # NoLease /\ task[t].lease < now
  BY DEF Stale
<1>4. /\ todo \in SUBSET Snapshot
      /\ \A s \in todo : s.id \in S /\ s.seen = task[s.id] /\ Snap(s.id, s.seen)
      /\ \A r, s \in todo : r.id = s.id => r = s
  BY <1>2, SnapshotsGood
<1> HIDE DEF todo
<1>5. k \in TickRecord /\ k.phase = "leases" /\ k.todo = todo /\ k.met = None
  <2>1. now \in Nat /\ None \in Tasks \cup {None} BY BoardAssumption DEF IInv, Table
  <2> QED BY <2>1, <1>4 DEF NoTick, TickRecord
<1> HIDE DEF k
<1>6. None \notin Tasks BY BoardAssumption
<1>7. TickGood(k) BY <1>3, <1>4, <1>5, <1>6 DEF TickGood, Entry
<1> QED BY <1>1, <1>5, <1>7, TickOnly

LEMMA ListPendingKeeps == ASSUME IInv, ListPending PROVE TickKept
<1> DEFINE S == {t \in Tasks : task[t].status = "pending"}
           todo == Snapshots(S)
           k == [NoTick EXCEPT !.phase = "deps", !.todo = todo]
<1>1. tick' = k /\ UNCHANGED <<task, counter, call, now, finished>> BY DEF ListPending
<1>2. \A t \in S : Exists(t) BY DEF Exists, Statuses
<1>4. /\ todo \in SUBSET Snapshot
      /\ \A s \in todo : s.id \in S /\ s.seen = task[s.id] /\ Snap(s.id, s.seen)
      /\ \A r, s \in todo : r.id = s.id => r = s
  BY <1>2, SnapshotsGood
<1> HIDE DEF todo
<1>5. k \in TickRecord /\ k.phase = "deps" /\ k.todo = todo /\ k.met = None
  BY <1>4, NoTickIsGood DEF NoTick, TickRecord
<1> HIDE DEF k
<1>6. None \notin Tasks BY BoardAssumption
<1>7. TickGood(k) BY <1>4, <1>5, <1>6 DEF TickGood, Entry
<1> QED BY <1>1, <1>5, <1>7, TickOnly

LEMMA NoTickKeeps ==
    ASSUME IInv, tick' = NoTick, UNCHANGED <<task, counter, call, now, finished>>
    PROVE  TickKept
BY NoTickIsGood, TickOnly

(* The rest of the list, once an entry has been dealt with. *)
LEMMA RestIsGood ==
    ASSUME IInv, NEW s \in tick.todo, NEW met \in {tick.met, None}
    PROVE  LET k == [tick EXCEPT !.todo = @ \ {s}, !.met = met]
           IN  k \in TickRecord /\ TickGood(k)
<1> DEFINE todo == tick.todo \ {s}
           k == [tick EXCEPT !.todo = todo, !.met = met]
<1>1. tick \in TickRecord /\ TickGood(tick) BY DEF IInv
<1>2. todo \subseteq tick.todo OBVIOUS
<1>3. k \in TickRecord /\ k.phase = tick.phase /\ k.todo = todo /\ k.met = met
  BY <1>1 DEF TickRecord
<1>4. None \notin Tasks /\ \A r \in tick.todo : r.id \in Tasks
  BY <1>1, BoardAssumption DEF TickRecord, Snapshot
<1> HIDE DEF k, todo
<1>5. TickGood(k) BY <1>1, <1>2, <1>3, <1>4 DEF TickGood, Entry
<1> QED BY <1>3, <1>5 DEF k, todo

LEMMA ExpireStaleKeeps ==
    ASSUME IInv, NEW s \in tick.todo, ExpireStale(s)
    PROVE  TickKept
<1>1. /\ tick.phase = "leases" /\ UNCHANGED <<counter, call, now, finished>>
      /\ tick \in TickRecord /\ Entry(tick, s)
  BY DEF ExpireStale, IInv, TickGood
<1>2. /\ s.seen.status = "in_progress" /\ s.seen.lease # NoLease /\ s.seen.lease < now
  BY <1>1 DEF Entry
<1>3. CASE ~Swaps(s.id, s.seen) BY <1>1, <1>3, NoTickKeeps DEF ExpireStale
<1>4. CASE Swaps(s.id, s.seen)
  <2>1. task' = Freed(s.id, s.seen, "ready") BY <1>4 DEF ExpireStale
  <2>2. Replaces(s.id) /\ KeepsOwner(s.id) BY <1>1, <1>2, <1>4, <2>1, ListedReplaces
  <2>3. task[s.id] = s.seen BY <1>1, <1>2, <1>4, ListedIsCurrent
  <2> DEFINE k == [tick EXCEPT !.todo = @ \ {s}, !.met = tick.met]
  <2>4. k \in TickRecord /\ TickGood(k) BY RestIsGood
  <2>5. tick' = k BY <1>1, <1>4 DEF ExpireStale, TickRecord
  <2> HIDE DEF k
  <2> QED BY <1>1, <1>2, <2>2, <2>3, <2>4, <2>5, TickReplaces
<1> QED BY <1>3, <1>4

(* A list as long as the rows found for it are many names nothing else.     *)
LEMMA MetMeansFinished ==
    ASSUME NEW deps \in DepLists, DepsMet(deps)
    PROVE  Range(deps) \subseteq Finished
<1> DEFINE named == Range(deps)
           n == Len(deps)
<1>1. /\ n \in Nat /\ DOMAIN deps = 1 .. n /\ deps \in [1 .. n -> named]
      /\ \A d \in named : \E i \in 1 .. n : deps[i] = d
  BY DEF DepLists, Range
<1>2. GetMany(deps) \subseteq named BY DEF GetMany
<1>3. Cardinality(GetMany(deps)) = n /\ GetMany(deps) \subseteq Finished BY DEF DepsMet
<1> HIDE DEF named, n
<1>4. IsFiniteSet(1 .. n) /\ Cardinality(1 .. n) = n BY <1>1, FS_Interval
<1>5. deps \in Surjection(1 .. n, named) BY <1>1 DEF Surjection
<1>6. IsFiniteSet(named) /\ Cardinality(named) <= n BY <1>4, <1>5, FS_Surjection
<1>7. Cardinality(GetMany(deps)) <= Cardinality(named) BY <1>2, <1>6, FS_Subset
<1>8. Cardinality(named) \in Nat BY <1>6, FS_CardinalityType
<1>9. Cardinality(named) = Cardinality(GetMany(deps)) BY <1>1, <1>3, <1>6, <1>7, <1>8
<1>10. named = GetMany(deps) BY <1>2, <1>6, <1>9, FS_Subset
<1> QED BY <1>3, <1>10 DEF named

LEMMA ReadDepsKeeps ==
    ASSUME IInv, NEW s \in tick.todo, ReadDeps(s)
    PROVE  TickKept
<1>1. /\ tick.phase = "deps" /\ tick.met = None
      /\ UNCHANGED <<task, counter, call, now, finished>>
      /\ tick \in TickRecord /\ TickGood(tick) /\ s.id \in Tasks
  BY DEF ReadDeps, IInv, TickRecord, Snapshot
<1>2. CASE DepsMet(s.seen.deps)
  <2> DEFINE k == [tick EXCEPT !.met = s.id]
  <2>1. Finished \subseteq finished BY DEF Finished, IInv, Table, RowGood, Exists, Statuses
  <2>2. Range(s.seen.deps) \subseteq finished
    <3>1. s.seen.deps \in DepLists BY <1>1 DEF TickRecord, Snapshot, TaskRow
    <3> QED BY <1>2, <2>1, <3>1, MetMeansFinished
  <2>3. k \in TickRecord /\ k.phase = "deps" /\ k.todo = tick.todo /\ k.met = s.id
    BY <1>1 DEF TickRecord
  <2>4. tick' = k BY <1>2 DEF ReadDeps
  <2> HIDE DEF k
  <2>5. TickGood(k) BY <1>1, <2>2, <2>3 DEF TickGood, Entry
  <2> QED BY <1>1, <2>3, <2>4, <2>5, TickOnly
<1>3. CASE ~DepsMet(s.seen.deps)
  <2> DEFINE k == [tick EXCEPT !.todo = @ \ {s}, !.met = tick.met]
  <2>1. k \in TickRecord /\ TickGood(k) BY RestIsGood
  <2>2. tick' = k BY <1>1, <1>3 DEF ReadDeps, TickRecord
  <2> HIDE DEF k
  <2> QED BY <1>1, <2>1, <2>2, TickOnly
<1> QED BY <1>2, <1>3

LEMMA ReconcileKeeps ==
    ASSUME IInv, NEW s \in tick.todo, Reconcile(s)
    PROVE  TickKept
<1>1. /\ tick.phase = "deps" /\ UNCHANGED <<counter, call, now, finished>>
      /\ tick \in TickRecord /\ Entry(tick, s) /\ tick.met = s.id
  BY DEF Reconcile, IInv, TickGood
<1>2. s.seen.status = "pending" /\ Range(s.seen.deps) \subseteq finished
  BY <1>1 DEF Entry
<1>3. CASE ~Swaps(s.id, s.seen) BY <1>1, <1>3, NoTickKeeps DEF Reconcile
<1>4. CASE Swaps(s.id, s.seen)
  <2>1. task' = Moved(s.id, s.seen, "ready") BY <1>4 DEF Reconcile
  <2>2. Replaces(s.id) /\ KeepsOwner(s.id) BY <1>1, <1>2, <1>4, <2>1, ListedReplaces
  <2>3. task[s.id] = s.seen BY <1>1, <1>2, <1>4, ListedIsCurrent
  <2> DEFINE k == [tick EXCEPT !.todo = @ \ {s}, !.met = None]
  <2>4. k \in TickRecord /\ TickGood(k) BY RestIsGood
  <2>5. tick' = k BY <1>4 DEF Reconcile
  <2> HIDE DEF k
  <2> QED BY <1>1, <1>2, <2>2, <2>3, <2>4, <2>5, TickReplaces
<1> QED BY <1>3, <1>4

LEMMA TickKeeps == ASSUME IInv, Tick PROVE TickKept
<1>1. CASE TickStart BY <1>1, TickStartKeeps
<1>2. CASE ListPending BY <1>2, ListPendingKeeps
<1>3. CASE TickDone BY <1>3, NoTickKeeps DEF TickDone
<1>4. CASE \E s \in tick.todo : ExpireStale(s) BY <1>4, ExpireStaleKeeps
<1>5. CASE \E s \in tick.todo : ReadDeps(s) BY <1>5, ReadDepsKeeps
<1>6. CASE \E s \in tick.todo : Reconcile(s) BY <1>6, ReconcileKeeps
<1> QED BY <1>1, <1>2, <1>3, <1>4, <1>5, <1>6 DEF Tick

-----------------------------------------------------------------------------
(* The clock, and the restart that forgets every call and the tick. *)

LEMMA ClockKeeps == ASSUME IInv, Clock PROVE TickKept
<1>1. /\ UNCHANGED <<task, counter, call, tick, finished>> /\ now' = now + 1
      /\ now \in 0 .. MaxClock /\ now' \in 0 .. MaxClock
  BY BoardAssumption DEF Clock, IInv, Table
<1>2. Table' BY <1>1 DEF IInv, Table, RowGood, Exists, SequenceIdsUnique
<1>3. Calls' BY <1>1 DEF IInv, Calls, CallGood, Snap, Exists, NumbersDiffer
<1>4. TickGood(tick)'
  <2>1. ASSUME NEW s \in tick.todo PROVE Entry(tick, s)'
    <3>1. Snap(s.id, s.seen)' BY <1>1 DEF IInv, TickGood, Entry, Snap
    <3>2. s.seen.lease \in Nat \cup {NoLease} BY DEF IInv, TickRecord, Snapshot, TaskRow
    <3>3. Entry(tick, s) BY DEF IInv, TickGood
    <3>4. s.seen.lease # NoLease /\ s.seen.lease < now => s.seen.lease < now'
      BY <1>1, <3>2
    <3> QED BY <1>1, <3>1, <3>3, <3>4 DEF Entry
  <2> QED BY <2>1, <1>1 DEF IInv, TickGood
<1>5. Owners /\ Spares /\ Waits BY <1>1 DEF Owners, KeepsOwner, Spares, Waits
<1> QED BY <1>1, <1>2, <1>3, <1>4, <1>5 DEF TickKept, IInv

LEMMA RestartKeeps == ASSUME IInv, Restart PROVE TickKept
<1>1. /\ UNCHANGED <<task, counter, finished>> /\ now' \in 0 .. MaxClock
      /\ tick' = NoTick /\ call' = [c \in Callers |-> Idle]
  BY BoardAssumption DEF Restart, IInv, Table
<1>2. Table' BY <1>1 DEF IInv, Table, RowGood, Exists, SequenceIdsUnique
<1>3. Calls'
  <2>1. Idle \in CallRecord /\ Idle.phase = "idle" BY IdleIsGood DEF Idle
  <2> QED BY <1>1, <2>1 DEF Calls, CallGood, NumbersDiffer
<1>4. tick' \in TickRecord /\ TickGood(tick)' BY <1>1 DEF NoTick, TickRecord, TickGood
<1>5. Owners /\ Spares /\ Waits BY <1>1 DEF Owners, KeepsOwner, Spares, Waits
<1> QED BY <1>2, <1>3, <1>4, <1>5 DEF TickKept, IInv

-----------------------------------------------------------------------------
LEMMA InitHolds == Init => IInv
<1> SUFFICES ASSUME Init PROVE IInv
  OBVIOUS
<1>1. Idle \in CallRecord /\ NoTask \in TaskRow /\ Idle.phase = "idle"
  BY IdleIsGood DEF Idle, CallRecord
<1>2. \A t \in Tasks : ~Exists(t) /\ RowGood(t)
  <2> TAKE t \in Tasks
  <2>1. task[t] = NoTask /\ NoTask.status = "absent" /\ NoTask.version = 0
    BY DEF Init, NoTask
  <2>2. MaxVersion[t] \in Nat BY BoardAssumption
  <2>3. ~Exists(t) BY <2>1 DEF Exists, Statuses
  <2> QED BY <2>1, <2>2, <2>3 DEF RowGood
<1>3. Table BY <1>1, <1>2, BoardAssumption DEF Init, Table, SequenceIdsUnique
<1>4. Calls BY <1>1 DEF Init, Calls, CallGood, NumbersDiffer
<1> QED BY <1>3, <1>4, NoTickIsGood DEF Init, IInv

(* Every step keeps the invariant and does what the properties allow. *)
LEMMA StepKeeps == ASSUME IInv, [Next]_vars PROVE TickKept
<1>1. CASE \E c \in Callers : Operation(c)
  <2>1. Kept BY <1>1, OperationKeeps
  <2> QED BY <2>1 DEF Kept, TickKept, Spares, Waits
<1>2. CASE Tick BY <1>2, TickKeeps
<1>3. CASE Clock BY <1>3, ClockKeeps
<1>4. CASE Restart BY <1>4, RestartKeeps
<1>5. CASE UNCHANGED vars
  <2>1. UNCHANGED <<task, counter, call, now, finished>> /\ tick' = tick BY <1>5 DEF vars
  <2>2. tick \in TickRecord /\ TickGood(tick) BY DEF IInv
  <2> QED BY <2>1, <2>2, TickOnly
<1> QED BY <1>1, <1>2, <1>3, <1>4, <1>5 DEF Next

LEMMA Invariance == Spec => []IInv
<1>1. IInv /\ [Next]_vars => IInv' BY StepKeeps DEF TickKept
<1> QED BY <1>1, InitHolds, PTL DEF Spec

(* Every variable of the board keeps its type, whatever the calls, ticks   *)
(* and restarts do to it.                                                  *)
THEOREM TypeCorrect == Spec => []TypeOK
<1>1. IInv => TypeOK
  <2> SUFFICES ASSUME IInv PROVE TypeOK
    OBVIOUS
  <2>1. \A c \in Callers : call[c] \in CallRecord BY DEF IInv, Calls
  <2>2. \A t \in Tasks : task[t].version <= MaxVersion[t] + 1 BY DEF IInv, Table, RowGood
  <2>3. tick \in TickRecord BY DEF IInv
  <2> QED BY <2>1, <2>2, <2>3 DEF IInv, Table, TypeOK, CallRecord, TickRecord
<1> QED BY <1>1, Invariance, PTL

(* Two tasks never get the same number: a create whose compare-and-swap on *)
(* the project's counter succeeds has a number no row and no other create  *)
(* has, and keeps it until its row is written.                             *)
THEOREM NumbersUnique == Spec => []SequenceIdsUnique
<1>1. IInv => SequenceIdsUnique BY DEF IInv, Table
<1> QED BY <1>1, Invariance, PTL

(* However stale the row a call decided on, no write takes a task from     *)
(* under the agent that works on it: a claim changes hands only through a  *)
(* state in which nobody holds it.                                         *)
THEOREM ClaimsAreNotStolen == Spec => NoStolenClaim
<1>1. IInv /\ [Next]_vars =>
        [\A t \in Tasks : task[t].owner # None /\ task'[t].owner # None
                            => task'[t].owner = task[t].owner]_vars
  BY StepKeeps DEF TickKept, Owners, KeepsOwner
<1> QED BY <1>1, Invariance, PTL DEF Spec, NoStolenClaim

(* The tick takes a task from its agent only if its lease has run out.     *)
THEOREM LiveLeasesAreSpared == Spec => TickSparesLiveLeases
<1>1. IInv /\ [Next]_vars =>
        [\A t \in Tasks :
           tick' # tick /\ task[t].status = "in_progress"
                        /\ task'[t].status # "in_progress"
           => task[t].lease # NoLease /\ task[t].lease < now]_vars
  BY StepKeeps DEF TickKept, Spares
<1> QED BY <1>1, Invariance, PTL DEF Spec, TickSparesLiveLeases

(* The tick makes a task ready only when every dependency it then has has  *)
(* been completed, though it read them some steps before.                  *)
THEOREM DependenciesAreAwaited == Spec => TickWaitsForDeps
<1>1. IInv /\ [Next]_vars =>
        [\A t \in Tasks :
           tick' # tick /\ task[t].status = "pending" /\ task'[t].status = "ready"
           => Range(task[t].deps) \subseteq finished]_vars
  BY StepKeeps DEF TickKept, Waits
<1> QED BY <1>1, Invariance, PTL DEF Spec, TickWaitsForDeps

-----------------------------------------------------------------------------
(***************************************************************************)
(* The board of atomic operations.  Each step of TaskStore that writes a   *)
(* row writes it as TaskBoard does, guard and all, because the row that    *)
(* was decided on is the one that is there.                                *)
(***************************************************************************)
Rows == [t \in Tasks |-> RowOf(task[t])]

LEMMA RowFields ==
    ASSUME NEW r
    PROVE  /\ RowOf(r).status = r.status /\ RowOf(r).owner = r.owner
           /\ RowOf(r).lease = r.lease /\ RowOf(r).deps = r.deps /\ RowOf(r).seq = r.seq
BY DEF RowOf

LEMMA RowsPut ==
    ASSUME IInv, NEW t \in Tasks, NEW r, task' = [task EXCEPT ![t] = r]
    PROVE  Rows' = [Rows EXCEPT ![t] = RowOf(r)] /\ Rows[t] = RowOf(task[t])
<1>1. task \in [Tasks -> TaskRow] BY DEF IInv, Table
<1>2. \A u \in Tasks : task'[u] = IF u = t THEN r ELSE task[u] BY <1>1
<1>3. \A u \in Tasks : RowOf(task'[u]) = IF u = t THEN RowOf(r) ELSE RowOf(task[u])
  BY <1>2
<1> QED BY <1>3 DEF Rows

(* What a call puts in the place of the row it read. *)
LEMMA PutsRow ==
    ASSUME IInv, NEW c \in Callers, Writes(c), NEW r, task' = [task EXCEPT ![call[c].id] = r]
    PROVE  /\ Board!Put(call[c].id, RowOf(r)) /\ call[c].id \in Tasks
           /\ Rows[call[c].id] = RowOf(call[c].seen) /\ call[c].seen \in TaskRow
           /\ call[c].seen.status \in Statuses
<1>1. /\ call[c].id \in Tasks /\ task[call[c].id] = call[c].seen /\ Exists(call[c].id)
      /\ call[c].seen \in TaskRow
  BY HeldIsCurrent
<1>2. Rows' = [Rows EXCEPT ![call[c].id] = RowOf(r)] /\ Rows[call[c].id] = RowOf(call[c].seen)
  BY <1>1, RowsPut
<1>3. now' = now BY DEF Writes
<1> QED BY <1>1, <1>2, <1>3 DEF Board!Put, Rows, Exists

LEMMA MovedIsSeen ==
    ASSUME NEW row \in TaskRow, NEW to, NEW v
    PROVE  /\ RowOf(MovedRow(row, to, v)) = [RowOf(row) EXCEPT !.status = to]
           /\ RowOf(FreedRow(row, to, v)) = Board!Row(to, None, NoLease, row.deps, row.seq)
<1> DEFINE m == MovedRow(row, to, v)
           f == FreedRow(row, to, v)
<1>1. m.status = to /\ m.owner = row.owner /\ m.lease = row.lease /\ m.deps = row.deps
        /\ m.seq = row.seq
  BY DEF MovedRow, TaskRow
<1>2. f.status = to /\ f.owner = None /\ f.lease = NoLease /\ f.deps = row.deps
        /\ f.seq = row.seq
  BY DEF FreedRow, TaskRow
<1> HIDE DEF m, f
<1>3. RowOf(m) = [RowOf(row) EXCEPT !.status = to] BY <1>1 DEF RowOf
<1>4. RowOf(f) = Board!Row(to, None, NoLease, row.deps, row.seq) BY <1>2 DEF RowOf, Board!Row
<1> QED BY <1>3, <1>4 DEF m, f

LEMMA TransitionsAgree ==
    ASSUME NEW from \in Statuses, NEW to \in Statuses, CanTransition(from, to)
    PROVE  from \in Board!Before(to) /\ to # "draft"
BY DEF Statuses, CanTransition, Board!Before

LEMMA BoardMoves ==
    ASSUME IInv, NEW c \in Callers, Writes(c), NEW to,
           task' = Moved(call[c].id, call[c].seen, to)
    PROVE  /\ Board!Put(call[c].id, [Rows[call[c].id] EXCEPT !.status = to])
           /\ to \in Statuses /\ CanTransition(call[c].seen.status, to) =>
                 Rows[call[c].id].status \in Board!Before(to)
<1> DEFINE t == call[c].id
           v == call[c].seen.version + 1
<1>1. t \in Tasks /\ task[t] = call[c].seen /\ task[t] \in TaskRow BY HeldIsCurrent
<1>2. task' = [task EXCEPT ![t] = MovedRow(task[t], to, v)] BY <1>1 DEF Moved, MovedRow
<1> HIDE DEF v
<1>3. /\ Board!Put(t, RowOf(MovedRow(task[t], to, v)))
      /\ Rows[t] = RowOf(call[c].seen) /\ call[c].seen.status \in Statuses
  BY <1>2, PutsRow
<1>4. RowOf(MovedRow(task[t], to, v)) = [RowOf(task[t]) EXCEPT !.status = to]
  BY <1>1, MovedIsSeen
<1>5. Rows[t].status = call[c].seen.status BY <1>3, RowFields
<1> QED BY <1>1, <1>3, <1>4, <1>5, TransitionsAgree

LEMMA BoardFrees ==
    ASSUME IInv, NEW c \in Callers, Writes(c), NEW to,
           task' = Freed(call[c].id, call[c].seen, to)
    PROVE  /\ Board!Put(call[c].id, Board!Freed(call[c].id, to))
           /\ to \in Statuses /\ CanTransition(call[c].seen.status, to) =>
                 Rows[call[c].id].status \in Board!Before(to)
<1> DEFINE t == call[c].id
           v == call[c].seen.version + 1
<1>1. t \in Tasks /\ task[t] = call[c].seen /\ task[t] \in TaskRow BY HeldIsCurrent
<1>2. task' = [task EXCEPT ![t] = FreedRow(task[t], to, v)] BY <1>1 DEF Freed, FreedRow
<1> HIDE DEF v
<1>3. /\ Board!Put(t, RowOf(FreedRow(task[t], to, v)))
      /\ Rows[t] = RowOf(call[c].seen) /\ call[c].seen.status \in Statuses
  BY <1>2, PutsRow
<1>4. RowOf(FreedRow(task[t], to, v)) = Board!Row(to, None, NoLease, task[t].deps, task[t].seq)
  BY <1>1, MovedIsSeen
<1>5. Board!Freed(t, to) = Board!Row(to, None, NoLease, task[t].deps, task[t].seq)
  <2>1. Rows[t].deps = task[t].deps /\ Rows[t].seq = task[t].seq BY <1>1, <1>3, RowFields
  <2> QED BY <2>1 DEF Board!Freed, Board!NoLease, NoLease, Rows
<1>6. Rows[t].status = call[c].seen.status BY <1>3, RowFields
<1> QED BY <1>1, <1>3, <1>4, <1>5, <1>6, TransitionsAgree

LEMMA PublishIsAtomic ==
    ASSUME IInv, NEW c \in Callers, Publish(c)
    PROVE  Board!Publish(call[c].id)
<1> DEFINE to == IF call[c].seen.deps # <<>> THEN "pending" ELSE "ready"
           t == call[c].id
<1>1. /\ Writes(c) /\ to \in Statuses /\ UNCHANGED finished
      /\ task' = Moved(t, call[c].seen, to) /\ CanTransition(call[c].seen.status, to)
  BY DEF Publish, Plain, Statuses, Allowed
<1>2. Rows[t] = RowOf(call[c].seen)
  <2>1. t \in Tasks /\ task[t] = call[c].seen BY <1>1, HeldIsCurrent
  <2> QED BY <2>1 DEF Rows
<1>3. to = IF Rows[t].deps # <<>> THEN "pending" ELSE "ready" BY <1>2, RowFields
<1> HIDE DEF to
<1>4. Board!Put(t, [Rows[t] EXCEPT !.status = to]) /\ Rows[t].status \in Board!Before(to)
  BY <1>1, BoardMoves
<1>5. Board!Move(t, to) BY <1>1, <1>4 DEF Board!Move, Rows
<1> QED BY <1>3, <1>5 DEF Board!Publish, Rows

LEMMA BlockIsAtomic ==
    ASSUME IInv, NEW c \in Callers, Block(c)
    PROVE  Board!Block(call[c].id)
<1>1. /\ Writes(c) /\ "blocked" \in Statuses /\ UNCHANGED finished
      /\ task' = Moved(call[c].id, call[c].seen, "blocked")
      /\ CanTransition(call[c].seen.status, "blocked")
  BY DEF Block, Plain, Statuses, Allowed
<1>2. /\ Board!Put(call[c].id, [Rows[call[c].id] EXCEPT !.status = "blocked"])
      /\ Rows[call[c].id].status \in Board!Before("blocked")
  BY <1>1, BoardMoves
<1> QED BY <1>1, <1>2 DEF Board!Block, Board!Move, Rows

LEMMA FreeingIsAtomic ==
    ASSUME IInv, NEW c \in Callers
    PROVE  /\ Complete(c) => Board!Free(call[c].id, "completed")
           /\ Fail(c) => Board!Free(call[c].id, "failed")
           /\ Unblock(c) \/ Release(c) => Board!Free(call[c].id, "ready")
           /\ Release(c) => Board!Release(call[c].id)
<1>1. ASSUME NEW to \in Statuses, Writes(c), task' = Freed(call[c].id, call[c].seen, to),
             CanTransition(call[c].seen.status, to),
             finished' = IF to = "completed" THEN finished \cup {call[c].id} ELSE finished
      PROVE  Board!Free(call[c].id, to)
  <2>1. /\ Board!Put(call[c].id, Board!Freed(call[c].id, to))
        /\ Rows[call[c].id].status \in Board!Before(to)
    BY <1>1, BoardFrees
  <2> QED BY <1>1, <2>1 DEF Board!Free, Rows
<1>2. {"completed", "failed", "ready"} \subseteq Statuses BY DEF Statuses
<1>3. Complete(c) => Board!Free(call[c].id, "completed")
  BY <1>1, <1>2 DEF Complete, Plain, Allowed
<1>4. Fail(c) => Board!Free(call[c].id, "failed")
  BY <1>1, <1>2 DEF Fail, Plain, Allowed
<1>5. Unblock(c) \/ Release(c) => Board!Free(call[c].id, "ready")
  BY <1>1, <1>2 DEF Unblock, Release, Plain, Allowed
<1>6. ASSUME Release(c) PROVE Board!Release(call[c].id)
  <2>1. /\ Writes(c) /\ call[c].seen.status = "in_progress" BY <1>6 DEF Release, Plain
  <2>2. call[c].id \in Tasks /\ task[call[c].id] = call[c].seen BY <2>1, HeldIsCurrent
  <2>3. Rows[call[c].id].status = "in_progress" BY <2>1, <2>2, RowFields DEF Rows
  <2> QED BY <1>5, <1>6, <2>3 DEF Board!Release, Rows
<1> QED BY <1>3, <1>4, <1>5, <1>6

LEMMA RenewIsAtomic ==
    ASSUME IInv, NEW c \in Callers, NEW ttl \in Ttls \ {NoLease}, Renew(c, ttl)
    PROVE  Board!Renew(call[c].id, ttl)
<1> DEFINE t == call[c].id
           v == call[c].seen.version + 1
           lease == now + ttl
<1>1. /\ Writes(c) /\ UNCHANGED finished
      /\ call[c].seen.status = "in_progress" /\ call[c].seen.owner # None
      /\ call[c].seen.lease # NoLease => call[c].seen.lease >= now
      /\ task' = [task EXCEPT ![t].lease = lease, ![t].version = v]
  BY DEF Renew, Plain
<1>2. t \in Tasks /\ task[t] = call[c].seen /\ task[t] \in TaskRow BY <1>1, HeldIsCurrent
<1> HIDE DEF v, lease
<1>3. PICK row \in TaskRow : row = task[t] BY <1>2
<1> DEFINE r == [row EXCEPT !.lease = lease, !.version = v]
<1>4. task' = [task EXCEPT ![t] = r] BY <1>1, <1>3
<1>5. RowOf(r) = [RowOf(row) EXCEPT !.lease = lease]
  <2>1. /\ r.status = row.status /\ r.owner = row.owner /\ r.lease = lease
        /\ r.deps = row.deps /\ r.seq = row.seq
    BY DEF TaskRow
  <2> HIDE DEF r
  <2> QED BY <2>1 DEF RowOf
<1> HIDE DEF r
<1>6. Board!Put(t, RowOf(r)) /\ Rows[t] = RowOf(row) BY <1>1, <1>2, <1>3, <1>4, PutsRow
<1>7. /\ Rows[t].status = "in_progress" /\ Rows[t].owner # None
      /\ Rows[t].lease # NoLease => Rows[t].lease >= now
  BY <1>1, <1>2, <1>3, <1>6, RowFields
<1> QED BY <1>1, <1>5, <1>6, <1>7 DEF Board!Renew, Board!NoLease, NoLease, Rows, lease

LEMMA SetDepsIsAtomic ==
    ASSUME IInv, NEW c \in Callers, NEW deps, UpdateDeps(c, deps)
    PROVE  Board!SetDeps(call[c].id, deps)
<1> DEFINE t == call[c].id
           v == call[c].seen.version + 1
<1>1. /\ Writes(c) /\ UNCHANGED finished
      /\ task' = [task EXCEPT ![t].deps = deps, ![t].version = v]
  BY DEF UpdateDeps, Plain
<1>2. t \in Tasks /\ task[t] = call[c].seen /\ task[t] \in TaskRow BY <1>1, HeldIsCurrent
<1> HIDE DEF v
<1>3. PICK row \in TaskRow : row = task[t] BY <1>2
<1> DEFINE r == [row EXCEPT !.deps = deps, !.version = v]
<1>4. task' = [task EXCEPT ![t] = r] BY <1>1, <1>3
<1>5. RowOf(r) = [RowOf(row) EXCEPT !.deps = deps]
  <2>1. /\ r.status = row.status /\ r.owner = row.owner /\ r.lease = row.lease
        /\ r.deps = deps /\ r.seq = row.seq
    BY DEF TaskRow
  <2> HIDE DEF r
  <2> QED BY <2>1 DEF RowOf
<1> HIDE DEF r
<1>6. /\ Board!Put(t, RowOf(r)) /\ Rows[t] = RowOf(row)
      /\ call[c].seen.status \in Statuses
  BY <1>1, <1>2, <1>3, <1>4, PutsRow
<1>7. Rows[t].status \in Statuses BY <1>2, <1>3, <1>6, RowFields
<1> QED BY <1>1, <1>5, <1>6, <1>7 DEF Board!SetDeps, Board!Exists, Board!Statuses, Statuses, Rows

LEMMA SetStatusIsAtomic ==
    ASSUME IInv, NEW c \in Callers, NEW to, UpdateStatus(c, to)
    PROVE  Board!SetStatus(call[c].id, to)
<1> DEFINE t == call[c].id
<1>1. /\ Writes(c) /\ to # call[c].seen.status
      /\ task' = IF call[c].seen.status = "in_progress" THEN Freed(t, call[c].seen, to)
                 ELSE Moved(t, call[c].seen, to)
      /\ finished' = IF to = "completed" THEN finished \cup {t} ELSE finished
  BY DEF UpdateStatus, Plain
<1>2. /\ t \in Tasks /\ task[t] = call[c].seen /\ Exists(t) BY <1>1, HeldIsCurrent
<1>3. Rows[t].status = call[c].seen.status /\ call[c].seen.status \in Statuses
  BY <1>2, RowFields DEF Rows, Exists
<1>4. Board!Put(t, IF Rows[t].status = "in_progress" THEN Board!Freed(t, to)
                   ELSE [Rows[t] EXCEPT !.status = to])
  <2>1. CASE call[c].seen.status = "in_progress" BY <2>1, <1>1, <1>3, BoardFrees
  <2>2. CASE call[c].seen.status # "in_progress" BY <2>2, <1>1, <1>3, BoardMoves
  <2> QED BY <2>1, <2>2
<1> QED BY <1>1, <1>3, <1>4 DEF Board!SetStatus, Board!Exists, Board!Statuses, Statuses, Rows

LEMMA ClaimIsAtomic ==
    ASSUME IInv, NEW c \in Callers, NEW a, NEW ttl, Claim(c, a, ttl)
    PROVE  Board!Claim(call[c].id, a, ttl)
<1> DEFINE t == call[c].id
           v == call[c].seen.version + 1
           lease == IF ttl = NoLease THEN NoLease ELSE now + ttl
<1>1. /\ Writes(c) /\ UNCHANGED finished /\ call[c].seen.owner = None
      /\ CanTransition(call[c].seen.status, "in_progress")
      /\ task' = [task EXCEPT ![t].status = "in_progress", ![t].owner = a,
                              ![t].lease = lease, ![t].version = v]
  BY DEF Claim, Allowed
<1>2. t \in Tasks /\ task[t] = call[c].seen /\ task[t] \in TaskRow BY <1>1, HeldIsCurrent
<1> HIDE DEF v, lease
<1>3. PICK row \in TaskRow : row = task[t] BY <1>2
<1> DEFINE r == [row EXCEPT !.status = "in_progress", !.owner = a,
                            !.lease = lease, !.version = v]
<1>4. task' = [task EXCEPT ![t] = r] BY <1>1, <1>3
<1>5. RowOf(r) = Board!Row("in_progress", a, lease, row.deps, row.seq)
  <2>1. /\ r.status = "in_progress" /\ r.owner = a /\ r.lease = lease
        /\ r.deps = row.deps /\ r.seq = row.seq
    BY DEF TaskRow
  <2> HIDE DEF r
  <2> QED BY <2>1 DEF RowOf, Board!Row
<1> HIDE DEF r
<1>6. /\ Board!Put(t, RowOf(r)) /\ Rows[t] = RowOf(row)
      /\ call[c].seen.status \in Statuses
  BY <1>1, <1>2, <1>3, <1>4, PutsRow
<1>7. /\ Rows[t].status = call[c].seen.status /\ Rows[t].owner = None
      /\ Rows[t].deps = row.deps /\ Rows[t].seq = row.seq
  BY <1>1, <1>2, <1>3, <1>6, RowFields
<1>8. Rows[t].status \in Board!Before("in_progress")
  <2>1. "in_progress" \in Statuses BY DEF Statuses
  <2> QED BY <2>1, <1>1, <1>6, <1>7, TransitionsAgree
<1> QED BY <1>1, <1>5, <1>6, <1>7, <1>8 DEF Board!Claim, Board!NoLease, NoLease, Rows, lease

LEMMA CreateIsAtomic ==
    ASSUME IInv, NEW c \in Callers, NEW status \in {"draft", "ready"},
           NEW deps, Create(c, status, deps)
    PROVE  Board!Create(call[c].id, call[c].seen.seq, status, deps) /\ call[c].seen.seq \in Nat
<1> DEFINE to == IF status = "ready" /\ deps # <<>> THEN "pending" ELSE status
<1>0. PICK t \in Tasks, n \in Nat : t = call[c].id /\ n = call[c].seen.seq
  BY DEF Create, IInv, Calls, CallGood, CallRecord, TaskRow
<1> DEFINE r == [NoTask EXCEPT !.status = to, !.deps = deps, !.seq = n, !.version = 1]
<1>1. /\ CallGood(call[c]) /\ call[c].phase = "numbered" /\ UNCHANGED <<now, finished>>
      /\ task' = [task EXCEPT ![t] = r]
  BY <1>0 DEF Create, IInv, Calls
<1>2. /\ task[t] = NoTask /\ n >= 1 /\ \A u \in Tasks : Exists(u) => task[u].seq # n
  BY <1>0, <1>1 DEF CallGood
<1>3. RowOf(r) = Board!Row(to, None, NoLease, deps, n)
  <2>1. /\ r.status = to /\ r.owner = None /\ r.lease = NoLease /\ r.deps = deps /\ r.seq = n
    BY DEF NoTask
  <2> HIDE DEF r, to
  <2> QED BY <2>1 DEF RowOf, Board!Row
<1> HIDE DEF r
<1>4. Rows' = [Rows EXCEPT ![t] = RowOf(r)] /\ Rows[t] = RowOf(NoTask)
  BY <1>1, <1>2, RowsPut
<1>5. RowOf(NoTask) = Board!Blank
  BY DEF RowOf, NoTask, Board!Blank, Board!Row, Board!NoLease, NoLease
<1>6. \A u \in Tasks : Rows[u].seq # n
  <2> TAKE u \in Tasks
  <2>1. Rows[u].seq = task[u].seq BY RowFields DEF Rows
  <2>2. CASE Exists(u) BY <2>1, <2>2, <1>2
  <2>3. CASE ~ Exists(u)
    <3>1. task[u] \in {NoTask, [NoTask EXCEPT !.status = "deleted"]}
      BY <2>3 DEF IInv, Table, RowGood
    <3>2. task[u].seq = 0 BY <3>1 DEF NoTask
    <3> QED BY <3>2, <2>1, <1>2
  <2> QED BY <2>2, <2>3
<1>7. n > 0 BY <1>2
<1>8. Board!Create(t, n, status, deps)
  BY <1>1, <1>3, <1>4, <1>5, <1>6, <1>7
     DEF Board!Create, Board!Put, Board!NoLease, NoLease, Rows, to
<1> QED BY <1>0, <1>8

LEMMA DeleteIsAtomic ==
    ASSUME IInv, NEW c \in Callers, Delete(c)
    PROVE  Board!Delete(call[c].id) /\ call[c].id \in Tasks
<1> DEFINE gone == [NoTask EXCEPT !.status = "deleted"]
<1>0. PICK t \in Tasks, seen \in TaskRow : t = call[c].id /\ seen = call[c].seen
  BY DEF Delete, IInv, Calls, CallGood, CallRecord
<1>1. /\ UNCHANGED <<now, finished>> /\ Snap(t, seen) /\ task' = [task EXCEPT ![t] = gone]
  BY <1>0 DEF Delete, IInv, Calls, CallGood
<1>2. task[t].status # "absent"
  <2>1. RowGood(t) BY DEF IInv, Table
  <2>2. CASE Exists(t) BY <2>2 DEF Exists, Statuses
  <2>3. CASE ~ Exists(t)
    <3>1. task[t] # NoTask BY <1>1 DEF Snap, NoTask, TaskRow
    <3>2. task[t] = gone BY <3>1, <2>1, <2>3 DEF RowGood
    <3> QED BY <3>2 DEF NoTask
  <2> QED BY <2>2, <2>3
<1>3. RowOf(gone) = Board!Row("deleted", None, NoLease, <<>>, 0)
  BY DEF RowOf, NoTask, Board!Row
<1> HIDE DEF gone
<1>4. Rows' = [Rows EXCEPT ![t] = RowOf(gone)] /\ Rows[t] = RowOf(task[t])
  BY <1>1, RowsPut
<1>5. Rows[t] # Board!Blank
  <2>1. Rows[t].status # "absent" BY <1>2, <1>4, RowFields
  <2>2. Board!Blank.status = "absent" BY DEF Board!Blank, Board!Row
  <2> QED BY <2>1, <2>2
<1>6. Board!Delete(t)
  BY <1>1, <1>3, <1>4, <1>5 DEF Board!Delete, Board!Put, Board!NoLease, NoLease, Rows
<1> QED BY <1>0, <1>6

(* What the tick puts in the place of a row it listed. *)
LEMMA ExpireIsAtomic ==
    ASSUME IInv, NEW s \in tick.todo, ExpireStale(s), Swaps(s.id, s.seen)
    PROVE  Board!Expire(s.id) /\ s.id \in Tasks
<1>1. /\ tick.phase = "leases" /\ UNCHANGED <<now, finished>> /\ Entry(tick, s)
      /\ task' = Freed(s.id, s.seen, "ready")
  BY DEF ExpireStale, IInv, TickGood
<1>2. /\ s.seen.status = "in_progress" /\ s.seen.lease # NoLease /\ s.seen.lease < now
  BY <1>1 DEF Entry
<1>3. PICK t \in Tasks, row \in TaskRow : t = s.id /\ row = s.seen /\ task[t] = row
  BY <1>1, <1>2, ListedIsCurrent
<1> DEFINE v == row.version + 1
<1>4. task' = [task EXCEPT ![t] = FreedRow(row, "ready", v)] BY <1>1, <1>3 DEF Freed, FreedRow
<1> HIDE DEF v
<1>5. /\ Rows' = [Rows EXCEPT ![t] = RowOf(FreedRow(row, "ready", v))] /\ Rows[t] = RowOf(row)
  BY <1>3, <1>4, RowsPut
<1>6. RowOf(FreedRow(row, "ready", v)) = Board!Row("ready", None, NoLease, row.deps, row.seq)
  BY MovedIsSeen
<1>7. /\ Rows[t].status = "in_progress" /\ Rows[t].lease # NoLease /\ Rows[t].lease < now
      /\ Rows[t].deps = row.deps /\ Rows[t].seq = row.seq
  BY <1>2, <1>3, <1>5, RowFields
<1>8. Board!Expire(t)
  BY <1>1, <1>5, <1>6, <1>7
     DEF Board!Expire, Board!Freed, Board!Put, Board!NoLease, NoLease, Rows
<1> QED BY <1>3, <1>8

LEMMA MakeReadyIsAtomic ==
    ASSUME IInv, NEW s \in tick.todo, Reconcile(s), Swaps(s.id, s.seen)
    PROVE  Board!MakeReady(s.id) /\ s.id \in Tasks
<1>1. /\ tick.phase = "deps" /\ UNCHANGED <<now, finished>> /\ Entry(tick, s)
      /\ task' = Moved(s.id, s.seen, "ready") /\ tick.met = s.id
  BY DEF Reconcile, IInv, TickGood
<1>2. s.seen.status = "pending" /\ Range(s.seen.deps) \subseteq finished BY <1>1 DEF Entry
<1>3. PICK t \in Tasks, row \in TaskRow : t = s.id /\ row = s.seen /\ task[t] = row
  BY <1>1, <1>2, ListedIsCurrent
<1> DEFINE v == row.version + 1
<1>4. task' = [task EXCEPT ![t] = MovedRow(row, "ready", v)] BY <1>1, <1>3 DEF Moved, MovedRow
<1> HIDE DEF v
<1>5. /\ Rows' = [Rows EXCEPT ![t] = RowOf(MovedRow(row, "ready", v))] /\ Rows[t] = RowOf(row)
  BY <1>3, <1>4, RowsPut
<1>6. RowOf(MovedRow(row, "ready", v)) = [RowOf(row) EXCEPT !.status = "ready"]
  BY MovedIsSeen
<1>7. Rows[t].status = "pending" /\ Range(Rows[t].deps) \subseteq finished
  BY <1>2, <1>3, <1>5, RowFields
<1>8. Board!MakeReady(t)
  BY <1>1, <1>5, <1>6, <1>7 DEF Board!MakeReady, Board!Put, Board!Range, Range, Rows
<1> QED BY <1>3, <1>8

(* A context passed on changes nothing of a row but its version. *)
LEMMA ContextIsUnseen ==
    ASSUME IInv, NEW c \in Callers,
           UpdateContext(c) \/ \E p \in call[c].todo : PropagateContext(c, p[1], p[2])
    PROVE  UNCHANGED <<Rows, now, finished>>
<1>1. ASSUME NEW t, NEW v, task' = [task EXCEPT ![t].version = v]
      PROVE  Rows' = Rows
  <2>1. task \in [Tasks -> TaskRow] BY DEF IInv, Table
  <2>2. \A u \in Tasks : RowOf(task'[u]) = RowOf(task[u])
    BY <1>1, <2>1 DEF RowOf, TaskRow
  <2> QED BY <2>2 DEF Rows
<1>2. CASE UpdateContext(c) BY <1>1, <1>2 DEF UpdateContext, Writes
<1>3. CASE \E p \in call[c].todo : PropagateContext(c, p[1], p[2])
  <2>1. PICK p \in call[c].todo : PropagateContext(c, p[1], p[2]) BY <1>3
  <2>2. UNCHANGED <<now, finished>> BY <2>1 DEF PropagateContext
  <2>3. CASE UNCHANGED task BY <2>2, <2>3 DEF Rows
  <2>4. CASE task' = [task EXCEPT ![p[1]].version = p[2] + 1] BY <2>2, <2>4, <1>1
  <2> QED BY <2>1, <2>3, <2>4 DEF PropagateContext
<1> QED BY <1>2, <1>3

(* Every call that writes does to the task as it is, at that moment, what   *)
(* it decided to do to the one it read, and what the tick does it does to   *)
(* tasks that are due then: a write that would not be so has lost the       *)
(* compare-and-swap on the version.                                         *)
THEOREM OperationsHappenAtOnce == Spec => OperationsAreAtomic
<1> DEFINE Atomic ==
      task' # task =>
       /\ \A c \in Callers, t \in Tasks : call'[c] # call[c] /\ t = call[c].id =>
             LET new == task'[t] IN
             /\ \A status \in {"draft", "ready"} :
                   Create(c, status, new.deps)
                      => Board!Create(t, call[c].seen.seq, status, new.deps)
             /\ Publish(c) => Board!Publish(t)
             /\ \A ttl \in Ttls : Claim(c, new.owner, ttl) => Board!Claim(t, new.owner, ttl)
             /\ Complete(c) => Board!Free(t, "completed")
             /\ Fail(c) => Board!Free(t, "failed")
             /\ Block(c) => Board!Block(t)
             /\ Unblock(c) => Board!Free(t, "ready")
             /\ Release(c) => Board!Release(t)
             /\ \A ttl \in Ttls \ {NoLease} : Renew(c, ttl) => Board!Renew(t, ttl)
             /\ UpdateStatus(c, new.status) => Board!SetStatus(t, new.status)
             /\ UpdateDeps(c, new.deps) => Board!SetDeps(t, new.deps)
             /\ Delete(c) => Board!Delete(t)
       /\ \A s \in tick.todo : tick' # tick =>
             /\ ExpireStale(s) => Board!Expire(s.id)
             /\ Reconcile(s) => Board!MakeReady(s.id)
<1>1. ASSUME IInv, task' # task PROVE Atomic
  <2>1. ASSUME NEW s \in tick.todo
        PROVE  /\ ExpireStale(s) => Board!Expire(s.id)
               /\ Reconcile(s) => Board!MakeReady(s.id)
    <3>1. ASSUME ExpireStale(s) PROVE Board!Expire(s.id)
      <4>1. Swaps(s.id, s.seen) BY <1>1, <3>1 DEF ExpireStale
      <4> QED BY <1>1, <3>1, <4>1, ExpireIsAtomic
    <3>2. ASSUME Reconcile(s) PROVE Board!MakeReady(s.id)
      <4>1. Swaps(s.id, s.seen) BY <1>1, <3>2 DEF Reconcile
      <4> QED BY <1>1, <3>2, <4>1, MakeReadyIsAtomic
    <3> QED BY <3>1, <3>2
  <2>2. ASSUME NEW c \in Callers, NEW t \in Tasks, t = call[c].id, NEW new
        PROVE  /\ \A status \in {"draft", "ready"} :
                     Create(c, status, new.deps)
                        => Board!Create(t, call[c].seen.seq, status, new.deps)
               /\ Publish(c) => Board!Publish(t)
               /\ \A ttl \in Ttls : Claim(c, new.owner, ttl) => Board!Claim(t, new.owner, ttl)
               /\ Complete(c) => Board!Free(t, "completed")
               /\ Fail(c) => Board!Free(t, "failed")
               /\ Block(c) => Board!Block(t)
               /\ Unblock(c) => Board!Free(t, "ready")
               /\ Release(c) => Board!Release(t)
               /\ \A ttl \in Ttls \ {NoLease} : Renew(c, ttl) => Board!Renew(t, ttl)
               /\ UpdateStatus(c, new.status) => Board!SetStatus(t, new.status)
               /\ UpdateDeps(c, new.deps) => Board!SetDeps(t, new.deps)
               /\ Delete(c) => Board!Delete(t)
    <3>1. \A status \in {"draft", "ready"} :
             Create(c, status, new.deps)
                => Board!Create(t, call[c].seen.seq, status, new.deps)
      BY <1>1, <2>2, CreateIsAtomic
    <3>2. Publish(c) => Board!Publish(t) BY <1>1, <2>2, PublishIsAtomic
    <3>3. \A ttl \in Ttls : Claim(c, new.owner, ttl) => Board!Claim(t, new.owner, ttl)
      BY <1>1, <2>2, ClaimIsAtomic
    <3>4. /\ Complete(c) => Board!Free(t, "completed")
          /\ Fail(c) => Board!Free(t, "failed")
          /\ Unblock(c) => Board!Free(t, "ready")
          /\ Release(c) => Board!Release(t)
      BY <1>1, <2>2, FreeingIsAtomic
    <3>5. Block(c) => Board!Block(t) BY <1>1, <2>2, BlockIsAtomic
    <3>6. \A ttl \in Ttls \ {NoLease} : Renew(c, ttl) => Board!Renew(t, ttl)
      BY <1>1, <2>2, RenewIsAtomic
    <3>7. UpdateStatus(c, new.status) => Board!SetStatus(t, new.status)
      BY <1>1, <2>2, SetStatusIsAtomic
    <3>8. UpdateDeps(c, new.deps) => Board!SetDeps(t, new.deps)
      BY <1>1, <2>2, SetDepsIsAtomic
    <3>9. Delete(c) => Board!Delete(t) BY <1>1, <2>2, DeleteIsAtomic
    <3> QED BY <3>1, <3>2, <3>3, <3>4, <3>5, <3>6, <3>7, <3>8, <3>9
  <2> QED BY <2>1, <2>2
<1>2. IInv => [Atomic]_vars BY <1>1
<1> HIDE DEF Atomic
<1>3. []IInv => [][Atomic]_vars BY <1>2, PTL
<1> USE DEF Atomic
<1> QED BY <1>3, Invariance, PTL DEF OperationsAreAtomic

LEMMA OperationMapsToBoard ==
    ASSUME IInv, NEW c \in Callers, Operation(c)
    PROVE  Board!Next \/ UNCHANGED <<Rows, now, finished>>
<1> DEFINE t == call[c].id
<1>0. ASSUME Plain(c) \/ \E a \in Agents, ttl \in Ttls : Claim(c, a, ttl)
      PROVE  t \in Tasks
  <2>1. Writes(c) BY <1>0 DEF Plain, Claim
  <2> QED BY <2>1, HeldIsCurrent
<1>1. CASE \E u \in Tasks : Read(c, u) BY <1>1 DEF Read, Rows
<1>2. CASE ReadProject(c) BY <1>2 DEF ReadProject, Rows
<1>3. CASE \E u \in Tasks : TakeNumber(c, u) BY <1>3 DEF TakeNumber, Rows
<1>4. CASE \E u \in Tasks : \E d \in DepChoices[u] :
             call[c].id = u /\ UpdateDeps(c, d)
  <2>1. PICK u \in Tasks : \E d \in DepChoices[u] : call[c].id = u /\ UpdateDeps(c, d)
    BY <1>4
  <2>2. PICK d \in DepChoices[u] : call[c].id = u /\ UpdateDeps(c, d) BY <2>1
  <2>3. d \in DepLists /\ d \in Seq(Tasks) BY BoardAssumption DEF DepLists
  <2>4. Board!SetDeps(u, d) BY <2>2, <2>3, SetDepsIsAtomic
  <2> QED BY <2>3, <2>4 DEF Board!Next
<1>5. CASE \E u \in Tasks : \E d \in DepChoices[u] :
             call[c].id = u /\ \E st \in {"draft", "ready"} : Create(c, st, d)
  <2>1. PICK u \in Tasks : \E d \in DepChoices[u] :
          call[c].id = u /\ \E st \in {"draft", "ready"} : Create(c, st, d)
    BY <1>5
  <2>2. PICK d \in DepChoices[u] :
          call[c].id = u /\ \E st \in {"draft", "ready"} : Create(c, st, d)
    BY <2>1
  <2>3. PICK st \in {"draft", "ready"} : Create(c, st, d) BY <2>2
  <2>4. d \in DepLists /\ d \in Seq(Tasks) BY BoardAssumption DEF DepLists
  <2>5. Board!Create(u, call[c].seen.seq, st, d) /\ call[c].seen.seq \in Nat
    BY <2>2, <2>3, <2>4, CreateIsAtomic
  <2> QED BY <2>4, <2>5 DEF Board!Next
<1>6. CASE Refused(c) \/ ContextDone(c) \/ SubtasksDone(c) \/ ListSubtasks(c) \/ SkipSubtask(c)
  BY <1>6 DEF Refused, ContextDone, SubtasksDone, ListSubtasks, SkipSubtask, Rows
<1>7. CASE Publish(c)
  BY <1>0, <1>7, PublishIsAtomic DEF Publish, Board!Next
<1>8. CASE \E a \in Agents, ttl \in Ttls : Claim(c, a, ttl)
  BY <1>0, <1>8, ClaimIsAtomic DEF Board!Next
<1>9. CASE Complete(c) \/ Fail(c) \/ Unblock(c) \/ Release(c)
  <2>1. t \in Tasks BY <1>0, <1>9 DEF Complete, Fail, Unblock, Release
  <2>2. \E to \in {"completed", "failed", "ready"} : Board!Free(t, to)
    BY <1>9, FreeingIsAtomic
  <2> QED BY <2>1, <2>2 DEF Board!Next
<1>10. CASE Block(c) BY <1>0, <1>10, BlockIsAtomic DEF Block, Board!Next
<1>11. CASE \E ttl \in Ttls \ {NoLease} : Renew(c, ttl)
  BY <1>0, <1>11, RenewIsAtomic DEF Renew, Board!Next, Board!NoLease, NoLease
<1>12. CASE \E st \in Statuses : UpdateStatus(c, st)
  BY <1>0, <1>12, SetStatusIsAtomic
     DEF UpdateStatus, Board!Next, Board!Statuses, Statuses
<1>13. CASE UpdateContext(c) \/ \E p \in call[c].todo : PropagateContext(c, p[1], p[2])
  BY <1>13, ContextIsUnseen
<1>14. CASE \E p \in call[c].todo : ReadSubtask(c, p[1], p[2])
  BY <1>14 DEF ReadSubtask, Rows
<1>15. CASE Delete(c) BY <1>15, DeleteIsAtomic DEF Board!Next
<1> QED
  BY <1>1, <1>2, <1>3, <1>4, <1>5, <1>6, <1>7, <1>8, <1>9, <1>10, <1>11, <1>12, <1>13,
     <1>14, <1>15 DEF Operation

LEMMA TickMapsToBoard ==
    ASSUME IInv, Tick
    PROVE  Board!Next \/ UNCHANGED <<Rows, now, finished>>
<1>1. CASE TickStart \/ ListPending \/ TickDone \/ \E s \in tick.todo : ReadDeps(s)
  BY <1>1 DEF TickStart, ListPending, TickDone, ReadDeps, Rows
<1>2. CASE \E s \in tick.todo : ExpireStale(s)
  <2>1. PICK s \in tick.todo : ExpireStale(s) BY <1>2
  <2>2. CASE Swaps(s.id, s.seen) BY <2>1, <2>2, ExpireIsAtomic DEF Board!Next
  <2>3. CASE ~ Swaps(s.id, s.seen) BY <2>1, <2>3 DEF ExpireStale, Rows
  <2> QED BY <2>2, <2>3
<1>3. CASE \E s \in tick.todo : Reconcile(s)
  <2>1. PICK s \in tick.todo : Reconcile(s) BY <1>3
  <2>2. CASE Swaps(s.id, s.seen) BY <2>1, <2>2, MakeReadyIsAtomic DEF Board!Next
  <2>3. CASE ~ Swaps(s.id, s.seen) BY <2>1, <2>3 DEF Reconcile, Rows
  <2> QED BY <2>2, <2>3
<1> QED BY <1>1, <1>2, <1>3 DEF Tick

(* The task board with its awaits, snapshots, versions, conflicts and        *)
(* restarts implements the board whose operations happen at one moment:      *)
(* whoever sees the rows cannot tell that a call read, waited and then swapped. *)
THEOREM BoardIsImplemented == Spec => Board!Spec
<1>1. Init => Board!Init
  <2> SUFFICES ASSUME Init PROVE Board!Init
    OBVIOUS
  <2>1. RowOf(NoTask) = Board!Blank
    BY DEF RowOf, NoTask, Board!Blank, Board!Row, Board!NoLease, NoLease
  <2>2. \A u \in Tasks : RowOf(task[u]) = Board!Blank BY <2>1 DEF Init
  <2> QED BY <2>2 DEF Init, Board!Init
<1>2. IInv /\ [Next]_vars => [Board!Next]_(Board!vars)
  <2> SUFFICES ASSUME IInv, [Next]_vars
               PROVE  Board!Next \/ UNCHANGED <<Rows, now, finished>>
    BY DEF Board!vars, Rows
  <2>1. CASE \E c \in Callers : Operation(c) BY <2>1, OperationMapsToBoard
  <2>2. CASE Tick BY <2>2, TickMapsToBoard
  <2>3. CASE Clock \/ Restart
    <3>1. Board!Elapse BY <2>3 DEF Clock, Restart, Board!Elapse
    <3> QED BY <3>1 DEF Board!Next
  <2>4. CASE UNCHANGED vars BY <2>4 DEF vars, Rows
  <2> QED BY <2>1, <2>2, <2>3, <2>4 DEF Next
<1> QED BY <1>1, <1>2, Invariance, PTL DEF Spec, Board!Spec
=============================================================================
