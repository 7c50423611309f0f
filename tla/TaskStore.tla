----------------------------- MODULE TaskStore -----------------------------
(***************************************************************************)
(* packages/tasks: the shared task board agents claim work from, over the  *)
(* compare-and-swap storage of electron/domains/tasks.                     *)
(*                                                                         *)
(* Every operation is async: it reads a task, awaits, and then, in one     *)
(* synchronous stretch, checks its guard on what it READ and writes under  *)
(* WHERE version = <the version read>.  So a call is two steps, Read and   *)
(* the operation itself, with other calls and the ten-second tick between. *)
(* Titles, labels, learnings and events are not told apart.                *)
(***************************************************************************)
EXTENDS Integers, Sequences, FiniteSets, Functions

CONSTANTS Tasks,       \* task ids; an id is given out once
          Agents,
          Callers,     \* API calls that may be in flight together
          ParentOf,    \* [Tasks -> Tasks \cup {None}]; no update changes it
          DepChoices,  \* [Tasks -> dependsOn lists callers give]
          Ttls,        \* lease lengths; NoLease is a claim without expiry
          AutoClaim,   \* project.config.autoClaimSubtasks
          None,
          MaxVersion,  \* [Tasks -> Nat \ {0}], bound: API calls read below, write up to it
          MaxVersions, \* bound: ... while it and any other's add up to less
          MaxClock     \* bound: ticks of Date.now

NoLease == -1

ASSUME BoardAssumption ==
    /\ None \notin Tasks /\ None \notin Agents
    /\ ParentOf \in [Tasks -> Tasks \cup {None}]
    /\ DepChoices \in [Tasks -> SUBSET Seq(Tasks)]
    /\ Ttls \subseteq Nat \cup {NoLease}
    /\ AutoClaim \in BOOLEAN
    /\ MaxVersion \in [Tasks -> Nat \ {0}] /\ {MaxVersions, MaxClock} \subseteq Nat

VARIABLES task,      \* table tasks
          counter,   \* task_projects.sequence_counter, and its version
          call,      \* what each API call holds
          tick,      \* the tick in progress
          now,       \* Date.now
          finished   \* history: tasks that have been completed

vars == <<task, counter, call, tick, now, finished>>

Statuses == {"draft", "pending", "ready", "in_progress", "blocked",
             "completed", "failed"}

Exists(t) == task[t].status \in Statuses
Children(t) == {k \in Tasks : ParentOf[k] = t /\ Exists(k)}

(* TRANSITIONS *)
CanTransition(from, to) ==
    to \in CASE from = "draft" -> {"pending", "ready"}
             [] from = "pending" -> {"ready"}
             [] from = "ready" -> {"in_progress"}
             [] from = "in_progress" -> {"completed", "failed", "blocked", "ready"}
             [] from = "blocked" -> {"ready", "in_progress"}
             [] from = "completed" -> {}
             [] from = "failed" -> {"ready"}

-----------------------------------------------------------------------------
(* Storage: UPDATE ... WHERE id = ? AND version = ? *)

(* Mutant: the version left out of the WHERE clause. *)
SwapsBlindly(t, seen) == Exists(t) /\ seen.version > 0

Swaps(t, seen) == task[t].version = seen.version

Moved(t, seen, to) ==
    [task EXCEPT ![t].status = to, ![t].version = seen.version + 1]

(* ... with claimedBy, claimedAt and leaseExpiresAt set to null *)
Freed(t, seen, to) ==
    [task EXCEPT ![t].status = to, ![t].version = seen.version + 1,
                 ![t].owner = None, ![t].lease = NoLease]

Finished == {t \in Tasks : task[t].status = "completed"}

-----------------------------------------------------------------------------
(* Calls *)

NoTask == [status |-> "absent", owner |-> None, lease |-> NoLease,
           deps |-> <<>>, seq |-> 0, version |-> 0]

Idle == [phase |-> "idle", id |-> None, seen |-> NoTask, agent |-> None,
         todo |-> {}]

(* Bound: whether a call may still read and replace version v of a task. *)
Room(t, v) ==
    v < MaxVersion[t] /\ \A u \in Tasks \ {t} : v + task[u].version < MaxVersions

Hold(c, t) ==
    call' = [call EXCEPT ![c].phase = "held", ![c].id = t, ![c].seen = task[t]]

Read(c, t) ==
    /\ call[c] = Idle
    /\ Exists(t) /\ Room(t, task[t].version)
    /\ Hold(c, t)
    /\ UNCHANGED <<task, counter, tick, now, finished>>

Done(c) == call' = [call EXCEPT ![c] = Idle]

(* Some operation refused by its guard or by VersionConflictError, or a     *)
(* create whose parent does not exist: it throws.                          *)
Refused(c) ==
    /\ call[c].phase \in {"held", "project"} /\ call[c].agent = None
    /\ Done(c)
    /\ UNCHANGED <<task, counter, tick, now, finished>>

Writes(c) ==
    /\ call[c].phase = "held"
    /\ Swaps(call[c].id, call[c].seen)
    /\ Room(call[c].id, call[c].seen.version)
    /\ UNCHANGED <<counter, tick, now>>

Plain(c) == call[c].agent = None /\ Writes(c) /\ Done(c)

Allowed(c, to) == CanTransition(call[c].seen.status, to)

(* create: the project is read, then the parent, which has to exist, and   *)
(* the project's counter is swapped; the row follows after another await.  *)
(* Dependencies need not exist.                                            *)
CounterSwapsBlindly(seen) == TRUE    \* mutant
CounterSwaps(seen) == counter = seen

Unborn(t) ==
    task[t] = NoTask /\ \A c \in Callers : call[c].phase = "numbered" => call[c].id # t

(* Bound: a create begins only while an id is left to give out. *)
ReadProject(c) ==
    /\ call[c] = Idle /\ \E t \in Tasks : Unborn(t)
    /\ call' = [call EXCEPT ![c].phase = "project", ![c].seen.seq = counter]
    /\ UNCHANGED <<task, counter, tick, now, finished>>

TakeNumber(c, t) ==
    /\ call[c].phase = "project" /\ Unborn(t)
    /\ ParentOf[t] # None => Exists(ParentOf[t])
    /\ IF CounterSwaps(call[c].seen.seq)
       THEN /\ counter' = call[c].seen.seq + 1
            /\ call' = [call EXCEPT ![c].phase = "numbered", ![c].id = t,
                                    ![c].seen.seq = @ + 1]
       ELSE UNCHANGED counter /\ Done(c)
    /\ UNCHANGED <<task, tick, now, finished>>

Create(c, status, deps) ==
    /\ call[c].phase = "numbered"
    /\ task' = [task EXCEPT ![call[c].id] =
         [NoTask EXCEPT
            !.status = IF status = "ready" /\ deps # <<>> THEN "pending" ELSE status,
            !.deps = deps, !.seq = call[c].seen.seq, !.version = 1]]
    /\ Done(c)
    /\ UNCHANGED <<counter, tick, now, finished>>

Publish(c) ==
    LET seen == call[c].seen
        target == IF seen.deps # <<>> THEN "pending" ELSE "ready"
    IN  /\ Plain(c)
        /\ Allowed(c, target)
        /\ task' = Moved(call[c].id, seen, target)
        /\ UNCHANGED finished

(* claim(), from the API or from the loop that auto-claims subtasks *)
Claim(c, a, ttl) ==
    LET t == call[c].id IN
    /\ Writes(c)
    /\ call[c].agent \in {None, a}
    /\ Allowed(c, "in_progress")
    /\ call[c].seen.owner = None
    /\ task' = [task EXCEPT
         ![t].status = "in_progress", ![t].owner = a,
         ![t].lease = IF ttl = NoLease THEN NoLease ELSE now + ttl,
         ![t].version = call[c].seen.version + 1]
    /\ call' = [call EXCEPT ![c] = IF AutoClaim
                  THEN [@ EXCEPT !.phase = "claimed", !.agent = a, !.seen = NoTask]
                  ELSE Idle]
    /\ UNCHANGED finished

Complete(c) ==
    /\ Plain(c)
    /\ Allowed(c, "completed")
    /\ task' = Freed(call[c].id, call[c].seen, "completed")
    /\ finished' = finished \cup {call[c].id}

Fail(c) ==
    /\ Plain(c)
    /\ Allowed(c, "failed")
    /\ task' = Freed(call[c].id, call[c].seen, "failed")
    /\ UNCHANGED finished

(* The claim stays with its owner while the task is blocked. *)
Block(c) ==
    /\ Plain(c)
    /\ Allowed(c, "blocked")
    /\ task' = Moved(call[c].id, call[c].seen, "blocked")
    /\ UNCHANGED finished

Unblock(c) ==
    /\ Plain(c)
    /\ Allowed(c, "ready")
    /\ task' = Freed(call[c].id, call[c].seen, "ready")
    /\ UNCHANGED finished

Release(c) ==
    /\ Plain(c)
    /\ call[c].seen.status = "in_progress"
    /\ Allowed(c, "ready")
    /\ task' = Freed(call[c].id, call[c].seen, "ready")
    /\ UNCHANGED finished

(* LeaseManager.renew: refused once the lease has run out *)
Renew(c, ttl) ==
    LET seen == call[c].seen IN
    /\ Plain(c)
    /\ seen.status = "in_progress" /\ seen.owner # None
    /\ seen.lease # NoLease => seen.lease >= now
    /\ task' = [task EXCEPT ![call[c].id].lease = now + ttl,
                            ![call[c].id].version = seen.version + 1]
    /\ UNCHANGED finished

(* update({ status }) asks no transition table; it clears the claim only of *)
(* a task that was in progress.                                             *)
UpdateStatus(c, to) ==
    LET t == call[c].id
        seen == call[c].seen
    IN  /\ Plain(c)
        /\ to # seen.status
        /\ task' = IF seen.status = "in_progress" THEN Freed(t, seen, to)
                   ELSE Moved(t, seen, to)
        /\ finished' = IF to = "completed" THEN finished \cup {t} ELSE finished

UpdateDeps(c, deps) ==
    /\ Plain(c)
    /\ task' = [task EXCEPT ![call[c].id].deps = deps,
                            ![call[c].id].version = call[c].seen.version + 1]
    /\ UNCHANGED finished

(* update({ context }): the children are listed after the task is written, *)
(* and each is then swapped at the version it was listed with.             *)
Versions(S) == {<<k, task[k].version>> : k \in S}

UpdateContext(c) ==
    LET t == call[c].id IN
    /\ Writes(c) /\ call[c].agent = None
    /\ task' = [task EXCEPT ![t].version = call[c].seen.version + 1]
    /\ call' = [call EXCEPT ![c] =
         [Idle EXCEPT !.phase = "context", !.todo = Versions(Children(t))]]
    /\ UNCHANGED finished

PropagateContext(c, k, v) ==
    /\ call[c].phase = "context" /\ <<k, v>> \in call[c].todo
    /\ Room(k, v)
    /\ IF task[k].version = v
       THEN /\ task' = [task EXCEPT ![k].version = v + 1]
            /\ call' = [call EXCEPT ![c].todo =
                          (@ \ {<<k, v>>}) \cup Versions(Children(k))]
       ELSE /\ Done(c)
            /\ UNCHANGED task
    /\ UNCHANGED <<counter, tick, now, finished>>

ContextDone(c) ==
    /\ call[c].phase = "context" /\ call[c].todo = {}
    /\ Done(c)
    /\ UNCHANGED <<task, counter, tick, now, finished>>

(* delete() checks what it read and then deletes, whatever the version. *)
Delete(c) ==
    LET t == call[c].id IN
    /\ call[c].phase = "held" /\ call[c].agent = None
    /\ call[c].seen.status # "in_progress"
    /\ task' = [task EXCEPT ![t] = [NoTask EXCEPT !.status = "deleted"]]
    /\ Done(c)
    /\ UNCHANGED <<counter, tick, now, finished>>

(* autoClaimSubtasks: the ready children are listed, then each is read     *)
(* again and claimed by the same agent; one that cannot be is skipped.     *)
ListSubtasks(c) ==
    /\ call[c].phase = "claimed"
    /\ call' = [call EXCEPT
         ![c].phase = "subtasks",
         ![c].todo = @ \cup Versions({k \in Children(call[c].id) :
                                        task[k].status = "ready"})]
    /\ UNCHANGED <<task, counter, tick, now, finished>>

ReadSubtask(c, k, v) ==
    /\ call[c].phase = "subtasks" /\ <<k, v>> \in call[c].todo
    /\ IF Exists(k)
       THEN call' = [call EXCEPT ![c].phase = "held", ![c].id = k,
                                 ![c].seen = task[k], ![c].todo = @ \ {<<k, v>>}]
       ELSE call' = [call EXCEPT ![c].todo = @ \ {<<k, v>>}]
    /\ UNCHANGED <<task, counter, tick, now, finished>>

SkipSubtask(c) ==
    /\ call[c].phase = "held" /\ call[c].agent # None
    /\ call' = [call EXCEPT ![c].phase = "subtasks", ![c].seen = NoTask]
    /\ UNCHANGED <<task, counter, tick, now, finished>>

SubtasksDone(c) ==
    /\ call[c].phase = "subtasks" /\ call[c].todo = {}
    /\ Done(c)
    /\ UNCHANGED <<task, counter, tick, now, finished>>

-----------------------------------------------------------------------------
(* The tick: LeaseManager.expireStale, then reconcileDependencies. Both    *)
(* work through snapshots; the first conflict throws out of the whole tick *)
(* and the next interval starts over.                                      *)

NoTick == [phase |-> "idle", todo |-> {}, met |-> None]

Snapshots(S) == {[id |-> t, seen |-> task[t]] : t \in S}

(* Mutant: a claim without expiry taken for an expired one. *)
StaleOrUnleased(t) == task[t].status = "in_progress" /\ task[t].lease < now

Stale(t) == /\ task[t].status = "in_progress"
            /\ task[t].lease # NoLease /\ task[t].lease < now

TickStart ==
    /\ tick = NoTick
    /\ tick' = [NoTick EXCEPT !.phase = "leases",
                              !.todo = Snapshots({t \in Tasks : Stale(t)})]
    /\ UNCHANGED <<task, counter, call, now, finished>>

(* Mutant: after a conflict the same write is tried again. *)
ExpireStaleAgain(s) ==
    /\ tick.phase = "leases" /\ s \in tick.todo
    /\ IF Swaps(s.id, s.seen)
       THEN /\ task' = Freed(s.id, s.seen, "ready")
            /\ tick' = [tick EXCEPT !.todo = @ \ {s}]
       ELSE UNCHANGED <<task, tick>>
    /\ UNCHANGED <<counter, call, now, finished>>

ExpireStale(s) ==
    /\ tick.phase = "leases" /\ s \in tick.todo
    /\ IF Swaps(s.id, s.seen)
       THEN /\ task' = Freed(s.id, s.seen, "ready")
            /\ tick' = [tick EXCEPT !.todo = @ \ {s}]
       ELSE /\ UNCHANGED task
            /\ tick' = NoTick
    /\ UNCHANGED <<counter, call, now, finished>>

ListPending ==
    /\ tick.phase = "leases" /\ tick.todo = {}
    /\ tick' = [NoTick EXCEPT !.phase = "deps",
         !.todo = Snapshots({t \in Tasks : task[t].status = "pending"})]
    /\ UNCHANGED <<task, counter, call, now, finished>>

(* Storage: each row whose id is in the list, once. *)
GetMany(deps) == {d \in Range(deps) : Exists(d)}

(* Mutants: deleted dependencies overlooked; an emptied list never met. *)
DepsMetOfThoseLeft(deps) == GetMany(deps) \subseteq Finished
DepsMetUnlessNone(deps) ==
    /\ deps # <<>> /\ Cardinality(GetMany(deps)) = Len(deps)
    /\ GetMany(deps) \subseteq Finished

(* As many rows as the list is long, all completed: a list that names one  *)
(* task twice is never met, whatever becomes of the task.                  *)
DepsMet(deps) ==
    Cardinality(GetMany(deps)) = Len(deps) /\ GetMany(deps) \subseteq Finished

ReadDeps(s) ==
    /\ tick.phase = "deps" /\ tick.met = None /\ s \in tick.todo
    /\ tick' = IF DepsMet(s.seen.deps) THEN [tick EXCEPT !.met = s.id]
               ELSE [tick EXCEPT !.todo = @ \ {s}]
    /\ UNCHANGED <<task, counter, call, now, finished>>

Reconcile(s) ==
    /\ tick.phase = "deps" /\ s \in tick.todo /\ tick.met = s.id
    /\ IF Swaps(s.id, s.seen)
       THEN /\ task' = Moved(s.id, s.seen, "ready")
            /\ tick' = [tick EXCEPT !.todo = @ \ {s}, !.met = None]
       ELSE /\ UNCHANGED task
            /\ tick' = NoTick
    /\ UNCHANGED <<counter, call, now, finished>>

TickDone ==
    /\ tick.phase = "deps" /\ tick.todo = {}
    /\ tick' = NoTick
    /\ UNCHANGED <<task, counter, call, now, finished>>

Tick == \/ TickStart \/ ListPending \/ TickDone
        \/ \E s \in tick.todo : ExpireStale(s) \/ ReadDeps(s) \/ Reconcile(s)

-----------------------------------------------------------------------------
Clock ==
    /\ now < MaxClock
    /\ now' = now + 1
    /\ UNCHANGED <<task, counter, call, tick, finished>>

(* The process ends and, a tick of the clock later, is back: the rows stay. *)
Restart ==
    /\ now < MaxClock
    /\ now' = now + 1
    /\ call' = [c \in Callers |-> Idle]
    /\ tick' = NoTick
    /\ UNCHANGED <<task, counter, finished>>

Operation(c) ==
    \/ \E t \in Tasks : Read(c, t)
    \/ ReadProject(c)
    \/ \E t \in Tasks : TakeNumber(c, t)
    \/ \E t \in Tasks : \E d \in DepChoices[t] :
         /\ call[c].id = t
         /\ UpdateDeps(c, d) \/ \E st \in {"draft", "ready"} : Create(c, st, d)
    \/ Refused(c) \/ Publish(c)
    \/ \E a \in Agents, ttl \in Ttls : Claim(c, a, ttl)
    \/ Complete(c) \/ Fail(c) \/ Block(c) \/ Unblock(c) \/ Release(c)
    \/ \E ttl \in Ttls \ {NoLease} : Renew(c, ttl)
    \/ \E st \in Statuses : UpdateStatus(c, st)
    \/ UpdateContext(c) \/ ContextDone(c)
    \/ \E p \in call[c].todo :
         PropagateContext(c, p[1], p[2]) \/ ReadSubtask(c, p[1], p[2])
    \/ ListSubtasks(c) \/ SkipSubtask(c) \/ SubtasksDone(c)
    \/ Delete(c)

Init ==
    /\ task = [t \in Tasks |-> NoTask]
    /\ counter = 0
    /\ call = [c \in Callers |-> Idle]
    /\ tick = NoTick
    /\ now = 0
    /\ finished = {}

Next == \/ \E c \in Callers : Operation(c)
        \/ Tick \/ Clock \/ Restart

Spec == Init /\ [][Next]_vars

(* setInterval keeps calling tick(); nothing obliges a caller to call. *)
FairSpec == Spec /\ WF_vars(Tick)

-----------------------------------------------------------------------------
(* Properties *)

DepLists == Seq(Tasks)
TaskRow == [status : Statuses \cup {"absent", "deleted"}, owner : Agents \cup {None},
            lease : Nat \cup {NoLease}, deps : DepLists, seq : Nat,
            version : Nat]
Snapshot == [id : Tasks, seen : TaskRow]

(* Every variable keeps its type, and a version never gets past the bound  *)
(* by more than the one write the tick can add after the last call's.      *)
TypeOK ==
    /\ task \in [Tasks -> TaskRow]
    /\ \A t \in Tasks : task[t].version <= MaxVersion[t] + 1
    /\ counter \in Nat
    /\ \A c \in Callers :
         /\ call[c].phase \in {"idle", "project", "numbered", "held", "claimed",
                               "subtasks", "context"}
         /\ call[c].id \in Tasks \cup {None}
         /\ call[c].seen \in TaskRow
         /\ call[c].agent \in Agents \cup {None}
         /\ call[c].todo \in SUBSET (Tasks \X Nat)
    /\ tick.phase \in {"idle", "leases", "deps"}
    /\ tick.todo \in SUBSET Snapshot
    /\ now \in 0..MaxClock
    /\ finished \subseteq Tasks

(* A claim passes from one agent to another only through a state in which  *)
(* nobody holds it: no write, however stale what it was decided on, takes  *)
(* a task from under the agent working on it.                              *)
NoStolenClaim ==
    [][\A t \in Tasks : task[t].owner # None /\ task'[t].owner # None
                          => task'[t].owner = task[t].owner]_vars

(* The tick takes a task from its agent only if the lease has run out: one *)
(* renewed after the tick listed it, or one without expiry, is let be.     *)
TickSparesLiveLeases ==
    [][\A t \in Tasks :
         tick' # tick /\ task[t].status = "in_progress"
                      /\ task'[t].status # "in_progress"
         => task[t].lease # NoLease /\ task[t].lease < now]_vars

(* The tick makes a pending task ready only when each of the dependencies  *)
(* it has at that moment has been completed, a deleted one included.       *)
TickWaitsForDeps ==
    [][\A t \in Tasks :
         tick' # tick /\ task[t].status = "pending" /\ task'[t].status = "ready"
         => Range(task[t].deps) \subseteq finished]_vars

(* The board as its users see it: rows without versions. *)
RowOf(r) == [status |-> r.status, owner |-> r.owner, lease |-> r.lease,
             deps |-> r.deps, seq |-> r.seq]

Board == INSTANCE TaskBoard WITH row <- [t \in Tasks |-> RowOf(task[t])]

(* Every call that writes does to the task as it is, at that moment, what   *)
(* it decided to do to the one it read before its await, and what the tick *)
(* does it does to tasks that are due then; a write that would not be so   *)
(* fails on the version (store.compareAndSwap).  What a call was given -    *)
(* dependencies, an agent, a status - is read off the row it wrote.        *)
OperationsAreAtomic ==
    [][task' # task =>
       /\ \A c \in Callers, t \in Tasks : call'[c] # call[c] /\ t = call[c].id =>
             LET new == task'[t] IN
             /\ \A status \in {"draft", "ready"} :
                   Create(c, status, new.deps)
                      => Board!Create(t, call[c].seen.seq, status, new.deps)
             /\ Publish(c) => Board!Publish(t)
             /\ \A ttl \in Ttls : Claim(c, new.owner, ttl) => Board!Claim(t, new.owner, ttl)
             /\ Complete(c) => Board!Free(t, "completed")
             /\ Fail(c) => Board!Free(t, "failed")
             /\ Block(c) => Board!Block(t)
             /\ Unblock(c) => Board!Free(t, "ready")
             /\ Release(c) => Board!Release(t)
             /\ \A ttl \in Ttls \ {NoLease} : Renew(c, ttl) => Board!Renew(t, ttl)
             /\ UpdateStatus(c, new.status) => Board!SetStatus(t, new.status)
             /\ UpdateDeps(c, new.deps) => Board!SetDeps(t, new.deps)
             /\ Delete(c) => Board!Delete(t)
       /\ \A s \in tick.todo : tick' # tick =>
             /\ ExpireStale(s) => Board!Expire(s.id)
             /\ Reconcile(s) => Board!MakeReady(s.id)]_vars

(* Two tasks of a project never share a number (TSK-42). *)
SequenceIdsUnique ==
    \A t, u \in Tasks : t # u /\ Exists(t) /\ Exists(u) => task[t].seq # task[u].seq

(* Neither a task whose lease ran out nor a pending task whose             *)
(* dependencies are all completed stays so for ever, however many ticks    *)
(* are cut short by a conflict (expireStale, reconcileDependencies).  A    *)
(* list that names a dependency twice is excepted: the tick compares its   *)
(* length with the rows it finds, and never takes it for met.              *)
TicksGetThrough ==
    \A t \in Tasks :
        LET Due == \/ Stale(t)
                   \/ /\ task[t].status = "pending" /\ IsInjective(task[t].deps)
                      /\ Range(task[t].deps) \subseteq Finished
        IN  []<>~Due
=============================================================================
