----------------------------- MODULE TaskBoard -----------------------------
(***************************************************************************)
(* What the task board promises to those who share it: every operation     *)
(* happens at one moment, on the task as it is at that moment, however     *)
(* long ago its caller looked.  TaskStore implements it.                   *)
(*                                                                         *)
(* Two operations promise little: a task is deleted whatever it has become *)
(* since, and its status is set to anything.                               *)
(***************************************************************************)
EXTENDS Integers, Sequences, Functions

CONSTANTS Tasks, Agents, Ttls, None

VARIABLES row,       \* of each task: status, owner, lease, dependencies, number
          now,
          finished   \* tasks that have been completed

vars == <<row, now, finished>>

NoLease == -1
Row(status, owner, lease, deps, seq) ==
    [status |-> status, owner |-> owner, lease |-> lease, deps |-> deps, seq |-> seq]
Blank == Row("absent", None, NoLease, <<>>, 0)

Statuses == {"draft", "pending", "ready", "in_progress", "blocked", "completed", "failed"}
Exists(t) == row[t].status \in Statuses

Init == /\ row = [t \in Tasks |-> Blank]
        /\ now = 0 /\ finished = {}

(* The statuses a task may be moved to another from. *)
Before(to) ==
    CASE to = "pending" -> {"draft"}
      [] to = "ready" -> {"draft", "pending", "in_progress", "blocked", "failed"}
      [] to = "in_progress" -> {"ready", "blocked"}
      [] to \in {"blocked", "completed", "failed"} -> {"in_progress"}

Put(t, r) == row' = [row EXCEPT ![t] = r] /\ UNCHANGED now
Freed(t, to) == Row(to, None, NoLease, row[t].deps, row[t].seq)

(* A task gets a number that no task has, of those that are there. *)
Create(t, n, status, deps) ==
    /\ row[t] = Blank /\ n > 0 /\ \A u \in Tasks : row[u].seq # n
    /\ Put(t, Row(IF status = "ready" /\ deps # <<>> THEN "pending" ELSE status,
                  None, NoLease, deps, n))
    /\ UNCHANGED finished

Move(t, to) ==
    /\ row[t].status \in Before(to)
    /\ Put(t, [row[t] EXCEPT !.status = to])
    /\ UNCHANGED finished

Publish(t) == Move(t, IF row[t].deps # <<>> THEN "pending" ELSE "ready")
Block(t) == Move(t, "blocked")

Claim(t, a, ttl) ==
    /\ row[t].status \in Before("in_progress") /\ row[t].owner = None
    /\ Put(t, Row("in_progress", a, IF ttl = NoLease THEN NoLease ELSE now + ttl,
                  row[t].deps, row[t].seq))
    /\ UNCHANGED finished

(* The claim ends with the work, or with what stood in its way. *)
Free(t, to) ==
    /\ row[t].status \in Before(to)
    /\ Put(t, Freed(t, to))
    /\ finished' = IF to = "completed" THEN finished \cup {t} ELSE finished

Release(t) == row[t].status = "in_progress" /\ Free(t, "ready")

Renew(t, ttl) ==
    /\ row[t].status = "in_progress" /\ row[t].owner # None
    /\ row[t].lease # NoLease => row[t].lease >= now
    /\ Put(t, [row[t] EXCEPT !.lease = now + ttl])
    /\ UNCHANGED finished

SetStatus(t, to) ==
    /\ Exists(t) /\ row[t].status # to
    /\ Put(t, IF row[t].status = "in_progress" THEN Freed(t, to)
              ELSE [row[t] EXCEPT !.status = to])
    /\ finished' = IF to = "completed" THEN finished \cup {t} ELSE finished

SetDeps(t, deps) ==
    /\ Exists(t) /\ Put(t, [row[t] EXCEPT !.deps = deps])
    /\ UNCHANGED finished

Delete(t) ==
    /\ row[t] # Blank /\ Put(t, Row("deleted", None, NoLease, <<>>, 0))
    /\ UNCHANGED finished

(* What the board does by itself. *)
Expire(t) ==
    /\ row[t].status = "in_progress" /\ row[t].lease # NoLease /\ row[t].lease < now
    /\ Put(t, Freed(t, "ready"))
    /\ UNCHANGED finished

MakeReady(t) ==
    /\ row[t].status = "pending" /\ Range(row[t].deps) \subseteq finished
    /\ Put(t, [row[t] EXCEPT !.status = "ready"])
    /\ UNCHANGED finished

Elapse == now' = now + 1 /\ UNCHANGED <<row, finished>>

Next ==
    \/ \E t \in Tasks :
          \/ \E n \in Nat, status \in {"draft", "ready"}, deps \in Seq(Tasks) :
                Create(t, n, status, deps)
          \/ Publish(t) \/ Block(t) \/ Release(t) \/ Delete(t) \/ Expire(t) \/ MakeReady(t)
          \/ \E a \in Agents, ttl \in Ttls : Claim(t, a, ttl)
          \/ \E to \in {"completed", "failed", "ready"} : Free(t, to)
          \/ \E ttl \in Ttls \ {NoLease} : Renew(t, ttl)
          \/ \E to \in Statuses : SetStatus(t, to)
          \/ \E deps \in Seq(Tasks) : SetDeps(t, deps)
    \/ Elapse

Spec == Init /\ [][Next]_vars
=============================================================================
