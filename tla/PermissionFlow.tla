--------------------------- MODULE PermissionFlow ---------------------------
(***************************************************************************)
(* packages/agent-runtime: the permission prompts of one session - the     *)
(* Deferreds of the resident session, the rows of agent_pending_permissions*)
(* that mirror them, and the events the log keeps (turn-runner.ts,         *)
(* runtime.ts, pending-permissions-store-adapter.ts).                      *)
(*                                                                         *)
(* A decision and what follows from it run without giving the event loop   *)
(* back, so an action is the whole of it; the process may die between any  *)
(* two of its writes, and the actions named Torn are what it leaves then.  *)
(* The event log may have gone read-only: an event is then sent to who is  *)
(* connected and kept by nobody.                                           *)
(*                                                                         *)
(* Turns are those of one provider, one after another (AgentRuntime); a    *)
(* request may come late, for a turn that was cancelled.                   *)
(***************************************************************************)
EXTENDS Integers, FiniteSets

CONSTANTS MaxRequests, \* bound: prompts asked
          MaxCrashes,  \* bound: restarts
          MaxLapses    \* bound: changes of the log between writable and read-only

ASSUME PermissionAssumption ==
    MaxRequests \in Nat /\ MaxCrashes \in Nat /\ MaxLapses \in Nat

Requests == 1 .. MaxRequests
Decisions == {"allow", "deny"}

VARIABLES asked,     \* number of requests so far
          pending,   \* managed.pending: requests whose Deferred waits
          prompt,    \* what the log has of each request
          row,       \* its row in the pending-permissions table
          reply,     \* what the provider was answered
          running,   \* a turn runs
          session,   \* the session is resident, cold, or closed for good
          draining,  \* requests the boot drain has to do
          up,        \* the server is up, or booting
          writable,  \* the log takes writes
          crashes, lapses,    \* for the bounds
          torn,      \* history: requests a crash split
          unlogged   \* history: requests an event of which found the log read-only

vars == <<asked, pending, prompt, row, reply, running, session, draining, up, writable,
          crashes, lapses, torn, unlogged>>

(* In the log: nothing, permission.requested, or permission.resolved with   *)
(* its decision as well.  A row is missing, open, or resolved.             *)
Init ==
    /\ asked = 0 /\ pending = {} /\ draining = {}
    /\ prompt = [r \in Requests |-> "none"] /\ row = [r \in Requests |-> "none"]
    /\ reply = [r \in Requests |-> "none"]
    /\ running = FALSE /\ session = "resident" /\ up = TRUE /\ writable = TRUE
    /\ crashes = 0 /\ lapses = 0 /\ torn = {} /\ unlogged = {}

-----------------------------------------------------------------------------
Asked == 1 .. asked
Serving == up /\ draining = {}

(* permission.resolved of the requests S, with decision d.                 *)
EmitsResolved(S, d) ==
    IF writable
    THEN prompt' = [r \in Requests |-> IF r \in S /\ prompt[r] = "requested" THEN d ELSE prompt[r]]
         /\ UNCHANGED unlogged
    ELSE unlogged' = unlogged \cup S /\ UNCHANGED prompt

(* pendingPermissions.resolve: only an open row is written. *)
ResolvesRows(S, d) ==
    row' = [r \in Requests |-> IF r \in S /\ row[r] = "open" THEN d ELSE row[r]]

Replies(S, d) == reply' = [r \in Requests |-> IF r \in S THEN d ELSE reply[r]]

Resident == Serving /\ session = "resident"

(* The process is gone, with the Deferreds and what a boot had still to do. *)
Dies ==
    /\ crashes < MaxCrashes /\ crashes' = crashes + 1
    /\ up' = FALSE /\ running' = FALSE /\ pending' = {} /\ draining' = {}
    /\ session' = IF session = "closed" THEN "closed" ELSE "cold"

-----------------------------------------------------------------------------
TurnStarts ==
    /\ Serving /\ ~running /\ session # "closed"
    /\ running' = TRUE /\ session' = "resident"
    /\ UNCHANGED <<asked, pending, prompt, row, reply, draining, up, writable, crashes, lapses,
                   torn, unlogged>>

(* awaitPermission: a saved policy answers, or the prompt is opened.  The   *)
(* provider may ask on behalf of a turn that is over.                      *)
AwaitPermission ==
    LET r == asked + 1
    IN /\ Resident /\ r \in Requests /\ asked' = r
       /\ \/ \E d \in Decisions : Replies({r}, d)
             /\ UNCHANGED <<pending, prompt, row, unlogged>>
          \/ /\ pending' = pending \cup {r}
             /\ IF writable
                THEN /\ prompt' = [prompt EXCEPT ![r] = "requested"]
                     /\ row' = [row EXCEPT ![r] = "open"]
                     /\ UNCHANGED unlogged
                ELSE unlogged' = unlogged \cup {r} /\ UNCHANGED <<prompt, row>>
             /\ UNCHANGED reply
       /\ UNCHANGED <<running, session, draining, up, writable, crashes, lapses, torn>>

AwaitPermissionTorn ==
    LET r == asked + 1
    IN /\ Resident /\ writable /\ r \in Requests /\ asked' = r
       /\ Dies
       /\ prompt' = [prompt EXCEPT ![r] = "requested"] /\ torn' = torn \cup {r}
       /\ UNCHANGED <<row, reply, writable, lapses, unlogged>>

(* Mutants: the Deferred stays in the map; the row is not told. *)
SettlesKeeping(S, d) ==
    /\ Replies(S, d) /\ EmitsResolved(S, d) /\ ResolvesRows(S, d)
    /\ UNCHANGED pending

SettlesNoRow(S, d) ==
    /\ pending' = pending \ S
    /\ Replies(S, d) /\ EmitsResolved(S, d) /\ UNCHANGED row

(* The Deferreds of the requests S get decision d: the continuations of     *)
(* awaitPermission run.                                                    *)
Settles(S, d) ==
    /\ pending' = pending \ S
    /\ Replies(S, d) /\ EmitsResolved(S, d) /\ ResolvesRows(S, d)

(* respondPermission, or the timer of a request that has one. *)
RespondPermission(r) ==
    /\ Resident /\ r \in pending
    /\ \E d \in Decisions : Settles({r}, d)
    /\ UNCHANGED <<asked, running, session, draining, up, writable, crashes, lapses, torn>>

(* It has resolved the row and dies before the continuation runs. *)
RespondPermissionTorn(r) ==
    /\ Resident /\ r \in pending
    /\ Dies
    /\ \E d \in Decisions : ResolvesRows({r}, d)
    /\ torn' = torn \cup {r}
    /\ UNCHANGED <<asked, prompt, reply, writable, lapses, unlogged>>

-----------------------------------------------------------------------------
(* The turn completes; what it still asked stays. *)
TurnCompletes ==
    /\ Serving /\ running /\ running' = FALSE
    /\ UNCHANGED <<asked, pending, prompt, row, reply, session, draining, up, writable, crashes,
                   lapses, torn, unlogged>>

(* Mutant: a cancelled turn drops its prompts. *)
DropsPending == pending' = {} /\ UNCHANGED <<prompt, row, reply, unlogged>>

(* drainPending, and the continuations it wakes. *)
DrainsPending == Settles(pending, "deny")

(* turn.cancelled or error: everything pending is denied.  close() does    *)
(* this through the turn it interrupts.                                    *)
TurnAborts ==
    /\ Serving /\ running /\ running' = FALSE
    /\ DrainsPending
    /\ session' \in {"resident", "closed"}
    /\ UNCHANGED <<asked, draining, up, writable, crashes, lapses, torn>>

TurnAbortsTorn ==
    /\ Serving /\ running /\ pending # {}
    /\ Dies
    /\ ResolvesRows(pending, "deny")
    /\ torn' = torn \cup pending
    /\ UNCHANGED <<asked, prompt, reply, writable, lapses, unlogged>>

(* close() of a session at rest: no turn, so nothing is drained. *)
Close ==
    /\ Resident /\ ~running
    /\ session' = "closed"
    /\ UNCHANGED <<asked, pending, prompt, row, reply, running, draining, up, writable, crashes,
                   lapses, torn, unlogged>>

-----------------------------------------------------------------------------
Crash ==
    /\ Dies
    /\ UNCHANGED <<asked, prompt, row, reply, writable, lapses, torn, unlogged>>

(* Mutant: every row is listed. *)
AllRows == {r \in Requests : row[r] # "none"}

Unresolved == {r \in Requests : row[r] = "open"}

(* Boot: drainPendingPermissions lists the open rows ... *)
Boot ==
    /\ ~up /\ up' = TRUE
    /\ draining' = Unresolved
    /\ UNCHANGED <<asked, pending, prompt, row, reply, running, session, writable, crashes,
                   lapses, torn, unlogged>>

(* Mutant: the row stays open. *)
BootDeniesLog(r) == EmitsResolved({r}, "deny") /\ UNCHANGED row

BootDenies(r) == EmitsResolved({r}, "deny") /\ ResolvesRows({r}, "deny")

(* ... and denies them one after another: the event, then the row. *)
BootDrains(r) ==
    /\ up /\ r \in draining
    /\ draining' = draining \ {r}
    /\ BootDenies(r)
    /\ UNCHANGED <<asked, pending, reply, running, session, up, writable, crashes, lapses, torn>>

BootDrainsTorn(r) ==
    /\ up /\ r \in draining
    /\ Dies
    /\ EmitsResolved({r}, "deny")
    /\ UNCHANGED <<asked, row, reply, writable, lapses, torn>>

(* The log goes read-only, and comes back. *)
LogChanges ==
    /\ lapses < MaxLapses /\ lapses' = lapses + 1
    /\ writable' = ~writable
    /\ UNCHANGED <<asked, pending, prompt, row, reply, running, session, draining, up, crashes,
                   torn, unlogged>>

Next ==
    \/ TurnStarts \/ AwaitPermission \/ AwaitPermissionTorn
    \/ TurnCompletes \/ TurnAborts \/ TurnAbortsTorn \/ Close
    \/ Crash \/ Boot \/ LogChanges
    \/ \E r \in Requests : \/ RespondPermission(r) \/ RespondPermissionTorn(r)
                           \/ BootDrains(r) \/ BootDrainsTorn(r)

(* A server that is down is started again, and its boot goes on. *)
Fairness == WF_vars(Boot) /\ WF_vars(\E r \in Requests : BootDrains(r))

Spec == Init /\ [][Next]_vars
FairSpec == Spec /\ Fairness
-----------------------------------------------------------------------------
(* Properties. *)

(* Types of the state; what waits was asked and not answered. *)
TypeOK ==
    /\ asked \in 0 .. MaxRequests /\ pending \subseteq Asked /\ draining \subseteq Asked
    /\ prompt \in [Requests -> {"none", "requested"} \cup Decisions]
    /\ row \in [Requests -> {"none", "open"} \cup Decisions]
    /\ reply \in [Requests -> {"none"} \cup Decisions]
    /\ \A r \in pending : reply[r] = "none"
    /\ session \in {"resident", "cold", "closed"}
    /\ running \in BOOLEAN /\ up \in BOOLEAN /\ writable \in BOOLEAN /\ (running => Resident)
    /\ crashes \in 0 .. MaxCrashes /\ lapses \in 0 .. MaxLapses
    /\ torn \subseteq Asked /\ unlogged \subseteq Asked

(* "the UI reducer will mark the prompt closed instead of leaving it        *)
(* hanging" (runtime.ts): once the server serves, a prompt that the log    *)
(* shows as open has somebody waiting for its answer, through any number   *)
(* of cancelled turns, restarts and restarts of restarts.  Two exceptions, *)
(* both kept by name: a crash between two of its writes, and an event the  *)
(* log could not take.                                                     *)
OpenIsAwaited ==
    Serving => \A r \in Asked : prompt[r] = "requested" => r \in pending \cup torn \cup unlogged

(* The rows mirror the log: the row of a prompt is open exactly while the   *)
(* prompt is, so a boot neither misses one nor denies one twice; with the  *)
(* same exceptions.                                                        *)
RowsMirrorLog ==
    Serving => \A r \in Asked \ (torn \cup unlogged) : row[r] = "open" <=> prompt[r] = "requested"

(* What the provider was told, what the log says and what the row says are *)
(* the same decision, whichever of them were written ("a late              *)
(* permission.resolved ... won't overwrite the synthetic deny").           *)
DecisionsAgree ==
    \A r \in Asked : \A d, e \in {reply[r], prompt[r], row[r]} \cap Decisions : d = e

(* What was decided on a request, anywhere. *)
Said(r) == {reply[r], prompt[r], row[r]} \cap Decisions

(* A decision made anywhere stands: no second answer, timeout, aborted     *)
(* turn, crash or boot drain that meets a request half settled takes it    *)
(* back or adds another ("a late permission.resolved ... won't overwrite   *)
(* the synthetic deny"; resolve writes an open row only).                  *)
DecisionsStand == [][\A r \in Requests : Said(r) # {} => Said(r)' = Said(r)]_vars

(* A prompt that a dead process left open is settled by the next boots. *)
BootSettles == \A r \in Requests : row[r] = "open" /\ ~up ~> row[r] # "open"
=============================================================================
