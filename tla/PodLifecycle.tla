---------------------------- MODULE PodLifecycle ----------------------------
(***************************************************************************)
(* electron/domains/pod: one pod, its terminals and their processes, from  *)
(* pod.ts, pod/terminals.ts, pod/state.ts, container.ts, lifecycle.ts.     *)
(*                                                                         *)
(* Start, stop, restart, delete, removeTerminal and the restart of an      *)
(* ended terminal run one at a time under the pod's lock.  A call that     *)
(* waits for the lock has done nothing, so only its holder is state; what  *)
(* lies between two awaits of the holder is one step.  startTerminal and   *)
(* stopAllForWorkspace take no lock, and a process ends, and is reported   *)
(* to have ended, whenever it likes.                                       *)
(***************************************************************************)
EXTENDS Integers, FiniteSets

CONSTANTS Terminals,   \* terminal rows the pod may have
          Always,      \* those with restart policy "always"; the others have "never"
          Settings,    \* circumstances the pod may live in, see Circumstances
          MaxProcs,    \* bound: processes not yet reported to have ended
          MaxPending   \* bound: restarts of one terminal waiting

(* docker: the pod has a docker runtime, otherwise its terminals are local *)
(* PTYs; refuses: the docker daemon may refuse to create, start or exec;   *)
(* late: the controller may act before it hears of an exit; unlocked:      *)
(* startTerminal and stopAllForWorkspace are called.                       *)
Circumstances == [docker : BOOLEAN, refuses : BOOLEAN, late : BOOLEAN, unlocked : BOOLEAN]

ASSUME PodAssumption ==
    /\ Always \subseteq Terminals /\ IsFiniteSet(Terminals)
    /\ Settings \subseteq Circumstances
    /\ MaxProcs \in Nat /\ MaxPending \in Nat

Procs == 1 .. MaxProcs
None == 0

VARIABLES setting,   \* the pod's circumstances, which do not change
          status,    \* of the pods row, "none" without one
          rows,      \* terminal rows
          reg,       \* streamMap: the process registered for a terminal
          proc,      \* the processes
          pending,   \* restarts that sleep or wait for the lock, per terminal
          job,       \* what the holder of the pod's lock is at
          container, \* the docker container containerMap names
          checking,  \* a checkAllExited is queued
          singles,   \* processes startTerminal made and has not registered
          sweep,     \* stopAllForWorkspace
          abandoned   \* history: the status is what a crash left of a pod whose
                     \* container was stopped

vars == <<status, rows, reg, proc, pending, job, container, checking, singles, sweep>>

NoProc == [life |-> "free", of |-> None, place |-> "host"]
Idle == [op |-> "none", phase |-> "idle", todo |-> {}, made |-> None, ok |-> FALSE, ko |-> FALSE]
NoSweep == [phase |-> "idle", todo |-> {}]
NoRestarts == [t \in Terminals |-> 0]

Init ==
    /\ setting \in Settings
    /\ status = "stopped" /\ rows = Terminals /\ container = "none"
    /\ reg = [t \in Terminals |-> None] /\ proc = [p \in Procs |-> NoProc]
    /\ pending = NoRestarts /\ job = Idle /\ checking = FALSE
    /\ singles = {} /\ sweep = NoSweep /\ abandoned = FALSE

-----------------------------------------------------------------------------
Locked == job.op # "none"

(* The `transitioning` set: added and removed by calls that hold the lock. *)
Transitioning == job.op \in {"start", "stop", "restart", "delete"}

(* An update of a row that is gone changes nothing. *)
SetStatus(s) == status' = IF status = "none" THEN "none" ELSE s

Live(p) == proc[p].life = "live"

Starts(op) == [Idle EXCEPT !.op = op, !.todo = rows,
                           !.phase = IF setting.docker THEN "container" ELSE "creating"]

Stops(op) == [Idle EXCEPT !.op = op, !.phase = "stopping", !.todo = rows]

(* Whether an attempt to create a process for the pod can succeed: a PTY   *)
(* always can, an exec needs its container to run.                         *)
CanExec == ~setting.docker \/ container = "up"

Born(p, t, place) ==
    /\ proc[p].life = "free"
    /\ proc' = [proc EXCEPT ![p] = [life |-> "live", of |-> t, place |-> place]]

Place == IF setting.docker THEN "container" ELSE "host"

(* ptyDestroy kills; the stream of a docker exec is merely forgotten.      *)
Ended(ps) == [p \in Procs |->
                 IF p \in ps /\ Live(p) THEN [proc[p] EXCEPT !.life = "ended"] ELSE proc[p]]

InContainer == {p \in Procs : proc[p].place = "container"}

-----------------------------------------------------------------------------
(* start, ensureStarted, ensureAllLocalStarted.                            *)
StartPod ==
    /\ ~Locked /\ status \notin {"none", "running", "starting"}
    /\ status' = "starting" /\ job' = Starts("start")
    /\ UNCHANGED <<rows, reg, proc, pending, container, checking, singles, sweep>>

StopPod ==
    /\ ~Locked /\ status \notin {"none", "stopped", "stopping"}
    /\ status' = "stopping" /\ job' = Stops("stop") /\ pending' = NoRestarts
    /\ UNCHANGED <<rows, reg, proc, container, checking, singles, sweep>>

RestartPod ==
    /\ ~Locked /\ status # "none"
    /\ status' = "starting" /\ job' = Stops("restart") /\ pending' = NoRestarts
    /\ UNCHANGED <<rows, reg, proc, container, checking, singles, sweep>>

(* The status stays what it was until the row is gone. *)
DeletePod ==
    /\ ~Locked /\ status # "none"
    /\ job' = Stops("delete") /\ pending' = NoRestarts
    /\ UNCHANGED <<status, rows, reg, proc, container, checking, singles, sweep>>

(* removeTerminal, up to the answer of ptyDestroy. *)
RemoveTerminal(t) ==
    /\ ~Locked /\ t \in rows
    /\ job' = [Idle EXCEPT !.op = "remove", !.phase = "removing", !.todo = {t}]
    /\ proc' = IF setting.docker THEN proc ELSE Ended({reg[t]})
    /\ UNCHANGED <<status, rows, reg, pending, container, checking, singles, sweep>>

(* Terminals are added without the lock, and not started.  Identifiers are *)
(* not reused: a name serves again once nothing of its terminal is left.   *)
AddTerminal(t) ==
    /\ status # "none" /\ t \notin rows /\ rows' = rows \cup {t}
    /\ pending[t] = 0 /\ \A p \in Procs : proc[p].of # t
    /\ t \notin job.todo \cup sweep.todo
    /\ UNCHANGED <<status, reg, proc, pending, job, container, checking, singles, sweep>>

-----------------------------------------------------------------------------
(* Mutant: the streams are forgotten, their processes left. *)
UnregistersOnly(t) == reg' = [reg EXCEPT ![t] = None] /\ UNCHANGED proc

(* stopPodTerminals, terminal by terminal. *)
Unregisters(t) ==
    /\ proc' = IF setting.docker THEN proc ELSE Ended({reg[t]})
    /\ reg' = [reg EXCEPT ![t] = None]

(* Then the container is stopped, and kept. *)
Halts ==
    /\ container' = IF container = "up" THEN "down" ELSE container
    /\ proc' = IF container = "up" THEN Ended(InContainer) ELSE proc

StopOne(t) ==
    /\ job.phase = "stopping" /\ t \in job.todo
    /\ Unregisters(t) /\ job' = [job EXCEPT !.todo = @ \ {t}]
    /\ UNCHANGED <<status, rows, pending, container, checking, singles, sweep>>

Stopped ==
    /\ job.phase = "stopping" /\ job.todo = {}
    /\ Halts
    /\ IF job.op = "stop" THEN SetStatus("stopped") ELSE UNCHANGED status
    /\ job' = CASE job.op = "stop" -> Idle
                [] job.op = "delete" -> [job EXCEPT !.phase = "deleting"]
                [] OTHER -> IF status = "none" THEN Idle ELSE Starts("restart")
    /\ UNCHANGED <<rows, reg, pending, checking, singles, sweep>>

(* The container is removed, then the row, and its terminals' rows with it. *)
Deleted ==
    /\ job.phase = "deleting"
    /\ status' = "none" /\ rows' = {} /\ container' = "none" /\ job' = Idle
    /\ proc' = Ended(InContainer)
    /\ UNCHANGED <<reg, pending, checking, singles, sweep>>

Removed(t) ==
    /\ job.phase = "removing" /\ t \in job.todo
    /\ reg' = [reg EXCEPT ![t] = None] /\ rows' = rows \ {t} /\ job' = Idle
    /\ UNCHANGED <<status, proc, pending, container, checking, singles, sweep>>

-----------------------------------------------------------------------------
(* startPodTerminals.  A container that is there is used as it is; a new   *)
(* one is created and started.                                             *)
ContainerReady ==
    /\ job.phase = "container"
    /\ container' = IF container = "none" THEN "up" ELSE container
    /\ job' = [job EXCEPT !.phase = "creating"]
    /\ UNCHANGED <<status, rows, reg, proc, pending, checking, singles, sweep>>

ContainerRefused ==
    /\ job.phase = "container" /\ setting.refuses /\ container = "none"
    /\ job' = [job EXCEPT !.phase = "creating", !.ko = job.todo # {}, !.todo = {}]
    /\ UNCHANGED <<status, rows, reg, proc, pending, container, checking, singles, sweep>>

(* A terminal that ended is started again as a PTY of the host, whatever   *)
(* the pod's runtime is.                                                   *)
Create(t) ==
    /\ job.phase = "creating" /\ t \in job.todo /\ job.made = None
    /\ job.op = "respawn" \/ CanExec
    /\ \E p \in Procs :
          /\ Born(p, t, IF job.op = "respawn" THEN "host" ELSE Place)
          /\ job' = [job EXCEPT !.made = p]
    /\ UNCHANGED <<status, rows, reg, pending, container, checking, singles, sweep>>

CreateRefused(t) ==
    /\ job.phase = "creating" /\ t \in job.todo /\ job.made = None
    /\ setting.docker /\ job.op # "respawn" /\ (~CanExec \/ setting.refuses)
    /\ job' = [job EXCEPT !.todo = @ \ {t}, !.ko = TRUE]
    /\ UNCHANGED <<status, rows, reg, proc, pending, container, checking, singles, sweep>>

Register ==
    /\ job.phase = "creating" /\ job.made # None
    /\ reg' = [reg EXCEPT ![proc[job.made].of] = job.made]
    /\ job' = IF job.op = "respawn" THEN Idle
              ELSE [job EXCEPT !.todo = @ \ {proc[job.made].of}, !.made = None, !.ok = TRUE]
    /\ UNCHANGED <<status, rows, proc, pending, container, checking, singles, sweep>>

Started ==
    /\ job.phase = "creating" /\ job.todo = {} /\ job.op # "respawn"
    /\ SetStatus(IF job.ok \/ ~job.ko THEN "running" ELSE "failed")
    /\ job' = Idle
    /\ UNCHANGED <<rows, reg, proc, pending, container, checking, singles, sweep>>

-----------------------------------------------------------------------------
ProcessEnds(p) ==
    /\ Live(p) /\ proc' = Ended({p})
    /\ UNCHANGED <<status, rows, reg, pending, job, container, checking, singles, sweep>>

(* handleTerminalExit.  It knows the terminal, not the process: what the   *)
(* terminal has registered by now is dropped.                              *)
Restarts(t) == t \in rows \cap Always /\ status = "running" /\ ~Transitioning

(* A stream is registered before its exit can be heard of. *)
Reportable(p) == proc[p].life = "ended" /\ p \notin singles \cup {job.made}

ExitReported(p) ==
    LET t == proc[p].of
    IN /\ Reportable(p)
       /\ proc' = [proc EXCEPT ![p] = NoProc]
       /\ reg' = [reg EXCEPT ![t] = None]
       /\ Restarts(t) => pending[t] < MaxPending
       /\ pending' = IF Restarts(t) THEN [pending EXCEPT ![t] = @ + 1] ELSE pending
       /\ checking' = (checking \/ ~Restarts(t))
       /\ UNCHANGED <<status, rows, job, container, singles, sweep>>

(* Mutant: the restart does not look again once it has the lock. *)
RespawnUnchecked(t) ==
    /\ ~Locked /\ pending[t] > 0 /\ pending' = [pending EXCEPT ![t] = @ - 1]
    /\ job' = [Idle EXCEPT !.op = "respawn", !.phase = "creating", !.todo = {t}]
    /\ UNCHANGED <<checking, status, rows, reg, proc, container, singles, sweep>>

(* Mutant: a restart that finds the lock taken gives up. *)
RespawnImpatient(t) ==
    /\ pending[t] > 0 /\ pending' = [pending EXCEPT ![t] = @ - 1]
    /\ IF ~Locked /\ status = "running" /\ t \in rows
       THEN /\ job' = [Idle EXCEPT !.op = "respawn", !.phase = "creating", !.todo = {t}]
            /\ UNCHANGED checking
       ELSE checking' = TRUE /\ UNCHANGED job
    /\ UNCHANGED <<status, rows, reg, proc, container, singles, sweep>>

(* The restart that has slept gets the lock and looks again. *)
Respawn(t) ==
    /\ ~Locked /\ pending[t] > 0 /\ pending' = [pending EXCEPT ![t] = @ - 1]
    /\ IF status = "running" /\ t \in rows
       THEN /\ job' = [Idle EXCEPT !.op = "respawn", !.phase = "creating", !.todo = {t}]
            /\ UNCHANGED checking
       ELSE checking' = TRUE /\ UNCHANGED job
    /\ UNCHANGED <<status, rows, reg, proc, container, singles, sweep>>

(* checkAllExited; a local PTY pod is never stopped by it. *)
CheckAllExited ==
    /\ checking /\ checking' = FALSE
    /\ status' = IF /\ setting.docker /\ status = "running" /\ rows # {}
                    /\ \A t \in rows : reg[t] = None
                 THEN "stopped" ELSE status
    /\ UNCHANGED <<rows, reg, proc, pending, job, container, singles, sweep>>

-----------------------------------------------------------------------------
(* startTerminal, up to the answer of the create, and after it. *)
StartTerminal(t) ==
    /\ setting.unlocked /\ status = "running" /\ t \in rows /\ reg[t] = None
    /\ CanExec
    /\ \E p \in Procs : Born(p, t, Place) /\ singles' = singles \cup {p}
    /\ UNCHANGED <<status, rows, reg, pending, job, container, checking, sweep>>

TerminalStarted(p) ==
    /\ p \in singles /\ singles' = singles \ {p}
    /\ reg' = [reg EXCEPT ![proc[p].of] = p]
    /\ UNCHANGED <<status, rows, proc, pending, job, container, checking, sweep>>

(* stopAllForWorkspace, for this pod; then the workspace is deleted, and   *)
(* the pod's row with it.                                                  *)
Sweep ==
    /\ setting.unlocked /\ sweep.phase = "idle" /\ status \in {"running", "starting"}
    /\ sweep' = [phase |-> "stopping", todo |-> rows]
    /\ UNCHANGED <<status, rows, reg, proc, pending, job, container, checking, singles>>

SweepOne(t) ==
    /\ t \in sweep.todo /\ sweep' = [sweep EXCEPT !.todo = @ \ {t}]
    /\ Unregisters(t)
    /\ UNCHANGED <<status, rows, pending, job, container, checking, singles>>

Swept ==
    /\ sweep.phase = "stopping" /\ sweep.todo = {}
    /\ Halts /\ SetStatus("stopped") /\ sweep' = [NoSweep EXCEPT !.phase = "deleting"]
    /\ UNCHANGED <<rows, reg, pending, job, checking, singles>>

WorkspaceDeleted ==
    /\ sweep.phase = "deleting" /\ sweep' = NoSweep
    /\ status' = "none" /\ rows' = {}
    /\ UNCHANGED <<reg, proc, pending, job, container, checking, singles>>

-----------------------------------------------------------------------------
(* Mutant: the boot leaves the status alone. *)
BootStatusKept == status

(* What the next boot makes of the status: resetStalePods, then            *)
(* recoverContainers.                                                      *)
BootStatus ==
    CASE container = "up" /\ status # "none" -> "stopped"
      [] container = "none" /\ status \in {"running", "starting", "stopping"} -> "stopped"
      [] OTHER -> status

(* The server dies, and its PTYs with it; containers stay. *)
Reboot ==
    /\ status' = BootStatus
    /\ reg' = [t \in Terminals |-> None] /\ pending' = NoRestarts
    /\ proc' = [p \in Procs |-> IF proc[p].place = "container" /\ Live(p) THEN proc[p] ELSE NoProc]
    /\ job' = Idle /\ checking' = FALSE /\ singles' = {} /\ sweep' = NoSweep
    /\ abandoned' = (container = "down")
    /\ UNCHANGED <<rows, container>>

-----------------------------------------------------------------------------
JobStep == \/ \E t \in Terminals : StopOne(t) \/ Removed(t) \/ Create(t)
                                     \/ CreateRefused(t)
           \/ Register \/ Stopped \/ Deleted \/ ContainerReady \/ ContainerRefused \/ Started

SweepStep == (\E t \in Terminals : SweepOne(t)) \/ Swept \/ WorkspaceDeleted

(* Without late exits the controller hears of an exit before it moves on. *)
Heard == setting.late \/ \A p \in Procs : ~Reportable(p)

Acts ==
    \/ Heard /\ \/ StartPod \/ StopPod \/ RestartPod \/ DeletePod
                \/ \E t \in Terminals : RemoveTerminal(t) \/ AddTerminal(t)
                                          \/ Respawn(t) \/ StartTerminal(t)
                \/ JobStep \/ CheckAllExited \/ Sweep \/ SweepStep
                \/ \E p \in singles : TerminalStarted(p)
    \/ \E p \in Procs : ProcessEnds(p) \/ ExitReported(p)

Next ==
    /\ UNCHANGED setting
    /\ \/ Acts /\ abandoned' = (abandoned /\ status' = status)
       \/ Reboot

Spec == Init /\ [][Next]_<<vars, setting, abandoned>>

(* Every await of a call returns and exits are reported; the lock is a     *)
(* first-come queue, so a restart gets it in its turn.                     *)
FairSpec ==
    /\ Spec /\ WF_vars(Heard /\ JobStep)
    /\ \A p \in Procs : WF_vars(ExitReported(p))
    /\ \A t \in Terminals : SF_vars(Heard /\ Respawn(t))

-----------------------------------------------------------------------------
(* Types of the state, the history set apart. *)
Typed ==
    /\ setting \in Settings
    /\ status \in {"none", "stopped", "starting", "running", "stopping", "failed"}
    /\ rows \subseteq Terminals /\ container \in {"none", "up", "down"} /\ checking \in BOOLEAN
    /\ reg \in [Terminals -> {None} \cup Procs]
    /\ proc \in [Procs -> [life : {"free", "live", "ended"}, of : {None} \cup Terminals,
                           place : {"host", "container"}]]
    /\ pending \in [Terminals -> 0 .. MaxPending]
    /\ job \in [op : {"none", "start", "stop", "restart", "delete", "remove", "respawn"},
                phase : {"idle", "stopping", "deleting", "removing", "container", "creating"},
                todo : SUBSET Terminals, made : {None} \cup Procs, ok : BOOLEAN, ko : BOOLEAN]
    /\ singles \subseteq Procs
    /\ sweep \in [phase : {"idle", "stopping", "deleting"}, todo : SUBSET Terminals]

(* Type invariant. *)
TypeOK == Typed /\ abandoned \in BOOLEAN

(* A pod of local PTYs whose exits are heard of in time, and on which       *)
(* nobody calls what takes no lock.                                        *)
Orderly == ~setting.docker /\ ~setting.late /\ ~setting.unlocked

(* "create-and-register of a stream is atomic with respect to teardown"    *)
(* (state.ts): every process of an orderly pod is registered for its       *)
(* terminal, so that stop, delete and removeTerminal can destroy it, or    *)
(* the holder of the lock is about to register it.                         *)
NoOrphans ==
    Orderly => \A p \in Procs : Live(p) => reg[proc[p].of] = p \/ job.made = p

(* No process outlives the stop or the deletion of an orderly pod: not one *)
(* a restart made in between, nor one whose restart was only pending.      *)
StoppedIsTornDown ==
    Orderly /\ status \in {"none", "stopped"} /\ ~Locked => \A p \in Procs : ~Live(p)

(* A pod that is said to be starting or stopping is in the hands of a call  *)
(* that will say how it went, whatever failed and whoever else was at it    *)
(* (start, stop, restart, recoverContainers).  The one exception is a       *)
(* status a crash left of a pod whose container was stopped, which no boot  *)
(* repairs, until something sets the status again.                         *)
TransientIsOwned ==
    status \in {"starting", "stopping"} => Transitioning \/ abandoned

(* A terminal with policy "always" that ended in a running pod runs again,  *)
(* unless the pod is stopped or the terminal removed first.                 *)
RestartsHappen ==
    \A t \in Terminals :
        Orderly /\ pending[t] > 0 /\ status = "running" ~>
            reg[t] # None \/ status # "running" \/ t \notin rows
=============================================================================
