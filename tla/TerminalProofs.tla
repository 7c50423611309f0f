--------------------------- MODULE TerminalProofs ---------------------------
(***************************************************************************)
(* Terminals: who answers for a pod and its processes, for any terminals,  *)
(* restart policies and bounds; and how the host that runs their PTYs      *)
(* keeps one of them from reading, for any water marks.                    *)
(*                                                                         *)
(* The pod.  The lock makes the calls follow each other, but not the       *)
(* processes: a process may end in the middle of any call and its exit     *)
(* removes whatever its terminal has registered.  That this never lets go  *)
(* of a live one rests on one thing: an orderly pod has at most one        *)
(* process per terminal.  So the invariant says when none is left: before  *)
(* one is created, while a restart is pending, and once a terminal is torn *)
(* down.                                                                   *)
(*                                                                         *)
(* The host.  The switch of a PTY says on or paused and not who turned it; *)
(* what links it to the count of unacknowledged chunks is the flow         *)
(* controller's own flag.  A terminal above its mark is held by its        *)
(* controller, since only an acknowledgement that leaves less than the low *)
(* mark lets it go; and one that is held is paused, unless a drain has     *)
(* turned the switch since.                                                *)
(***************************************************************************)
EXTENDS PodLifecycle, Sequences, TLAPS

CONSTANTS High, Low, MaxChunks   \* of the host
VARIABLES pty, subscribed, unread, batch, flow, stdout, acks, produced, drained, stranded

Host == INSTANCE TerminalHost WITH pending <- unread

(* What TerminalHost assumes of its constants. *)
Marks == High \in Nat /\ Low \in Nat \ {0} /\ Low <= High + 1 /\ MaxChunks \in Nat

-----------------------------------------------------------------------------
(* The pod. *)

Free(p) == proc[p].life = "free"

(* What a call that holds the lock can be at. *)
Shaped ==
    /\ \/ job = Idle
       \/ job.op \in {"stop", "restart", "delete"} /\ job.phase = "stopping"
       \/ job.op = "delete" /\ job.phase = "deleting"
       \/ job.op = "remove" /\ job.phase = "removing"
       \/ job.op \in {"start", "restart"} /\ job.phase \in {"container", "creating"}
       \/ job.op = "respawn" /\ job.phase = "creating"
    /\ job.phase # "creating" => job.made = None

(* What an orderly pod has none of. *)
Plain ==
    /\ singles = {} /\ sweep = NoSweep /\ container = "none"
    /\ job.phase # "container" /\ ~job.ko
    /\ \A p \in Procs : proc[p].place = "host"

(* The status says what the holder of the lock is at, and what is left     *)
(* running.                                                                *)
Honest ==
    /\ status # "failed"
    /\ job.op \in {"start", "restart"} => status = "starting"
    /\ job.op = "stop" => status = "stopping"
    /\ job.op = "respawn" => status = "running"
    /\ status \in {"none", "stopped"} => \A p \in Procs : ~Live(p)

Registered == \A p \in Procs : Live(p) => reg[proc[p].of] = p \/ job.made = p

OnePerTerminal ==
    \A p, q \in Procs : p # q /\ ~Free(p) /\ ~Free(q) => proc[p].of # proc[q].of

Placed == \A p \in Procs : Live(p) => proc[p].of \in rows

(* A restart waits for a terminal that has no process. *)
Waiting ==
    \A t \in Terminals : pending[t] > 0 =>
        /\ pending[t] = 1 /\ status = "running" /\ ~Transitioning
        /\ \A p \in Procs : ~Free(p) => proc[p].of # t

(* A terminal that is still to be started has no process, but for the one  *)
(* that was just made, and none of its restarts waits.                     *)
Creating ==
    job.phase = "creating" =>
        /\ job.todo \subseteq rows
        /\ \A t \in job.todo :
             /\ pending[t] = 0
             /\ \A p \in Procs : ~Free(p) /\ proc[p].of = t => p = job.made
        /\ job.made # None => ~Free(job.made) /\ proc[job.made].of \in job.todo

(* What a call that tears down is through with has no process. *)
TearingDown ==
    /\ job.phase = "stopping" => \A p \in Procs : Live(p) => proc[p].of \in job.todo
    /\ job.phase = "deleting" => \A p \in Procs : ~Live(p)
    /\ job.phase = "removing" => \A p \in Procs : Live(p) => proc[p].of \notin job.todo

Processes == Registered /\ OnePerTerminal /\ Placed
Calls == Waiting /\ Creating /\ TearingDown
OrderlyPod == Plain /\ Honest /\ Processes /\ Calls

(* A status that says starting or stopping is in the hands of a call, or    *)
(* the container is stopped: weaker than TransientIsOwned, but enough for a *)
(* pod that has no container.                                              *)
HeldOrHalted ==
    status \in {"starting", "stopping"} => Transitioning \/ container = "down"

IInv == Typed /\ Shaped /\ HeldOrHalted /\ (Orderly => OrderlyPod)

-----------------------------------------------------------------------------
(* Types. *)

ProcRecord ==
    [life : {"free", "live", "ended"}, of : {None} \cup Terminals, place : {"host", "container"}]

JobRecord ==
    [op : {"none", "start", "stop", "restart", "delete", "remove", "respawn"},
     phase : {"idle", "stopping", "deleting", "removing", "container", "creating"},
     todo : SUBSET Terminals, made : {None} \cup Procs, ok : BOOLEAN, ko : BOOLEAN]

LEMMA Parts ==
    ASSUME Typed
    PROVE  /\ setting \in Circumstances /\ setting \in Settings /\ rows \subseteq Terminals
           /\ status \in {"none", "stopped", "starting", "running", "stopping", "failed"}
           /\ container \in {"none", "up", "down"} /\ checking \in BOOLEAN
           /\ reg \in [Terminals -> {None} \cup Procs] /\ proc \in [Procs -> ProcRecord]
           /\ pending \in [Terminals -> 0 .. MaxPending] /\ job \in JobRecord
           /\ singles \subseteq Procs
           /\ sweep \in [phase : {"idle", "stopping", "deleting"}, todo : SUBSET Terminals]
  BY PodAssumption DEF Typed, ProcRecord, JobRecord

LEMMA PartsNext ==
    ASSUME setting' \in Settings, rows' \subseteq Terminals,
           status' \in {"none", "stopped", "starting", "running", "stopping", "failed"},
           container' \in {"none", "up", "down"}, checking' \in BOOLEAN,
           reg' \in [Terminals -> {None} \cup Procs], proc' \in [Procs -> ProcRecord],
           pending' \in [Terminals -> 0 .. MaxPending], job' \in JobRecord,
           singles' \subseteq Procs,
           sweep' \in [phase : {"idle", "stopping", "deleting"}, todo : SUBSET Terminals]
    PROVE  Typed'
  BY DEF Typed, ProcRecord, JobRecord

(* A process that ends keeps its terminal and its place. *)
LEMMA EndedOnly ==
    ASSUME Typed, NEW ps
    PROVE  /\ Ended(ps) \in [Procs -> ProcRecord]
           /\ \A p \in Procs :
                /\ Ended(ps)[p].of = proc[p].of /\ Ended(ps)[p].place = proc[p].place
                /\ Ended(ps)[p].life = "live" <=> Live(p) /\ p \notin ps
                /\ Ended(ps)[p].life = "free" <=> Free(p)
<1>1. proc \in [Procs -> ProcRecord] BY Parts
<1>2. \A p \in Procs : proc[p] \in ProcRecord BY <1>1
<1>3. \A p \in Procs : [proc[p] EXCEPT !.life = "ended"] \in ProcRecord
  BY <1>2 DEF ProcRecord
<1>4. Ended(ps) \in [Procs -> ProcRecord] BY <1>2, <1>3 DEF Ended
<1>5. \A p \in Procs :
        /\ Ended(ps)[p].of = proc[p].of /\ Ended(ps)[p].place = proc[p].place
        /\ Ended(ps)[p].life = "live" <=> Live(p) /\ p \notin ps
        /\ Ended(ps)[p].life = "free" <=> Free(p)
  BY <1>2 DEF Ended, ProcRecord, Live, Free
<1> QED BY <1>4, <1>5

LEMMA IdleType == Idle \in JobRecord /\ Idle.op = "none" /\ Idle.phase = "idle"
                  /\ Idle.todo = {} /\ Idle.made = None /\ Idle.ok = FALSE /\ Idle.ko = FALSE
  BY DEF Idle, JobRecord

IsCall(j, op, phase, todo) ==
    /\ j \in JobRecord /\ j.op = op /\ j.phase = phase /\ j.todo = todo
    /\ j.made = None /\ j.ko = FALSE

LEMMA CallTypes ==
    ASSUME Typed
    PROVE  /\ \A op \in {"start", "restart"} :
                /\ Starts(op) \in JobRecord /\ Starts(op).op = op /\ Starts(op).todo = rows
                /\ Starts(op).made = None /\ Starts(op).ko = FALSE
                /\ Starts(op).phase = IF setting.docker THEN "container" ELSE "creating"
           /\ \A op \in {"stop", "restart", "delete"} :
                /\ Stops(op) \in JobRecord /\ Stops(op).op = op /\ Stops(op).todo = rows
                /\ Stops(op).made = None /\ Stops(op).ko = FALSE /\ Stops(op).phase = "stopping"
           /\ \A t \in Terminals :
                /\ IsCall([Idle EXCEPT !.op = "remove", !.phase = "removing", !.todo = {t}],
                          "remove", "removing", {t})
                /\ IsCall([Idle EXCEPT !.op = "respawn", !.phase = "creating", !.todo = {t}],
                          "respawn", "creating", {t})
<1>1. rows \subseteq Terminals BY Parts
<1>2. \A op \in {"start", "restart"} :
        /\ Starts(op) \in JobRecord /\ Starts(op).op = op /\ Starts(op).todo = rows
        /\ Starts(op).made = None /\ Starts(op).ko = FALSE
        /\ Starts(op).phase = IF setting.docker THEN "container" ELSE "creating"
  BY <1>1 DEF Starts, Idle, JobRecord
<1>3. \A op \in {"stop", "restart", "delete"} :
        /\ Stops(op) \in JobRecord /\ Stops(op).op = op /\ Stops(op).todo = rows
        /\ Stops(op).made = None /\ Stops(op).ko = FALSE /\ Stops(op).phase = "stopping"
  BY <1>1 DEF Stops, Idle, JobRecord
<1>4. \A t \in Terminals :
        /\ IsCall([Idle EXCEPT !.op = "remove", !.phase = "removing", !.todo = {t}],
                  "remove", "removing", {t})
        /\ IsCall([Idle EXCEPT !.op = "respawn", !.phase = "creating", !.todo = {t}],
                  "respawn", "creating", {t})
  BY DEF IsCall, Idle, JobRecord
<1> QED BY <1>2, <1>3, <1>4

LEMMA NoRestartsType == NoRestarts \in [Terminals -> 0 .. MaxPending]
                        /\ \A t \in Terminals : NoRestarts[t] = 0
  BY PodAssumption DEF NoRestarts

LEMMA OrderlyParts ==
    ASSUME IInv, Orderly
    PROVE  /\ ~setting.docker /\ ~setting.late /\ ~setting.unlocked
           /\ Plain /\ Honest /\ Registered /\ OnePerTerminal /\ Placed
           /\ Waiting /\ Creating /\ TearingDown
  BY DEF IInv, Orderly, OrderlyPod, Processes, Calls

(* The controller has heard of every exit it can hear of. *)
LEMMA AllHeard ==
    ASSUME IInv, Orderly, Heard
    PROVE  \A p \in Procs : Free(p) \/ Live(p) \/ p = job.made
<1>1. ~setting.late /\ singles = {} BY OrderlyParts DEF Plain
<1>2. \A p \in Procs : proc[p] \in ProcRecord BY Parts DEF IInv
<1> QED BY <1>1, <1>2 DEF Heard, Reportable, Free, Live, ProcRecord

(* An orderly pod that no call has in its hands is not starting or         *)
(* stopping.                                                               *)
LEMMA Settled ==
    ASSUME IInv, Orderly, ~Locked
    PROVE  /\ status \in {"none", "stopped", "running"} /\ job = Idle
           /\ job.made = None /\ job.op = "none" /\ job.phase = "idle"
<1>1. job = Idle BY IdleType DEF IInv, Shaped, Locked
<1>2. status # "failed" /\ container = "none" BY OrderlyParts DEF Honest, Plain
<1>3. ~Transitioning BY <1>1, IdleType DEF Transitioning
<1> QED BY <1>1, <1>2, <1>3, IdleType DEF IInv, Typed, HeldOrHalted

LEMMA Assembled ==
    ASSUME setting' = setting, Typed', Shaped', HeldOrHalted',
           Orderly => Plain' /\ Honest' /\ Processes' /\ Calls'
    PROVE  IInv'
  BY DEF IInv, Orderly, OrderlyPod

-----------------------------------------------------------------------------
(* Calls that take the lock. *)

LEMMA StartPodKeeps == IInv /\ setting' = setting /\ Heard /\ StartPod => IInv'
<1> SUFFICES ASSUME IInv, setting' = setting, Heard, StartPod PROVE IInv' OBVIOUS
<1>1. /\ ~Locked /\ status \notin {"none", "running", "starting"}
      /\ status' = "starting" /\ job' = Starts("start")
      /\ rows' = rows /\ reg' = reg /\ proc' = proc /\ pending' = pending
      /\ container' = container /\ checking' = checking /\ singles' = singles /\ sweep' = sweep
  BY DEF StartPod
<1>2. /\ job' \in JobRecord /\ job'.op = "start" /\ job'.todo = rows
      /\ job'.made = None /\ job'.ko = FALSE
      /\ job'.phase = IF setting.docker THEN "container" ELSE "creating"
  BY <1>1, CallTypes DEF IInv
<1>3. Typed' BY <1>1, <1>2 DEF IInv, Typed, JobRecord
<1>4. Shaped' BY <1>2 DEF Shaped
<1>5. HeldOrHalted' BY <1>2 DEF HeldOrHalted, Transitioning
<1>6. ASSUME Orderly PROVE Plain' /\ Honest' /\ Processes' /\ Calls'
  <2>1. status = "stopped" /\ job.made = None BY <1>1, <1>6, Settled
  <2>2. \A p \in Procs : ~Live(p) BY <1>6, <2>1, OrderlyParts DEF Honest
  <2>3. \A p \in Procs : Free(p) BY <1>6, <2>1, <2>2, AllHeard DEF Procs, None
  <2>4. \A t \in Terminals : pending[t] = 0
    BY <1>6, <2>1, OrderlyParts, Parts DEF IInv, Waiting
  <2>5. Plain' BY <1>1, <1>2, <1>6, OrderlyParts DEF Plain
  <2>6. Honest' BY <1>1, <1>2 DEF Honest
  <2>7. Processes' BY <1>1, <2>2, <2>3 DEF Processes, Registered, OnePerTerminal, Placed, Live, Free
  <2>8. Calls' BY <1>1, <1>2, <1>6, <2>3, <2>4, OrderlyParts, Parts
        DEF IInv, Calls, Waiting, Creating, TearingDown, Free
  <2> QED BY <2>5, <2>6, <2>7, <2>8
<1> QED BY <1>3, <1>4, <1>5, <1>6, Assembled

(* stop, restart and delete have what is running before them. *)
LEMMA TearsDownKeeps == IInv /\ setting' = setting /\ (StopPod \/ RestartPod \/ DeletePod) => IInv'
<1> SUFFICES ASSUME IInv, setting' = setting, StopPod \/ RestartPod \/ DeletePod PROVE IInv'
  OBVIOUS
<1>1. PICK op \in {"stop", "restart", "delete"} :
        /\ ~Locked /\ status # "none"
        /\ job' = Stops(op) /\ pending' = NoRestarts
        /\ status' = IF op = "stop" THEN "stopping"
                     ELSE IF op = "restart" THEN "starting" ELSE status
        /\ rows' = rows /\ reg' = reg /\ proc' = proc
        /\ container' = container /\ checking' = checking /\ singles' = singles /\ sweep' = sweep
  BY DEF StopPod, RestartPod, DeletePod
<1>2. /\ job' \in JobRecord /\ job'.op = op /\ job'.todo = rows
      /\ job'.made = None /\ job'.ko = FALSE /\ job'.phase = "stopping"
  BY <1>1, CallTypes DEF IInv
<1>3. Typed' BY <1>1, <1>2, NoRestartsType DEF IInv, Typed, JobRecord
<1>4. Shaped' BY <1>2 DEF Shaped
<1>5. HeldOrHalted' BY <1>2 DEF HeldOrHalted, Transitioning
<1>6. ASSUME Orderly PROVE Plain' /\ Honest' /\ Processes' /\ Calls'
  <2>1. job.made = None /\ status \in {"stopped", "running"} BY <1>1, <1>6, Settled
  <2>2. Plain' BY <1>1, <1>2, <1>6, OrderlyParts DEF Plain
  <2>3. Honest' BY <1>1, <1>2, <1>6, <2>1, OrderlyParts DEF Honest, Live
  <2>4. Processes' BY <1>1, <1>2, <1>6, <2>1, OrderlyParts
    DEF Processes, Registered, OnePerTerminal, Placed, Live, Free, Procs, None
  <2>5. Waiting' BY <1>1, NoRestartsType DEF Waiting
  <2>6. Creating' /\ TearingDown' BY <1>1, <1>2, <1>6, OrderlyParts
    DEF Creating, TearingDown, Placed, Live
  <2> QED BY <2>2, <2>3, <2>4, <2>5, <2>6 DEF Calls
<1> QED BY <1>3, <1>4, <1>5, <1>6, Assembled

LEMMA RemoveTerminalKeeps ==
    ASSUME IInv, setting' = setting, NEW t \in Terminals, RemoveTerminal(t)
    PROVE  IInv'
<1>1. /\ ~Locked /\ t \in rows
      /\ job' = [Idle EXCEPT !.op = "remove", !.phase = "removing", !.todo = {t}]
      /\ proc' = proc \/ (~setting.docker /\ proc' = Ended({reg[t]}))
      /\ ~setting.docker => proc' = Ended({reg[t]})
      /\ status' = status /\ rows' = rows /\ reg' = reg /\ pending' = pending
      /\ container' = container /\ checking' = checking /\ singles' = singles /\ sweep' = sweep
  BY DEF RemoveTerminal
<1>2. /\ job' \in JobRecord /\ job'.op = "remove" /\ job'.todo = {t} /\ job'.phase = "removing"
      /\ job'.made = None /\ job'.ko = FALSE
  BY <1>1, CallTypes DEF IInv, IsCall
<1>3. proc' \in [Procs -> ProcRecord] BY <1>1, EndedOnly, Parts DEF IInv
<1>4. Typed' BY <1>1, <1>2, <1>3 DEF IInv, Typed, JobRecord, ProcRecord
<1>5. Shaped' BY <1>2 DEF Shaped
<1>6. job = Idle BY <1>1 DEF IInv, Shaped, Locked
<1>7. ~Transitioning BY <1>6, IdleType DEF Transitioning
<1>8. HeldOrHalted' BY <1>1, <1>7 DEF IInv, HeldOrHalted
<1>9. ASSUME Orderly PROVE Plain' /\ Honest' /\ Processes' /\ Calls'
  <2>1. job.made = None /\ job.op = "none" BY <1>1, <1>9, Settled
  <2>2. \A p \in Procs : /\ proc'[p].of = proc[p].of /\ proc'[p].place = proc[p].place
                         /\ Live(p)' <=> Live(p) /\ p # reg[t]
                         /\ Free(p)' <=> Free(p)
    BY <1>1, <1>9, EndedOnly, OrderlyParts DEF IInv, Live, Free
  <2>3. Plain' BY <1>1, <1>2, <1>9, <2>2, OrderlyParts DEF Plain
  <2>4. Honest' BY <1>1, <1>2, <1>9, <2>2, OrderlyParts DEF Honest
  <2>5. \A p \in Procs : Live(p) => reg[proc[p].of] = p
    BY <1>9, <2>1, OrderlyParts DEF Registered, Procs, None
  <2>6. Processes' BY <1>1, <1>9, <2>2, <2>5, OrderlyParts
    DEF Processes, Registered, OnePerTerminal, Placed
  <2>7. Waiting' BY <1>1, <1>2, <1>9, <2>2, OrderlyParts DEF Waiting, Transitioning
  <2>8. Creating' /\ TearingDown' BY <1>1, <1>2, <2>2, <2>5 DEF Creating, TearingDown
  <2> QED BY <2>3, <2>4, <2>6, <2>7, <2>8 DEF Calls
<1> QED BY <1>4, <1>5, <1>8, <1>9, Assembled

LEMMA AddTerminalKeeps ==
    ASSUME IInv, setting' = setting, NEW t \in Terminals, AddTerminal(t)
    PROVE  IInv'
<1>1. /\ rows' = rows \cup {t} /\ status' = status /\ reg' = reg /\ proc' = proc
      /\ pending' = pending /\ job' = job
      /\ container' = container /\ checking' = checking /\ singles' = singles /\ sweep' = sweep
  BY DEF AddTerminal
<1>2. Typed' BY <1>1 DEF IInv, Typed
<1>3. Shaped' BY <1>1 DEF IInv, Shaped
<1>4. HeldOrHalted' BY <1>1 DEF IInv, HeldOrHalted, Transitioning
<1>5. ASSUME Orderly PROVE Plain' /\ Honest' /\ Processes' /\ Calls'
  <2>1. Plain' /\ Honest' BY <1>1, <1>5, OrderlyParts DEF Plain, Honest, Live
  <2>2. Processes' BY <1>1, <1>5, OrderlyParts
    DEF Processes, Registered, OnePerTerminal, Placed, Live, Free
  <2>3. Calls' BY <1>1, <1>5, OrderlyParts
    DEF Calls, Waiting, Creating, TearingDown, Transitioning, Live, Free
  <2> QED BY <2>1, <2>2, <2>3
<1> QED BY <1>2, <1>3, <1>4, <1>5, Assembled

-----------------------------------------------------------------------------
(* Tearing down. *)

LEMMA StopOneKeeps ==
    ASSUME IInv, setting' = setting, NEW t \in Terminals, StopOne(t)
    PROVE  IInv'
<1>1. /\ job.phase = "stopping" /\ t \in job.todo
      /\ reg' = [reg EXCEPT ![t] = None] /\ job' = [job EXCEPT !.todo = @ \ {t}]
      /\ proc' = proc \/ proc' = Ended({reg[t]})
      /\ ~setting.docker => proc' = Ended({reg[t]})
      /\ status' = status /\ rows' = rows /\ pending' = pending
      /\ container' = container /\ checking' = checking /\ singles' = singles /\ sweep' = sweep
  BY DEF StopOne, Unregisters
<1>2. job \in JobRecord /\ reg \in [Terminals -> {None} \cup Procs] BY Parts DEF IInv
<1>3. /\ job' \in JobRecord /\ job'.op = job.op /\ job'.phase = job.phase
      /\ job'.todo = job.todo \ {t} /\ job'.made = job.made /\ job'.ko = job.ko
  BY <1>1, <1>2 DEF JobRecord
<1>4. proc' \in [Procs -> ProcRecord] BY <1>1, EndedOnly, Parts DEF IInv
<1>5. Typed' BY <1>1, <1>2, <1>3, <1>4 DEF IInv, Typed, JobRecord, ProcRecord
<1>6. job.op \in {"stop", "restart", "delete"} /\ job.made = None
  BY <1>1, IdleType DEF IInv, Shaped
<1>7. Shaped' BY <1>1, <1>3, <1>6 DEF Shaped
<1>8. HeldOrHalted' BY <1>3, <1>6 DEF HeldOrHalted, Transitioning
<1>9. ASSUME Orderly PROVE Plain' /\ Honest' /\ Processes' /\ Calls'
  <2>1. \A p \in Procs : /\ proc'[p].of = proc[p].of /\ proc'[p].place = proc[p].place
                         /\ Live(p)' <=> Live(p) /\ p # reg[t]
                         /\ Free(p)' <=> Free(p)
    BY <1>1, <1>9, EndedOnly, OrderlyParts DEF IInv, Live, Free
  <2>2. Plain' BY <1>1, <1>3, <1>9, <2>1, OrderlyParts DEF Plain
  <2>3. Honest' BY <1>1, <1>3, <1>9, <2>1, OrderlyParts DEF Honest
  <2>4. \A p \in Procs : Live(p) => reg[proc[p].of] = p
    BY <1>6, <1>9, OrderlyParts DEF Registered, Procs, None
  <2>5. \A p \in Procs : Live(p)' => proc[p].of # t /\ proc[p].of \in job.todo
    BY <1>1, <1>9, <2>1, <2>4, OrderlyParts DEF TearingDown
  <2>6. \A p \in Procs : Live(p)' => reg'[proc[p].of] = p
    BY <1>1, <1>2, <2>1, <2>4, <2>5 DEF Procs, None
  <2>7. Processes' BY <1>1, <1>9, <2>1, <2>6, OrderlyParts
    DEF Processes, Registered, OnePerTerminal, Placed
  <2>8. Waiting' BY <1>1, <1>3, <1>9, <2>1, OrderlyParts DEF Waiting, Transitioning
  <2>9. Creating' /\ TearingDown' BY <1>1, <1>3, <2>1, <2>5 DEF Creating, TearingDown
  <2> QED BY <2>2, <2>3, <2>7, <2>8, <2>9 DEF Calls
<1> QED BY <1>5, <1>7, <1>8, <1>9, Assembled

LEMMA StoppedKeeps == IInv /\ setting' = setting /\ Heard /\ Stopped => IInv'
<1> SUFFICES ASSUME IInv, setting' = setting, Heard, Stopped PROVE IInv' OBVIOUS
<1>1. /\ job.phase = "stopping" /\ job.todo = {}
      /\ container' = IF container = "up" THEN "down" ELSE container
      /\ proc' = IF container = "up" THEN Ended(InContainer) ELSE proc
      /\ status' = IF job.op = "stop" /\ status # "none" THEN "stopped" ELSE status
      /\ rows' = rows /\ reg' = reg /\ pending' = pending
      /\ checking' = checking /\ singles' = singles /\ sweep' = sweep
  BY DEF Stopped, Halts, SetStatus
<1>2. job.op \in {"stop", "restart", "delete"} /\ job.made = None /\ job \in JobRecord
  BY <1>1, IdleType, Parts DEF IInv, Shaped
<1>3. proc' \in [Procs -> ProcRecord] BY <1>1, EndedOnly, Parts DEF IInv
<1>4. \/ job' = Idle /\ status' # "starting" /\ status' # "stopping"
         /\ (job.op = "stop" \/ status' = "none")
      \/ /\ job.op = "delete" /\ job' \in JobRecord /\ job'.op = "delete"
         /\ job'.phase = "deleting" /\ job'.todo = {} /\ job'.made = None /\ job'.ko = job.ko
      \/ /\ job.op = "restart" /\ job' \in JobRecord /\ job'.op = "restart" /\ job'.todo = rows
         /\ job'.made = None /\ job'.ko = FALSE
         /\ job'.phase = IF setting.docker THEN "container" ELSE "creating"
  <2>1. CASE job.op = "stop"
    <3>1. job' = Idle BY <2>1 DEF Stopped
    <3> QED BY <1>1, <2>1, <3>1
  <2>2. CASE job.op = "delete"
    <3>1. job' = [job EXCEPT !.phase = "deleting"] BY <2>2 DEF Stopped
    <3> QED BY <1>1, <1>2, <2>2, <3>1 DEF JobRecord
  <2>3. CASE job.op = "restart"
    <3>1. job' = IF status = "none" THEN Idle ELSE Starts("restart") BY <2>3 DEF Stopped
    <3> QED BY <1>1, <2>3, <3>1, CallTypes DEF IInv
  <2> QED BY <1>2, <2>1, <2>2, <2>3
<1>5. job' \in JobRecord BY <1>4, IdleType
<1>6. Typed' BY <1>1, <1>3, <1>5 DEF IInv, Typed, JobRecord, ProcRecord
<1>7. Shaped' BY <1>4, IdleType DEF Shaped
<1>8. HeldOrHalted' BY <1>4 DEF HeldOrHalted, Transitioning
<1>9. ASSUME Orderly PROVE Plain' /\ Honest' /\ Processes' /\ Calls'
  <2>1. container = "none" /\ proc' = proc /\ container' = "none"
    BY <1>1, <1>9, OrderlyParts DEF Plain
  <2>2. \A p \in Procs : ~Live(p) BY <1>1, <1>9, OrderlyParts DEF TearingDown
  <2>3. \A p \in Procs : Free(p) BY <1>2, <1>9, <2>2, AllHeard DEF Procs, None
  <2>4. \A t \in Terminals : pending[t] = 0
    BY <1>2, <1>9, OrderlyParts, Parts DEF IInv, Waiting, Transitioning
  <2>5. Plain' BY <1>1, <1>4, <1>9, <2>1, OrderlyParts, IdleType DEF Plain
  <2>6. Honest' BY <1>1, <1>4, <1>9, <2>1, <2>2, OrderlyParts, IdleType DEF Honest, Live
  <2>7. Processes' BY <2>1, <2>2, <2>3 DEF Processes, Registered, OnePerTerminal, Placed, Live, Free
  <2>8. Waiting' BY <1>1, <2>4 DEF Waiting
  <2>9. Creating' /\ TearingDown' BY <1>1, <1>4, <2>1, <2>2, <2>3, <2>4, IdleType, Parts
    DEF IInv, Creating, TearingDown, Live, Free
  <2> QED BY <2>5, <2>6, <2>7, <2>8, <2>9 DEF Calls
<1> QED BY <1>6, <1>7, <1>8, <1>9, Assembled

LEMMA DeletedKeeps == IInv /\ setting' = setting /\ Deleted => IInv'
<1> SUFFICES ASSUME IInv, setting' = setting, Deleted PROVE IInv' OBVIOUS
<1>1. /\ job.phase = "deleting" /\ status' = "none" /\ rows' = {} /\ container' = "none"
      /\ job' = Idle /\ proc' = Ended(InContainer)
      /\ reg' = reg /\ pending' = pending
      /\ checking' = checking /\ singles' = singles /\ sweep' = sweep
  BY DEF Deleted
<1>2. proc' \in [Procs -> ProcRecord] BY <1>1, EndedOnly DEF IInv
<1>3. Typed' BY <1>1, <1>2, IdleType DEF IInv, Typed, JobRecord, ProcRecord
<1>4. Shaped' BY <1>1, IdleType DEF Shaped
<1>5. HeldOrHalted' BY <1>1 DEF HeldOrHalted
<1>6. ASSUME Orderly PROVE Plain' /\ Honest' /\ Processes' /\ Calls'
  <2>1. \A p \in Procs : /\ proc'[p].of = proc[p].of /\ proc'[p].place = proc[p].place
                         /\ Live(p)' => Live(p)
                         /\ Free(p)' <=> Free(p)
    BY <1>1, EndedOnly DEF IInv, Live, Free
  <2>2. \A p \in Procs : ~Live(p)' BY <1>1, <1>6, <2>1, OrderlyParts DEF TearingDown
  <2>3. job.op = "delete" BY <1>1, IdleType DEF IInv, Shaped
  <2>4. \A t \in Terminals : pending[t] = 0
    BY <1>6, <2>3, OrderlyParts, Parts DEF IInv, Waiting, Transitioning
  <2>5. Plain' BY <1>1, <1>6, <2>1, OrderlyParts, IdleType DEF Plain
  <2>6. Honest' BY <1>1, <2>2, IdleType DEF Honest
  <2>7. Processes' BY <1>6, <2>1, <2>2, OrderlyParts
    DEF Processes, Registered, OnePerTerminal, Placed
  <2>8. Calls' BY <1>1, <2>4, IdleType DEF Calls, Waiting, Creating, TearingDown
  <2> QED BY <2>5, <2>6, <2>7, <2>8
<1> QED BY <1>3, <1>4, <1>5, <1>6, Assembled

LEMMA RemovedKeeps ==
    ASSUME IInv, setting' = setting, NEW t \in Terminals, Removed(t)
    PROVE  IInv'
<1>1. /\ job.phase = "removing" /\ t \in job.todo
      /\ reg' = [reg EXCEPT ![t] = None] /\ rows' = rows \ {t} /\ job' = Idle
      /\ status' = status /\ proc' = proc /\ pending' = pending
      /\ container' = container /\ checking' = checking /\ singles' = singles /\ sweep' = sweep
  BY DEF Removed
<1>2. job.op = "remove" /\ job.made = None BY <1>1, IdleType DEF IInv, Shaped
<1>3. reg \in [Terminals -> {None} \cup Procs] BY Parts DEF IInv
<1>4. Typed' BY <1>1, <1>3, IdleType DEF IInv, Typed, JobRecord
<1>5. Shaped' BY <1>1, IdleType DEF Shaped
<1>6. HeldOrHalted' BY <1>1, <1>2, IdleType DEF IInv, HeldOrHalted, Transitioning
<1>7. ASSUME Orderly PROVE Plain' /\ Honest' /\ Processes' /\ Calls'
  <2>1. \A p \in Procs : Live(p) => proc[p].of # t /\ reg[proc[p].of] = p
    BY <1>1, <1>2, <1>7, OrderlyParts DEF TearingDown, Registered, Procs, None
  <2>2. Plain' BY <1>1, <1>7, OrderlyParts, IdleType DEF Plain
  <2>3. Honest' BY <1>1, <1>7, OrderlyParts, IdleType DEF Honest, Live
  <2>4. Processes'
    <3>1. \A p \in Procs : Live(p) => reg'[proc[p].of] = p
      BY <1>1, <1>3, <2>1 DEF Procs, None
    <3> QED BY <1>1, <1>7, <2>1, <3>1, OrderlyParts
      DEF Processes, Registered, OnePerTerminal, Placed, Live, Free
  <2>5. Calls' BY <1>1, <1>7, OrderlyParts, IdleType
    DEF Calls, Waiting, Creating, TearingDown, Transitioning, Free
  <2> QED BY <2>2, <2>3, <2>4, <2>5
<1> QED BY <1>4, <1>5, <1>6, <1>7, Assembled

-----------------------------------------------------------------------------
(* Starting. *)

LEMMA ContainerKeeps == IInv /\ setting' = setting /\ (ContainerReady \/ ContainerRefused) => IInv'
<1> SUFFICES ASSUME IInv, setting' = setting, ContainerReady \/ ContainerRefused PROVE IInv'
  OBVIOUS
<1>1. /\ job.phase = "container"
      /\ container' = container \/ (container = "none" /\ container' = "up")
      /\ \/ job' = [job EXCEPT !.phase = "creating"]
         \/ job' = [job EXCEPT !.phase = "creating", !.ko = job.todo # {}, !.todo = {}]
      /\ status' = status /\ rows' = rows /\ reg' = reg /\ proc' = proc /\ pending' = pending
      /\ checking' = checking /\ singles' = singles /\ sweep' = sweep
  BY DEF ContainerReady, ContainerRefused
<1>2. job \in JobRecord BY Parts DEF IInv
<1>3. /\ job' \in JobRecord /\ job'.op = job.op /\ job'.phase = "creating"
      /\ job'.made = job.made
  BY <1>1, <1>2 DEF JobRecord
<1>4. job.op \in {"start", "restart"} /\ job.made = None BY <1>1, IdleType DEF IInv, Shaped
<1>5. Typed' BY <1>1, <1>3 DEF IInv, Typed, JobRecord
<1>6. Shaped' BY <1>3, <1>4 DEF Shaped
<1>7. HeldOrHalted' BY <1>3, <1>4 DEF HeldOrHalted, Transitioning
<1>8. ~Orderly BY <1>1, OrderlyParts DEF Plain
<1> QED BY <1>5, <1>6, <1>7, <1>8, Assembled

LEMMA CreateKeeps ==
    ASSUME IInv, setting' = setting, NEW t \in Terminals, Create(t)
    PROVE  IInv'
<1>1. PICK p \in Procs :
        /\ job.phase = "creating" /\ t \in job.todo /\ job.made = None
        /\ Born(p, t, IF job.op = "respawn" THEN "host" ELSE Place)
        /\ job' = [job EXCEPT !.made = p]
        /\ status' = status /\ rows' = rows /\ reg' = reg /\ pending' = pending
        /\ container' = container /\ checking' = checking /\ singles' = singles /\ sweep' = sweep
  BY DEF Create
<1>2. PICK place \in {"host", "container"} :
        /\ Free(p) /\ proc' = [proc EXCEPT ![p] = [life |-> "live", of |-> t, place |-> place]]
        /\ ~setting.docker => place = "host"
  BY <1>1 DEF Born, Place, Free
<1>3. job \in JobRecord /\ proc \in [Procs -> ProcRecord] BY Parts DEF IInv
<1>4. /\ job' \in JobRecord /\ job'.op = job.op /\ job'.phase = job.phase
      /\ job'.todo = job.todo /\ job'.made = p /\ job'.ko = job.ko
  BY <1>1, <1>3 DEF JobRecord
<1>5. proc' \in [Procs -> ProcRecord] BY <1>2, <1>3 DEF ProcRecord
<1>6. Typed' BY <1>1, <1>4, <1>5 DEF IInv, Typed, JobRecord, ProcRecord
<1>7. job.op \in {"start", "restart", "respawn"} BY <1>1, IdleType DEF IInv, Shaped
<1>8. Shaped' BY <1>1, <1>4, <1>7 DEF Shaped
<1>9. HeldOrHalted' BY <1>1, <1>4 DEF IInv, HeldOrHalted, Transitioning
<1>10. ASSUME Orderly PROVE Plain' /\ Honest' /\ Processes' /\ Calls'
  <2>1. /\ proc'[p].of = t /\ proc'[p].place = "host" /\ Live(p)' /\ ~Free(p)'
        /\ \A q \in Procs : q # p => proc'[q] = proc[q] /\ Live(q)' = Live(q) /\ Free(q)' = Free(q)
    BY <1>2, <1>3, <1>10, OrderlyParts DEF Live, Free
  <2>2. \A q \in Procs : ~Free(q) => proc[q].of # t
    BY <1>1, <1>10, OrderlyParts DEF Creating, Procs, None
  <2>3. job.todo \subseteq rows /\ pending[t] = 0 BY <1>1, <1>10, OrderlyParts DEF Creating
  <2>4. Plain' BY <1>1, <1>4, <1>10, <2>1, OrderlyParts DEF Plain
  <2>5. status \notin {"none", "stopped"} BY <1>7, <1>10, OrderlyParts DEF Honest
  <2>6. Honest' BY <1>1, <1>4, <1>10, <2>5, OrderlyParts DEF Honest
  <2>7. Registered' BY <1>1, <1>4, <1>10, <2>1, OrderlyParts DEF Registered, Procs, None
  <2>8. OnePerTerminal' BY <1>10, <2>1, <2>2, OrderlyParts DEF OnePerTerminal
  <2>9. Placed' BY <1>1, <1>10, <2>1, <2>3, OrderlyParts DEF Placed
  <2>10. Waiting'
    BY <1>1, <1>4, <1>10, <2>1, <2>3, OrderlyParts DEF Waiting, Transitioning
  <2>11. Creating'
    <3>1. \A u \in job.todo : \A q \in Procs : ~Free(q)' /\ proc'[q].of = u => q = p
      BY <1>1, <1>10, <2>1, OrderlyParts DEF Creating, Procs, None
    <3>2. \A u \in job.todo : pending[u] = 0 BY <1>1, <1>10, OrderlyParts DEF Creating
    <3> QED BY <1>1, <1>4, <2>1, <2>3, <3>1, <3>2 DEF Creating
  <2>12. TearingDown' BY <1>1, <1>4 DEF TearingDown
  <2> QED BY <2>4, <2>6, <2>7, <2>8, <2>9, <2>10, <2>11, <2>12 DEF Processes, Calls
<1> QED BY <1>6, <1>8, <1>9, <1>10, Assembled

LEMMA CreateRefusedKeeps ==
    ASSUME IInv, setting' = setting, NEW t \in Terminals, CreateRefused(t)
    PROVE  IInv'
<1>1. /\ job.phase = "creating" /\ job.made = None /\ setting.docker
      /\ job' = [job EXCEPT !.todo = @ \ {t}, !.ko = TRUE]
      /\ status' = status /\ rows' = rows /\ reg' = reg /\ proc' = proc /\ pending' = pending
      /\ container' = container /\ checking' = checking /\ singles' = singles /\ sweep' = sweep
  BY DEF CreateRefused
<1>2. job \in JobRecord BY Parts DEF IInv
<1>3. /\ job' \in JobRecord /\ job'.op = job.op /\ job'.phase = job.phase
      /\ job'.made = job.made
  BY <1>1, <1>2 DEF JobRecord
<1>4. Typed' BY <1>1, <1>3 DEF IInv, Typed, JobRecord
<1>5. job.op \in {"start", "restart", "respawn"} BY <1>1, IdleType DEF IInv, Shaped
<1>6. Shaped' BY <1>1, <1>3, <1>5 DEF Shaped
<1>7. HeldOrHalted' BY <1>1, <1>3 DEF IInv, HeldOrHalted, Transitioning
<1>8. ~Orderly BY <1>1 DEF Orderly
<1> QED BY <1>4, <1>6, <1>7, <1>8, Assembled

LEMMA RegisterKeeps == IInv /\ setting' = setting /\ Register => IInv'
<1> SUFFICES ASSUME IInv, setting' = setting, Register PROVE IInv' OBVIOUS
<1> DEFINE m == job.made
           t == proc[m].of
<1>1. /\ job.phase = "creating" /\ m # None
      /\ reg' = [reg EXCEPT ![t] = m]
      /\ job' = IF job.op = "respawn" THEN Idle
                ELSE [job EXCEPT !.todo = @ \ {t}, !.made = None, !.ok = TRUE]
      /\ status' = status /\ rows' = rows /\ proc' = proc /\ pending' = pending
      /\ container' = container /\ checking' = checking /\ singles' = singles /\ sweep' = sweep
  BY DEF Register
<1>2. job \in JobRecord /\ reg \in [Terminals -> {None} \cup Procs] BY Parts DEF IInv
<1>3. m \in Procs BY <1>1, <1>2 DEF JobRecord
<1>4. job.op \in {"start", "restart", "respawn"} BY <1>1, IdleType DEF IInv, Shaped
<1>5. \/ job.op = "respawn" /\ job' = Idle
      \/ /\ job.op # "respawn" /\ job' \in JobRecord /\ job'.op = job.op /\ job'.phase = "creating"
         /\ job'.todo = job.todo \ {t} /\ job'.made = None /\ job'.ko = job.ko
  BY <1>1, <1>2 DEF JobRecord, None
<1>6. job' \in JobRecord BY <1>5, IdleType
<1>7. Typed' BY <1>1, <1>2, <1>3, <1>6 DEF IInv, Typed, JobRecord
<1>8. Shaped' BY <1>4, <1>5, IdleType DEF Shaped
<1>9. HeldOrHalted' BY <1>1, <1>5 DEF IInv, HeldOrHalted, Transitioning
<1>10. ASSUME Orderly PROVE Plain' /\ Honest' /\ Processes' /\ Calls'
  <2>1. ~Free(m) /\ t \in job.todo /\ job.todo \subseteq rows
    BY <1>1, <1>10, OrderlyParts DEF Creating
  <2>2. t \in Terminals BY <1>2, <2>1 DEF JobRecord
  <2>3. \A q \in Procs : ~Free(q) /\ q # m => proc[q].of # t
    BY <1>3, <1>10, <2>1, OrderlyParts DEF OnePerTerminal
  <2>4. \A q \in Procs : Live(q) => ~Free(q) BY DEF Live, Free
  <2>5. \A q \in Procs : Live(q) => reg'[proc[q].of] = q
    BY <1>1, <1>2, <1>10, <2>2, <2>3, <2>4, OrderlyParts DEF Registered
  <2>6. Plain' BY <1>1, <1>5, <1>10, OrderlyParts, IdleType DEF Plain
  <2>7. Honest' BY <1>1, <1>5, <1>10, OrderlyParts, IdleType DEF Honest, Live
  <2>8. Processes' BY <1>1, <1>10, <2>5, OrderlyParts
    DEF Processes, Registered, OnePerTerminal, Placed, Live, Free
  <2>9. Waiting' BY <1>1, <1>5, <1>10, OrderlyParts, IdleType DEF Waiting, Transitioning, Free
  <2>10. Creating'
    <3>1. job.op # "respawn" =>
            \A u \in job.todo \ {t} : \A q \in Procs : ~Free(q) => proc[q].of # u
      BY <1>1, <1>10, <2>3, OrderlyParts DEF Creating
    <3>2. \A u \in job.todo : pending[u] = 0 BY <1>1, <1>10, OrderlyParts DEF Creating
    <3> QED BY <1>1, <1>5, <2>1, <3>1, <3>2, IdleType DEF Creating, Free
  <2>11. TearingDown' BY <1>5, IdleType DEF TearingDown
  <2> QED BY <2>6, <2>7, <2>8, <2>9, <2>10, <2>11 DEF Calls
<1> QED BY <1>7, <1>8, <1>9, <1>10, Assembled

LEMMA StartedKeeps == IInv /\ setting' = setting /\ Started => IInv'
<1> SUFFICES ASSUME IInv, setting' = setting, Started PROVE IInv' OBVIOUS
<1>1. /\ job.phase = "creating" /\ job.todo = {} /\ job.op # "respawn" /\ job' = Idle
      /\ status' \in {"none", "running", "failed"}
      /\ ~job.ko => status' \in {"none", "running"}
      /\ status' = "none" => status = "none"
      /\ rows' = rows /\ reg' = reg /\ proc' = proc /\ pending' = pending
      /\ container' = container /\ checking' = checking /\ singles' = singles /\ sweep' = sweep
  BY DEF Started, SetStatus
<1>2. Typed' BY <1>1, IdleType DEF IInv, Typed, JobRecord
<1>3. Shaped' BY <1>1, IdleType DEF Shaped
<1>4. HeldOrHalted' BY <1>1 DEF HeldOrHalted
<1>5. ASSUME Orderly PROVE Plain' /\ Honest' /\ Processes' /\ Calls'
  <2>1. job.op \in {"start", "restart"} BY <1>1, IdleType DEF IInv, Shaped
  <2>2. status' = "running" BY <1>1, <1>5, <2>1, OrderlyParts DEF Honest, Plain
  <2>3. job.made = None BY <1>1, <1>5, OrderlyParts DEF Creating
  <2>4. Plain' BY <1>1, <1>5, OrderlyParts, IdleType DEF Plain
  <2>5. Honest' BY <1>1, <2>2, IdleType DEF Honest
  <2>6. Processes' BY <1>1, <1>5, <2>3, OrderlyParts
    DEF Processes, Registered, OnePerTerminal, Placed, Live, Free, Procs, None
  <2>7. Calls' BY <1>1, <1>5, <2>1, OrderlyParts, IdleType
    DEF Calls, Waiting, Creating, TearingDown, Transitioning, Free
  <2> QED BY <2>4, <2>5, <2>6, <2>7
<1> QED BY <1>2, <1>3, <1>4, <1>5, Assembled

-----------------------------------------------------------------------------
(* Exits and restarts. *)

LEMMA ProcessEndsKeeps ==
    ASSUME IInv, setting' = setting, NEW p \in Procs, ProcessEnds(p)
    PROVE  IInv'
<1>1. /\ proc' = Ended({p})
      /\ status' = status /\ rows' = rows /\ reg' = reg /\ pending' = pending /\ job' = job
      /\ container' = container /\ checking' = checking /\ singles' = singles /\ sweep' = sweep
  BY DEF ProcessEnds
<1>2. /\ proc' \in [Procs -> ProcRecord]
      /\ \A q \in Procs : /\ proc'[q].of = proc[q].of /\ proc'[q].place = proc[q].place
                          /\ (Live(q)' => Live(q)) /\ (Free(q)' <=> Free(q))
  BY <1>1, EndedOnly DEF IInv, Live, Free
<1>3. Typed' BY <1>1, <1>2, Parts, PartsNext DEF IInv
<1>4. Shaped' BY <1>1 DEF IInv, Shaped
<1>5. HeldOrHalted' BY <1>1 DEF IInv, HeldOrHalted, Transitioning
<1>6. ASSUME Orderly PROVE Plain' /\ Honest' /\ Processes' /\ Calls'
  <2>1. Plain' /\ Honest' BY <1>1, <1>2, <1>6, OrderlyParts DEF Plain, Honest
  <2>2. Processes'
    <3>1. Registered' BY <1>1, <1>2, <1>6, OrderlyParts DEF Registered
    <3>2. OnePerTerminal' BY <1>2, <1>6, OrderlyParts DEF OnePerTerminal
    <3>3. Placed' BY <1>1, <1>2, <1>6, OrderlyParts DEF Placed
    <3> QED BY <3>1, <3>2, <3>3 DEF Processes
  <2>3. Waiting' /\ TearingDown' BY <1>1, <1>2, <1>6, OrderlyParts
    DEF Waiting, TearingDown, Transitioning
  <2>4. Creating'
    <3>1. job.made # None => job.made \in Procs BY Parts DEF IInv, JobRecord
    <3>2. job.made # None => (Free(job.made)' <=> Free(job.made))
                             /\ proc'[job.made].of = proc[job.made].of
      BY <1>1, <1>2, <3>1 DEF Free
    <3>3. \A q \in Procs : (~Free(q)' <=> ~Free(q)) /\ proc'[q].of = proc[q].of BY <1>2
    <3>4. CASE job.phase = "creating"
      <4>1. /\ job.todo \subseteq rows
            /\ \A t \in job.todo :
                 /\ pending[t] = 0
                 /\ \A q \in Procs : ~Free(q)' /\ proc'[q].of = t => q = job.made
        BY <1>6, <3>3, <3>4, OrderlyParts DEF Creating
      <4>2. job.made # None => ~Free(job.made)' /\ proc'[job.made].of \in job.todo
        BY <1>6, <3>2, <3>4, OrderlyParts DEF Creating
      <4> QED BY <1>1, <4>1, <4>2 DEF Creating, Free
    <3> QED BY <1>1, <3>4 DEF Creating
  <2> QED BY <2>1, <2>2, <2>3, <2>4 DEF Calls
<1> QED BY <1>3, <1>4, <1>5, <1>6, Assembled

(* The exit of a process drops what its terminal has registered, which is  *)
(* that process or nothing.                                                *)
LEMMA ExitReportedKeeps ==
    ASSUME IInv, setting' = setting, NEW p \in Procs, ExitReported(p)
    PROVE  IInv'
<1> DEFINE t == proc[p].of
<1>1. /\ proc[p].life = "ended" /\ p # job.made
      /\ proc' = [proc EXCEPT ![p] = NoProc] /\ reg' = [reg EXCEPT ![t] = None]
      /\ Restarts(t) => pending[t] < MaxPending
      /\ pending' = IF Restarts(t) THEN [pending EXCEPT ![t] = @ + 1] ELSE pending
      /\ checking' \in BOOLEAN
      /\ status' = status /\ rows' = rows /\ job' = job
      /\ container' = container /\ singles' = singles /\ sweep' = sweep
  BY DEF ExitReported, Reportable
<1>2. /\ proc \in [Procs -> ProcRecord] /\ reg \in [Terminals -> {None} \cup Procs]
      /\ pending \in [Terminals -> 0 .. MaxPending] /\ job \in JobRecord
  BY Parts DEF IInv
<1>3. NoProc \in ProcRecord /\ NoProc.life = "free" /\ NoProc.place = "host"
  BY DEF NoProc, ProcRecord
<1>4. /\ proc' \in [Procs -> ProcRecord] /\ Free(p)' /\ ~Live(p)'
      /\ \A q \in Procs : q # p => proc'[q] = proc[q] /\ Live(q)' = Live(q) /\ Free(q)' = Free(q)
  BY <1>1, <1>2, <1>3 DEF Live, Free
<1>5. pending' \in [Terminals -> 0 .. MaxPending]
  <2>1. CASE Restarts(t)
    <3>1. pending[t] < MaxPending /\ pending' = [pending EXCEPT ![t] = @ + 1] BY <1>1, <2>1
    <3>2. t \in Terminals => pending[t] + 1 \in 0 .. MaxPending BY <1>2, <3>1, PodAssumption
    <3> QED BY <1>2, <3>1, <3>2
  <2>2. CASE ~Restarts(t) BY <1>1, <1>2, <2>2
  <2> QED BY <2>1, <2>2
<1>6. Typed'
  <2>1. reg' \in [Terminals -> {None} \cup Procs] BY <1>1, <1>2
  <2> QED BY <1>1, <1>2, <1>4, <1>5, <2>1, Parts, PartsNext DEF IInv
<1>7. Shaped' BY <1>1 DEF IInv, Shaped
<1>8. HeldOrHalted' BY <1>1 DEF IInv, HeldOrHalted, Transitioning
<1>9. ASSUME Orderly PROVE Plain' /\ Honest' /\ Processes' /\ Calls'
  <2>1. ~Free(p) BY <1>1 DEF Free
  <2>2. \A q \in Procs : Live(q)' => q # p /\ Live(q) /\ proc'[q].of = proc[q].of /\ ~Free(q)
    BY <1>4 DEF Live, Free
  <2>3. \A q \in Procs :
          ~Free(q)' => q # p /\ ~Free(q) /\ proc'[q].of = proc[q].of /\ proc[q].of # t
    BY <1>4, <1>9, <2>1, OrderlyParts DEF OnePerTerminal
  <2>4. Plain' BY <1>1, <1>3, <1>4, <1>9, <1>2, OrderlyParts DEF Plain
  <2>5. Honest' BY <1>1, <1>9, <2>2, OrderlyParts DEF Honest
  <2>6. Registered'
    <3> SUFFICES ASSUME NEW q \in Procs, Live(q)' PROVE reg'[proc'[q].of] = q \/ job.made = q
      BY <1>1 DEF Registered
    <3>1. reg[proc[q].of] = q \/ job.made = q BY <1>9, <2>2, OrderlyParts DEF Registered
    <3>2. proc[q].of # t BY <1>9, <2>1, <2>2, OrderlyParts DEF OnePerTerminal
    <3> QED BY <1>1, <1>2, <2>2, <3>1, <3>2
  <2>7. OnePerTerminal' BY <1>9, <2>3, OrderlyParts DEF OnePerTerminal
  <2>8. Placed' BY <1>1, <1>9, <2>2, OrderlyParts DEF Placed
  <2>9. Waiting'
    <3> SUFFICES ASSUME NEW u \in Terminals, pending'[u] > 0
                 PROVE  /\ pending'[u] = 1 /\ status = "running" /\ ~Transitioning
                        /\ \A q \in Procs : ~Free(q)' => proc'[q].of # u
      BY <1>1 DEF Waiting, Transitioning
    <3>1. CASE u = t /\ Restarts(t)
      <4>1. pending[t] = 0 BY <1>2, <1>9, <2>1, <3>1, OrderlyParts DEF Waiting
      <4>2. pending'[u] = 1 BY <1>1, <1>2, <3>1, <4>1
      <4> QED BY <2>3, <3>1, <4>2 DEF Restarts
    <3>2. CASE ~(u = t /\ Restarts(t))
      <4>1. pending'[u] = pending[u] BY <1>1, <1>2, <3>2
      <4> QED BY <1>9, <2>3, <4>1, OrderlyParts DEF Waiting
    <3> QED BY <3>1, <3>2
  <2>10. Creating'
    <3> SUFFICES ASSUME job.phase = "creating"
                 PROVE  /\ job.todo \subseteq rows
                        /\ \A u \in job.todo :
                             /\ pending'[u] = 0
                             /\ \A q \in Procs : ~Free(q)' /\ proc'[q].of = u => q = job.made
                        /\ job.made # None => ~Free(job.made)' /\ proc'[job.made].of \in job.todo
      BY <1>1 DEF Creating
    <3>1. t \notin job.todo BY <1>1, <1>9, <2>1, OrderlyParts DEF Creating
    <3>2. \A u \in job.todo : pending'[u] = 0
      BY <1>1, <1>2, <1>9, <3>1, OrderlyParts DEF Creating, JobRecord
    <3>3. \A u \in job.todo : \A q \in Procs : ~Free(q)' /\ proc'[q].of = u => q = job.made
      BY <1>9, <2>3, OrderlyParts DEF Creating
    <3>4. job.made # None => job.made \in Procs BY <1>2 DEF JobRecord
    <3>5. job.made # None => ~Free(job.made)' /\ proc'[job.made].of \in job.todo
      BY <1>1, <1>4, <1>9, <3>4, OrderlyParts DEF Creating
    <3> QED BY <1>9, <3>2, <3>3, <3>5, OrderlyParts DEF Creating
  <2>11. TearingDown' BY <1>1, <1>9, <2>2, OrderlyParts DEF TearingDown
  <2> QED BY <2>4, <2>5, <2>6, <2>7, <2>8, <2>9, <2>10, <2>11 DEF Processes, Calls
<1> QED BY <1>6, <1>7, <1>8, <1>9, Assembled

LEMMA RespawnKeeps ==
    ASSUME IInv, setting' = setting, Heard, NEW t \in Terminals, Respawn(t)
    PROVE  IInv'
<1>1. /\ ~Locked /\ pending[t] > 0 /\ pending' = [pending EXCEPT ![t] = @ - 1]
      /\ \/ /\ status = "running" /\ t \in rows /\ checking' = checking
            /\ job' = [Idle EXCEPT !.op = "respawn", !.phase = "creating", !.todo = {t}]
         \/ checking' = TRUE /\ job' = job
      /\ status' = status /\ rows' = rows /\ reg' = reg /\ proc' = proc
      /\ container' = container /\ singles' = singles /\ sweep' = sweep
  BY DEF Respawn
<1>2. /\ job = Idle /\ pending \in [Terminals -> 0 .. MaxPending]
  BY <1>1, Parts DEF IInv, Shaped, Locked
<1>3. \/ job' = Idle
      \/ /\ status = "running" /\ t \in rows
         /\ job' \in JobRecord /\ job'.op = "respawn" /\ job'.phase = "creating" /\ job'.todo = {t}
         /\ job'.made = None /\ job'.ko = FALSE
  <2>1. CASE job' = job BY <1>2, <2>1
  <2>2. CASE job' # job
    <3>1. job' = [Idle EXCEPT !.op = "respawn", !.phase = "creating", !.todo = {t}]
          /\ status = "running" /\ t \in rows
      BY <1>1, <2>2
    <3>2. IsCall(job', "respawn", "creating", {t}) BY <3>1, CallTypes DEF IInv
    <3> QED BY <3>1, <3>2 DEF IsCall
  <2> QED BY <2>1, <2>2
<1>4. pending[t] - 1 \in 0 .. MaxPending BY <1>1, <1>2, PodAssumption
<1>5. pending' \in [Terminals -> 0 .. MaxPending] BY <1>1, <1>2, <1>4
<1>6. Typed' BY <1>1, <1>3, <1>5, IdleType DEF IInv, Typed, JobRecord
<1>7. Shaped' BY <1>3, IdleType DEF Shaped
<1>8. HeldOrHalted' BY <1>1, <1>2, IdleType DEF IInv, HeldOrHalted, Transitioning
<1>9. ASSUME Orderly PROVE Plain' /\ Honest' /\ Processes' /\ Calls'
  <2>1. pending[t] = 1 /\ \A p \in Procs : ~Free(p) => proc[p].of # t
    BY <1>1, <1>9, OrderlyParts DEF Waiting
  <2>2. pending'[t] = 0 /\ \A u \in Terminals : u # t => pending'[u] = pending[u]
    BY <1>1, <1>2, <2>1
  <2>3. Plain' BY <1>1, <1>3, <1>9, OrderlyParts, IdleType DEF Plain
  <2>4. Honest' BY <1>1, <1>3, <1>9, OrderlyParts, IdleType DEF Honest, Live
  <2>5. Processes' BY <1>1, <1>2, <1>9, OrderlyParts, IdleType
    DEF Processes, Registered, OnePerTerminal, Placed, Live, Free, Procs, None
  <2>6. Waiting' BY <1>1, <1>3, <1>9, <2>2, OrderlyParts, IdleType
    DEF Waiting, Transitioning, Free
  <2>7. Creating' BY <1>1, <1>3, <2>1, <2>2, IdleType DEF Creating, Free
  <2>8. TearingDown' BY <1>3, IdleType DEF TearingDown
  <2> QED BY <2>3, <2>4, <2>5, <2>6, <2>7, <2>8 DEF Calls
<1> QED BY <1>6, <1>7, <1>8, <1>9, Assembled

LEMMA CheckAllExitedKeeps == IInv /\ setting' = setting /\ CheckAllExited => IInv'
<1> SUFFICES ASSUME IInv, setting' = setting, CheckAllExited PROVE IInv' OBVIOUS
<1>1. /\ checking' = FALSE
      /\ status' = status \/ (setting.docker /\ status' = "stopped")
      /\ rows' = rows /\ reg' = reg /\ proc' = proc /\ pending' = pending /\ job' = job
      /\ container' = container /\ singles' = singles /\ sweep' = sweep
  BY DEF CheckAllExited
<1>2. Typed' BY <1>1, Parts, PartsNext DEF IInv
<1>3. Shaped' BY <1>1 DEF IInv, Shaped
<1>4. HeldOrHalted' BY <1>1 DEF IInv, HeldOrHalted, Transitioning
<1>5. ASSUME Orderly PROVE Plain' /\ Honest' /\ Processes' /\ Calls'
  <2>1. status' = status BY <1>1, <1>5 DEF Orderly
  <2> QED BY <1>1, <1>5, <2>1, OrderlyParts
    DEF Plain, Honest, Processes, Registered, OnePerTerminal, Placed, Calls, Waiting, Creating,
        TearingDown, Transitioning, Live, Free
<1> QED BY <1>2, <1>3, <1>4, <1>5, Assembled

-----------------------------------------------------------------------------
(* Calls that take no lock, of which an orderly pod has none. *)

LEMMA UnlockedKeeps ==
    ASSUME IInv, setting' = setting,
           \/ Sweep \/ SweepStep \/ \E t \in Terminals : StartTerminal(t)
           \/ \E p \in singles : TerminalStarted(p)
    PROVE  IInv'
<1>1. Shaped'
  BY DEF IInv, Shaped, Sweep, SweepStep, SweepOne, Swept, WorkspaceDeleted, StartTerminal,
         TerminalStarted
<1>2. HeldOrHalted'
  BY DEF IInv, HeldOrHalted, Transitioning, Sweep, SweepStep, SweepOne, Swept, Halts, SetStatus,
         WorkspaceDeleted, StartTerminal, TerminalStarted
<1>3. ~Orderly
  <2> SUFFICES ASSUME Orderly PROVE FALSE OBVIOUS
  <2>1. ~setting.unlocked /\ singles = {} /\ sweep.phase = "idle" /\ sweep.todo = {}
    BY OrderlyParts DEF Plain, NoSweep
  <2> QED BY <2>1 DEF Sweep, SweepStep, SweepOne, Swept, WorkspaceDeleted, StartTerminal
<1>4. Typed'
  <2>1. /\ rows \subseteq Terminals /\ reg \in [Terminals -> {None} \cup Procs]
        /\ proc \in [Procs -> ProcRecord] /\ singles \subseteq Procs
        /\ sweep \in [phase : {"idle", "stopping", "deleting"}, todo : SUBSET Terminals]
    BY Parts DEF IInv
  <2>2. CASE Sweep BY <2>1, <2>2 DEF Sweep, IInv, Typed
  <2>3. ASSUME NEW t \in Terminals, SweepOne(t) PROVE Typed'
    <3>1. proc' \in [Procs -> ProcRecord]
      BY <2>1, <2>3, EndedOnly DEF IInv, SweepOne, Unregisters
    <3>2. /\ reg' \in [Terminals -> {None} \cup Procs]
          /\ sweep' \in [phase : {"idle", "stopping", "deleting"}, todo : SUBSET Terminals]
      BY <2>1, <2>3 DEF SweepOne, Unregisters
    <3>3. /\ status' = status /\ rows' = rows /\ pending' = pending /\ job' = job
          /\ container' = container /\ checking' = checking /\ singles' = singles
      BY <2>3 DEF SweepOne
    <3> QED BY <3>1, <3>2, <3>3, Parts, PartsNext DEF IInv
  <2>4. CASE Swept
    <3>1. proc' \in [Procs -> ProcRecord] BY <2>1, <2>4, EndedOnly DEF IInv, Swept, Halts
    <3>2. /\ status' \in {"none", "stopped"} /\ container' \in {"none", "up", "down"}
          /\ sweep' \in [phase : {"idle", "stopping", "deleting"}, todo : SUBSET Terminals]
      BY <2>4 DEF Swept, Halts, SetStatus, NoSweep, IInv, Typed
    <3> QED BY <2>1, <2>4, <3>1, <3>2 DEF Swept, IInv, Typed, ProcRecord
  <2>5. CASE WorkspaceDeleted BY <2>1, <2>5 DEF WorkspaceDeleted, NoSweep, IInv, Typed
  <2>6. ASSUME NEW t \in Terminals, StartTerminal(t) PROVE Typed'
    <3>1. PICK p \in Procs, place \in {"host", "container"} :
            /\ proc' = [proc EXCEPT ![p] = [life |-> "live", of |-> t, place |-> place]]
            /\ singles' = singles \cup {p}
      BY <2>6 DEF StartTerminal, Born, Place
    <3>2. proc' \in [Procs -> ProcRecord] BY <2>1, <3>1 DEF ProcRecord
    <3> QED BY <2>1, <2>6, <3>1, <3>2 DEF StartTerminal, IInv, Typed, ProcRecord
  <2>7. ASSUME NEW p \in singles, TerminalStarted(p) PROVE Typed'
    <3>1. proc[p].of \in Terminals => reg' \in [Terminals -> {None} \cup Procs]
      BY <2>1, <2>7 DEF TerminalStarted
    <3>2. proc[p].of \notin Terminals => reg' = reg BY <2>1, <2>7 DEF TerminalStarted
    <3>3. /\ reg' \in [Terminals -> {None} \cup Procs] /\ singles' \subseteq Procs
          /\ status' = status /\ rows' = rows /\ pending' = pending /\ job' = job
          /\ container' = container /\ checking' = checking /\ proc' = proc /\ sweep' = sweep
      BY <2>1, <2>7, <3>1, <3>2 DEF TerminalStarted
    <3> QED BY <3>3, Parts, PartsNext DEF IInv
  <2> QED BY <2>2, <2>3, <2>4, <2>5, <2>6, <2>7 DEF SweepStep
<1> QED BY <1>1, <1>2, <1>3, <1>4, Assembled

-----------------------------------------------------------------------------
LEMMA RebootKeeps == IInv /\ setting' = setting /\ Reboot => IInv'
<1> SUFFICES ASSUME IInv, setting' = setting, Reboot PROVE IInv' OBVIOUS
<1>1. /\ status' = BootStatus /\ reg' = [t \in Terminals |-> None] /\ pending' = NoRestarts
      /\ proc' = [p \in Procs |->
                    IF proc[p].place = "container" /\ Live(p) THEN proc[p] ELSE NoProc]
      /\ job' = Idle /\ checking' = FALSE /\ singles' = {} /\ sweep' = NoSweep
      /\ rows' = rows /\ container' = container
  BY DEF Reboot
<1>2. /\ status' = status \/ status' = "stopped"
      /\ status' \in {"starting", "stopping"} => container = "down"
      /\ status' = "none" => status = "none"
  BY <1>1 DEF BootStatus, IInv, Typed
<1>3. NoProc \in ProcRecord /\ NoProc.life = "free" /\ NoProc.place = "host"
  BY DEF NoProc, ProcRecord
<1>4. proc' \in [Procs -> ProcRecord] BY <1>1, <1>3, Parts DEF IInv
<1>5. NoSweep \in [phase : {"idle", "stopping", "deleting"}, todo : SUBSET Terminals]
  BY DEF NoSweep
<1>6. Typed' BY <1>1, <1>2, <1>4, <1>5, IdleType, NoRestartsType
  DEF IInv, Typed, JobRecord, ProcRecord
<1>7. Shaped' BY <1>1, IdleType DEF Shaped
<1>8. HeldOrHalted' BY <1>1, <1>2 DEF HeldOrHalted
<1>9. ASSUME Orderly PROVE Plain' /\ Honest' /\ Processes' /\ Calls'
  <2>1. \A p \in Procs : Free(p)' /\ ~Live(p)' /\ proc'[p].place = "host"
    BY <1>1, <1>3, <1>9, OrderlyParts DEF Plain, Free, Live
  <2>2. Plain' BY <1>1, <1>9, <2>1, OrderlyParts, IdleType DEF Plain
  <2>3. Honest' BY <1>1, <1>2, <1>9, <2>1, OrderlyParts, IdleType DEF Honest
  <2>4. Processes' BY <2>1 DEF Processes, Registered, OnePerTerminal, Placed
  <2>5. Calls' BY <1>1, IdleType, NoRestartsType DEF Calls, Waiting, Creating, TearingDown
  <2> QED BY <2>2, <2>3, <2>4, <2>5
<1> QED BY <1>6, <1>7, <1>8, <1>9, Assembled

LEMMA Initially == Init => IInv
<1> SUFFICES ASSUME Init PROVE IInv OBVIOUS
<1>1. NoProc \in ProcRecord /\ NoProc.life = "free" /\ NoProc.place = "host"
  BY DEF NoProc, ProcRecord
<1>2. \A p \in Procs : Free(p) /\ ~Live(p) /\ proc[p].place = "host"
  BY <1>1 DEF Init, Free, Live
<1>3. NoSweep \in [phase : {"idle", "stopping", "deleting"}, todo : SUBSET Terminals]
  BY DEF NoSweep
<1>4. proc \in [Procs -> ProcRecord] BY <1>1 DEF Init
<1>5. Typed BY <1>3, <1>4, IdleType, NoRestartsType DEF Init, Typed, JobRecord, ProcRecord
<1>6. Shaped /\ HeldOrHalted BY IdleType DEF Init, Shaped, HeldOrHalted
<1>7. Plain /\ Honest BY <1>2, IdleType DEF Init, Plain, Honest
<1>8. Processes BY <1>2 DEF Processes, Registered, OnePerTerminal, Placed
<1>9. Calls BY IdleType, NoRestartsType DEF Init, Calls, Waiting, Creating, TearingDown
<1> QED BY <1>5, <1>6, <1>7, <1>8, <1>9 DEF IInv, OrderlyPod

LEMMA Keeps == IInv /\ [Next]_<<vars, setting>> => IInv'
<1> SUFFICES ASSUME IInv, [Next]_<<vars, setting>> PROVE IInv' OBVIOUS
<1>1. CASE UNCHANGED <<vars, setting>>
  BY <1>1 DEF vars, IInv, Typed, Shaped, HeldOrHalted, Transitioning, Orderly, OrderlyPod,
              Plain, Honest, Processes, Registered, OnePerTerminal, Placed, Calls, Waiting, Creating,
              TearingDown, Live, Free
<1>2. CASE Next
  <2>1. setting' = setting BY <1>2 DEF Next
  <2>2. CASE Heard /\ JobStep
    BY <2>1, <2>2, StopOneKeeps, RemovedKeeps, CreateKeeps, CreateRefusedKeeps, RegisterKeeps,
       StoppedKeeps, DeletedKeeps, ContainerKeeps, StartedKeeps
    DEF JobStep
  <2>3. CASE Heard /\ (StartPod \/ StopPod \/ RestartPod \/ DeletePod)
    BY <2>1, <2>3, StartPodKeeps, TearsDownKeeps
  <2>4. CASE Heard /\ \E t \in Terminals : RemoveTerminal(t) \/ AddTerminal(t) \/ Respawn(t)
    BY <2>1, <2>4, RemoveTerminalKeeps, AddTerminalKeeps, RespawnKeeps
  <2>5. CASE \/ Sweep \/ SweepStep \/ \E t \in Terminals : StartTerminal(t)
             \/ \E p \in singles : TerminalStarted(p)
    BY <2>1, <2>5, UnlockedKeeps
  <2>6. CASE CheckAllExited BY <2>1, <2>6, CheckAllExitedKeeps
  <2>7. CASE \E p \in Procs : ProcessEnds(p) \/ ExitReported(p)
    BY <2>1, <2>7, ProcessEndsKeeps, ExitReportedKeeps
  <2>8. CASE Reboot BY <2>1, <2>8, RebootKeeps
  <2> QED BY <1>2, <2>2, <2>3, <2>4, <2>5, <2>6, <2>7, <2>8 DEF Next, Acts
<1> QED BY <1>1, <1>2

LEMMA Invariance == Spec => []IInv
<1>1. IInv /\ [Next]_<<vars, setting, abandoned>> => IInv'
  BY Keeps
<1> QED BY <1>1, Initially, PTL DEF Spec

(* Types of the state. *)
THEOREM TypeCorrect == Spec => []TypeOK
<1>1. Init => abandoned \in BOOLEAN BY DEF Init
<1>2. abandoned \in BOOLEAN /\ [Next]_<<vars, setting, abandoned>> => (abandoned \in BOOLEAN)'
  BY DEF Next, Reboot
<1>3. Spec => [](abandoned \in BOOLEAN) BY <1>1, <1>2, PTL DEF Spec
<1>4. IInv /\ abandoned \in BOOLEAN => TypeOK BY DEF IInv, TypeOK
<1> QED BY <1>3, <1>4, Invariance, PTL

(* A step of the pod that leaves a status of starting or stopping in no     *)
(* call's hands found it so.                                               *)
LEMMA NobodyLetsGo ==
    ASSUME IInv, Acts, status' \in {"starting", "stopping"}, ~Transitioning'
    PROVE  status' = status /\ ~Transitioning
<1>1. Shaped /\ status \in {"none", "stopped", "starting", "running", "stopping", "failed"}
  BY DEF IInv, Typed
<1>2. ASSUME StartPod \/ StopPod \/ RestartPod \/ DeletePod PROVE FALSE
  BY <1>2, CallTypes DEF IInv, StartPod, StopPod, RestartPod, DeletePod, Transitioning
<1>3. ASSUME NEW t \in Terminals, RemoveTerminal(t) \/ AddTerminal(t) \/ Respawn(t)
                                 \/ StartTerminal(t)
      PROVE  status' = status /\ ~Transitioning
  BY <1>1, <1>3, IdleType
  DEF RemoveTerminal, AddTerminal, Respawn, StartTerminal, Locked, Transitioning
<1>4. CASE JobStep
  <2>1. ASSUME NEW t \in Terminals, StopOne(t) \/ CreateRefused(t) \/ Create(t)
        PROVE  status' = status /\ ~Transitioning
    <3>1. job \in JobRecord BY Parts DEF IInv
    <3>2. job'.op = job.op BY <2>1, <3>1 DEF StopOne, CreateRefused, Create, JobRecord
    <3> QED BY <2>1, <3>2 DEF StopOne, CreateRefused, Create, Transitioning
  <2>2. ASSUME NEW t \in Terminals, Removed(t) PROVE status' = status /\ ~Transitioning
    BY <1>1, <2>2, IdleType DEF Removed, Shaped, Transitioning
  <2>3. CASE ContainerReady \/ ContainerRefused
    <3>1. job \in JobRecord BY Parts DEF IInv
    <3>2. job'.op = job.op BY <2>3, <3>1 DEF ContainerReady, ContainerRefused, JobRecord
    <3> QED BY <2>3, <3>2 DEF ContainerReady, ContainerRefused, Transitioning
  <2>4. CASE Register
    <3>1. job \in JobRecord BY Parts DEF IInv
    <3>2. job.op # "respawn" => job'.op = job.op BY <2>4, <3>1 DEF Register, JobRecord
    <3> QED BY <2>4, <3>2 DEF Register, Transitioning
  <2>5. CASE Stopped
    <3>1. /\ status' = status \/ status' = "stopped" \/ status' = "none"
          /\ job.op = "delete" \/ job.op = "stop" \/ job.op = "restart"
      BY <1>1, <2>5, IdleType DEF Stopped, Shaped, SetStatus
    <3>2. CASE job.op = "stop" BY <2>5, <3>2 DEF Stopped, SetStatus
    <3>3. CASE job.op = "delete"
      <4>1. job \in JobRecord BY Parts DEF IInv
      <4>2. job'.op = "delete" BY <2>5, <3>3, <4>1 DEF Stopped, JobRecord
      <4> QED BY <4>2 DEF Transitioning
    <3>4. CASE job.op = "restart"
      <4>1. status' = status BY <2>5, <3>4 DEF Stopped
      <4>2. job' = Starts("restart") BY <2>5, <3>4, <4>1 DEF Stopped
      <4> QED BY <4>2, CallTypes DEF IInv, Transitioning
    <3> QED BY <3>1, <3>2, <3>3, <3>4
  <2>6. CASE Deleted \/ Started BY <2>6 DEF Deleted, Started, SetStatus
  <2> QED BY <1>4, <2>1, <2>2, <2>3, <2>4, <2>5, <2>6 DEF JobStep
<1>5. CASE CheckAllExited \/ Sweep \/ SweepStep
  BY <1>5 DEF CheckAllExited, Sweep, SweepStep, SweepOne, Swept, WorkspaceDeleted, SetStatus,
              Transitioning
<1>6. ASSUME NEW p, TerminalStarted(p) \/ ProcessEnds(p) \/ ExitReported(p)
      PROVE  status' = status /\ ~Transitioning
  BY <1>6 DEF TerminalStarted, ProcessEnds, ExitReported, Transitioning
<1> QED BY <1>2, <1>3, <1>4, <1>5, <1>6 DEF Acts

(* In every kind of pod, a status that says starting or stopping is in the *)
(* hands of a call that will say how it went, or it is what a crash left    *)
(* of a pod whose container was stopped and nothing has set it since.      *)
THEOREM TransientIsOwnedAlways == Spec => []TransientIsOwned
<1>1. Init => TransientIsOwned BY DEF Init, TransientIsOwned
<1>2. IInv /\ TransientIsOwned /\ [Next]_<<vars, setting, abandoned>> => TransientIsOwned'
  <2> SUFFICES ASSUME IInv, TransientIsOwned, [Next]_<<vars, setting, abandoned>>,
                      status' \in {"starting", "stopping"}, ~Transitioning'
               PROVE  abandoned'
    BY DEF TransientIsOwned
  <2>1. CASE Acts /\ abandoned' = (abandoned /\ status' = status)
    BY <2>1, NobodyLetsGo DEF TransientIsOwned
  <2>2. CASE Reboot
    <3>1. status' = BootStatus /\ abandoned' = (container = "down") BY <2>2 DEF Reboot
    <3>2. status \in {"starting", "stopping"} /\ container = "down"
      BY <3>1 DEF BootStatus, IInv, Typed
    <3> QED BY <3>1, <3>2
  <2>3. CASE UNCHANGED <<vars, setting, abandoned>>
    BY <2>3 DEF vars, TransientIsOwned, Transitioning
  <2> QED BY <2>1, <2>2, <2>3 DEF Next
<1> QED BY <1>1, <1>2, Invariance, PTL DEF Spec

(* Create and register of a process are atomic with respect to teardown:   *)
(* every live process of an orderly pod is registered for its terminal, or *)
(* the holder of the lock is about to register it.                         *)
THEOREM NoOrphansAlways == Spec => []NoOrphans
<1>1. IInv => NoOrphans BY OrderlyParts DEF NoOrphans, Registered
<1> QED BY <1>1, Invariance, PTL

(* No process outlives the stop or the deletion of an orderly pod, and no  *)
(* restart that waited brings one back.                                    *)
THEOREM StoppedIsTornDownAlways == Spec => []StoppedIsTornDown
<1>1. IInv => StoppedIsTornDown BY OrderlyParts DEF StoppedIsTornDown, Honest
<1> QED BY <1>1, Invariance, PTL

-----------------------------------------------------------------------------
(* The host. *)

FlowRecord ==
    [paused : SUBSET Terminals, unacked : [Terminals -> Nat],
     held : SUBSET Terminals, blocked : BOOLEAN, due : BOOLEAN]

Frames == [terminal : Terminals, chunks : Nat]

(* Above its high mark a terminal is held by its flow controller. *)
AboveIsHeld(f) == \A t \in Terminals : f.unacked[t] > High => t \in f.held

(* What its flow controller holds is paused, but for those in `free`. *)
HeldIsPaused(f, free) == f.held \subseteq f.paused \cup free

HostIInv ==
    /\ Marks /\ Host!TypeOK
    /\ AboveIsHeld(flow)
    /\ HeldIsPaused(flow, drained)

(* The operations of flow control. *)

(* FlowController.sent counts the chunks, and holds and pauses together. *)
LEMMA SentKeeps ==
    ASSUME NEW f \in FlowRecord, NEW t \in Terminals, NEW n \in Nat, NEW free,
           AboveIsHeld(f), HeldIsPaused(f, free)
    PROVE  /\ Host!Sent(f, t, n) \in FlowRecord
           /\ AboveIsHeld(Host!Sent(f, t, n)) /\ HeldIsPaused(Host!Sent(f, t, n), free)
           /\ Host!Sent(f, t, n).blocked = f.blocked /\ Host!Sent(f, t, n).due = f.due
<1>1. f.unacked[t] + n \in Nat BY DEF FlowRecord
<1>2. CASE f.unacked[t] + n > High /\ t \notin f.held
  BY <1>1, <1>2 DEF Host!Sent, FlowRecord, AboveIsHeld, HeldIsPaused
<1>3. CASE ~(f.unacked[t] + n > High /\ t \notin f.held)
  BY <1>1, <1>3 DEF Host!Sent, FlowRecord, AboveIsHeld, HeldIsPaused
<1> QED BY <1>2, <1>3

(* Backpressure only pauses more terminals, and owes a drain for it. *)
LEMMA PausedAllKeeps ==
    ASSUME NEW f \in FlowRecord, NEW free, Host!SubscribedPtys \subseteq Terminals,
           AboveIsHeld(f), HeldIsPaused(f, free)
    PROVE  /\ Host!PausedAll(f) \in FlowRecord /\ Host!PausedAll(f).due
           /\ AboveIsHeld(Host!PausedAll(f)) /\ HeldIsPaused(Host!PausedAll(f), free)
  BY DEF Host!PausedAll, FlowRecord, AboveIsHeld, HeldIsPaused

(* FlowController.reset forgets the count and the hold together. *)
LEMMA ResetKeeps ==
    ASSUME Marks, NEW f \in FlowRecord, NEW t \in Terminals, NEW free,
           AboveIsHeld(f), HeldIsPaused(f, free)
    PROVE  /\ Host!Reset(f, t) \in FlowRecord
           /\ AboveIsHeld(Host!Reset(f, t)) /\ HeldIsPaused(Host!Reset(f, t), free \ {t})
           /\ Host!Reset(f, t).blocked = f.blocked /\ Host!Reset(f, t).due = f.due
<1>1. \A u \in Terminals : f.unacked[u] \in Nat BY DEF FlowRecord
<1>2. Host!Reset(f, t) \in FlowRecord BY DEF Host!Reset, FlowRecord
<1>3. AboveIsHeld(Host!Reset(f, t))
  BY <1>1 DEF Marks, Host!Reset, FlowRecord, AboveIsHeld
<1>4. HeldIsPaused(Host!Reset(f, t), free \ {t})
  BY DEF Host!Reset, FlowRecord, HeldIsPaused
<1> QED BY <1>2, <1>3, <1>4 DEF Host!Reset, FlowRecord

(* FlowController.ack lets a terminal go only once it is below its low     *)
(* mark, and so not above its high one.                                    *)
LEMMA AckedKeeps ==
    ASSUME Marks, NEW f \in FlowRecord, NEW t \in Terminals, NEW n \in Nat, NEW free,
           AboveIsHeld(f), HeldIsPaused(f, free)
    PROVE  LET g == Host!Acked(f, t, n)
           IN /\ g \in FlowRecord /\ g.blocked = f.blocked /\ g.due = f.due
              /\ AboveIsHeld(g) /\ HeldIsPaused(g, free \cap g.held)
<1> DEFINE left == IF f.unacked[t] > n THEN f.unacked[t] - n ELSE 0
<1>1. left \in Nat /\ left <= f.unacked[t] /\ \A u \in Terminals : f.unacked[u] \in Nat
  BY DEF FlowRecord
<1>2. left > High => f.unacked[t] > High BY <1>1 DEF Marks
<1>3. left < Low => ~(left > High) BY <1>1 DEF Marks
<1>4. CASE t \in f.held /\ left < Low
  BY <1>1, <1>3, <1>4 DEF Host!Acked, FlowRecord, AboveIsHeld, HeldIsPaused
<1>5. CASE ~(t \in f.held /\ left < Low)
  BY <1>1, <1>2, <1>5 DEF Host!Acked, FlowRecord, AboveIsHeld, HeldIsPaused
<1> QED BY <1>4, <1>5

(* A flush, whether it fills stdout or not. *)
LEMMA FlushedKeeps ==
    ASSUME HostIInv, NEW t \in Terminals, NEW n \in Nat, NEW full \in BOOLEAN
    PROVE  LET f == Host!Flushed(t, n, full)
           IN /\ f \in FlowRecord /\ (f.blocked => f.due)
              /\ AboveIsHeld(f) /\ HeldIsPaused(f, drained)
<1>1. flow \in FlowRecord /\ (flow.blocked => flow.due) /\ Host!SubscribedPtys \subseteq Terminals
  BY DEF HostIInv, Host!TypeOK, FlowRecord, Host!SubscribedPtys
<1>2. CASE n = 0 \/ t \notin subscribed BY <1>1, <1>2 DEF HostIInv, Host!Flushed
<1>3. CASE ~(n = 0 \/ t \notin subscribed)
  <2>1. LET f == Host!Sent(flow, t, n)
        IN /\ f \in FlowRecord /\ (f.blocked => f.due)
           /\ AboveIsHeld(f) /\ HeldIsPaused(f, drained)
    BY <1>1, SentKeeps DEF HostIInv
  <2>2. CASE full
    <3>1. PICK f \in FlowRecord : f = Host!Sent(flow, t, n) BY <2>1
    <3>2. Host!PausedAll(f) \in FlowRecord /\ Host!PausedAll(f).due
          /\ AboveIsHeld(Host!PausedAll(f)) /\ HeldIsPaused(Host!PausedAll(f), drained)
      BY <1>1, <2>1, <3>1, PausedAllKeeps
    <3> QED BY <1>3, <2>2, <3>1, <3>2 DEF Host!Flushed
  <2>3. CASE ~full BY <1>3, <2>1, <2>3 DEF Host!Flushed
  <2> QED BY <2>2, <2>3
<1> QED BY <1>2, <1>3

LEMMA FlushFramesType ==
    ASSUME NEW t \in Terminals, NEW n \in Nat
    PROVE  Host!FlushFrames(t, n) \in Seq(Frames)
<1>1. Host!Frame(t, n) \in Frames BY DEF Host!Frame, Frames
<1>2. <<Host!Frame(t, n)>> \in Seq(Frames) BY <1>1
<1>3. << >> \in Seq(Frames) OBVIOUS
<1> QED BY <1>2, <1>3 DEF Host!FlushFrames

-----------------------------------------------------------------------------
LEMMA HostInitially == Marks /\ Host!Init => HostIInv
<1> SUFFICES ASSUME Marks, Host!Init PROVE HostIInv OBVIOUS
<1>1. Host!TypeOK BY DEF Marks, Host!Init, Host!TypeOK
<1>2. AboveIsHeld(flow) /\ HeldIsPaused(flow, drained)
  BY DEF Marks, Host!Init, AboveIsHeld, HeldIsPaused
<1> QED BY <1>1, <1>2 DEF HostIInv

(* The parts of TypeOK that the operations of flow control leave alone. *)
RestTyped ==
    /\ pty \in [Terminals -> {"none", "live", "exited", "destroyed", "gone"}]
    /\ subscribed \subseteq {t \in Terminals : Host!Known(t)}
    /\ unread \in [Terminals -> Nat] /\ batch \in [Terminals -> Nat]
    /\ stdout \in Seq(Frames) /\ acks \in Seq(Frames)
    /\ produced \in 0 .. MaxChunks /\ drained \subseteq Terminals /\ stranded \subseteq Terminals

FlowTyped == flow \in FlowRecord /\ (flow.blocked => flow.due)

LEMMA HostTypeParts == Host!TypeOK <=> RestTyped /\ FlowTyped
  BY DEF Host!TypeOK, RestTyped, FlowTyped, FlowRecord, Frames

LEMMA RestKept == Marks /\ Host!TypeOK /\ [Host!Next]_(Host!vars) => RestTyped'
<1> SUFFICES ASSUME Marks, Host!TypeOK, [Host!Next]_(Host!vars) PROVE RestTyped' OBVIOUS
<1> USE HostTypeParts DEF RestTyped
<1>1. ASSUME NEW t \in Terminals, Host!Create(t) PROVE RestTyped'
  BY <1>1 DEF Host!Create, Host!Known
<1>2. ASSUME NEW t \in Terminals, Host!Subscribe(t) PROVE RestTyped'
  BY <1>2 DEF Host!Subscribe, Host!Known
<1>3. ASSUME NEW t \in Terminals, Host!Unsubscribe(t) PROVE RestTyped'
  BY <1>3 DEF Host!Unsubscribe, Host!Known
<1>4. ASSUME NEW t \in Terminals, Host!Destroy(t) PROVE RestTyped'
  BY <1>4 DEF Host!Destroy, Host!Known
<1>5. ASSUME NEW t \in Terminals, Host!Reads(t) PROVE RestTyped'
  BY <1>5 DEF Marks, Host!Reads, Host!Known
<1>6. ASSUME NEW t \in Terminals, Host!FlushCallbacks(t) PROVE RestTyped'
  BY <1>6 DEF Host!FlushCallbacks, Host!Known
<1>7. ASSUME NEW t \in Terminals, Host!FlushBatch(t) PROVE RestTyped'
  <2>1. stdout' \in Seq(Frames) BY <1>7, FlushFramesType DEF Host!FlushBatch
  <2> QED BY <1>7, <2>1 DEF Host!FlushBatch, Host!Known
<1>8. ASSUME NEW t \in Terminals, Host!Exits(t) PROVE RestTyped'
  <2>1. stdout' \in Seq(Frames) BY <1>8, FlushFramesType DEF Host!Exits
  <2>2. subscribed' \subseteq {u \in Terminals : Host!Known(u)'}
    BY <1>8 DEF Host!Exits, Host!Known
  <2>3. pty' \in [Terminals -> {"none", "live", "exited", "destroyed", "gone"}]
    BY <1>8 DEF Host!Exits
  <2> QED BY <1>8, <2>1, <2>2, <2>3 DEF Host!Exits
<1>9. CASE Host!Drain BY <1>9 DEF Host!Drain, Host!Known, Host!SubscribedPtys
<1>10. CASE Host!MainReads
  <2>1. Head(stdout) \in Frames /\ Tail(stdout) \in Seq(Frames) BY <1>10 DEF Host!MainReads
  <2> QED BY <1>10, <2>1 DEF Host!MainReads, Host!Known
<1>11. CASE Host!HostAcks BY <1>11 DEF Host!HostAcks, Host!Known
<1>12. CASE UNCHANGED Host!vars BY <1>12 DEF Host!vars, Host!Known
<1> QED BY <1>1, <1>2, <1>3, <1>4, <1>5, <1>6, <1>7, <1>8, <1>9, <1>10, <1>11, <1>12 DEF Host!Next

LEMMA FlowKept ==
    ASSUME HostIInv, [Host!Next]_(Host!vars)
    PROVE  FlowTyped' /\ AboveIsHeld(flow') /\ HeldIsPaused(flow', drained')
<1> DEFINE Goal == FlowTyped' /\ AboveIsHeld(flow') /\ HeldIsPaused(flow', drained')
<1>1. Marks /\ FlowTyped /\ RestTyped /\ AboveIsHeld(flow) /\ HeldIsPaused(flow, drained)
  BY HostTypeParts DEF HostIInv
<1>2. CASE UNCHANGED <<flow, drained>> BY <1>1, <1>2 DEF FlowTyped
<1>3. ASSUME NEW t \in Terminals, Host!Unsubscribe(t) PROVE Goal
  BY <1>1, <1>3, ResetKeeps DEF Host!Unsubscribe, FlowTyped
<1>4. ASSUME NEW t \in Terminals, Host!FlushBatch(t) PROVE Goal
  <2>1. PICK full \in BOOLEAN : flow' = Host!Flushed(t, batch[t], full) BY <1>4 DEF Host!FlushBatch
  <2>2. batch[t] \in Nat /\ drained' = drained BY <1>1, <1>4 DEF Host!FlushBatch, RestTyped
  <2> QED BY <2>1, <2>2, FlushedKeeps DEF FlowTyped
<1>5. ASSUME NEW t \in Terminals, Host!Exits(t) PROVE Goal
  <2>1. PICK full, fuller \in BOOLEAN :
          flow' = [Host!Reset(Host!Flushed(t, batch[t], full), t) EXCEPT !.due = @ \/ fuller]
    BY <1>5 DEF Host!Exits
  <2>2. batch[t] \in Nat /\ drained' = drained \ {t} BY <1>1, <1>5 DEF Host!Exits, RestTyped
  <2>3. PICK f \in FlowRecord :
          /\ f = Host!Flushed(t, batch[t], full) /\ (f.blocked => f.due)
          /\ AboveIsHeld(f) /\ HeldIsPaused(f, drained)
    BY <2>2, FlushedKeeps
  <2>4. PICK g \in FlowRecord :
          /\ g = Host!Reset(f, t) /\ (g.blocked => g.due)
          /\ AboveIsHeld(g) /\ HeldIsPaused(g, drained \ {t})
    BY <1>1, <2>3, ResetKeeps
  <2>5. flow' = [g EXCEPT !.due = @ \/ fuller] BY <2>1, <2>3, <2>4
  <2> QED BY <2>2, <2>4, <2>5 DEF FlowTyped, FlowRecord, AboveIsHeld, HeldIsPaused
<1>6. CASE Host!Drain
  <2>1. \E freed \in SUBSET Terminals :
          flow' = Host!ResumedAll(flow, freed) /\ drained' = drained \cup (freed \cap flow.held)
    <3> DEFINE waiting == IF flow.blocked THEN Host!SubscribedPtys ELSE {}
    <3>1. waiting \in SUBSET Terminals BY <1>1 DEF Host!SubscribedPtys, RestTyped
    <3>2. flow' = Host!ResumedAll(flow, waiting) /\ drained' = drained \cup (waiting \cap flow.held)
      BY <1>6 DEF Host!Drain
    <3> QED BY <3>1, <3>2
  <2>2. PICK freed \in SUBSET Terminals :
          flow' = Host!ResumedAll(flow, freed) /\ drained' = drained \cup (freed \cap flow.held)
    BY <2>1
  <2> QED BY <1>1, <2>2 DEF Host!ResumedAll, FlowTyped, FlowRecord, AboveIsHeld, HeldIsPaused
<1>7. CASE Host!HostAcks
  <2>1. PICK m \in Frames : m = Head(acks) BY <1>1, <1>7 DEF Host!HostAcks, RestTyped
  <2>2. CASE Host!Known(m.terminal)
    <3>1. flow' = Host!Acked(flow, m.terminal, m.chunks) /\ drained' = drained \cap flow'.held
      BY <1>7, <2>1, <2>2 DEF Host!HostAcks
    <3>2. m.terminal \in Terminals /\ m.chunks \in Nat BY DEF Frames
    <3> QED BY <1>1, <3>1, <3>2, AckedKeeps DEF FlowTyped
  <2>3. CASE ~Host!Known(m.terminal)
    <3>1. flow' = flow /\ drained' = drained \cap flow'.held
      BY <1>7, <2>1, <2>3 DEF Host!HostAcks
    <3> QED BY <1>1, <3>1 DEF FlowTyped, HeldIsPaused
  <2> QED BY <2>2, <2>3
<1> QED
  BY <1>2, <1>3, <1>4, <1>5, <1>6, <1>7
  DEF Host!Next, Host!vars, Host!Create, Host!Subscribe, Host!Destroy, Host!Reads,
      Host!FlushCallbacks, Host!MainReads

THEOREM HostInvariance == Marks /\ Host!Spec => []HostIInv
<1>1. HostIInv /\ [Host!Next]_(Host!vars) => HostIInv'
  <2> SUFFICES ASSUME HostIInv, [Host!Next]_(Host!vars) PROVE HostIInv' OBVIOUS
  <2>1. RestTyped' BY RestKept DEF HostIInv
  <2>2. FlowTyped' /\ AboveIsHeld(flow') /\ HeldIsPaused(flow', drained') BY FlowKept
  <2>3. Host!TypeOK' BY <2>1, <2>2, HostTypeParts, PTL
  <2> QED BY <2>2, <2>3 DEF HostIInv, AboveIsHeld, HeldIsPaused
<1> QED BY <1>1, HostInitially, PTL DEF Host!Spec

-----------------------------------------------------------------------------
(* Types of the state; only a terminal the host knows is subscribed, and    *)
(* what backpressure blocked waits for a drain that is due.                 *)
THEOREM HostTypeCorrect == Marks /\ Host!Spec => []Host!TypeOK
<1>1. HostIInv => Host!TypeOK BY DEF HostIInv
<1> QED BY <1>1, HostInvariance, PTL

(* A live terminal whose unacknowledged output is above the high mark does *)
(* not read, whatever backpressure, resets, exits and late acknowledgements*)
(* did to its switch in between - unless a drain turned it on.             *)
THEOREM OverHighIsPausedAlways == Marks /\ Host!Spec => []Host!OverHighIsPaused
<1>1. HostIInv => Host!OverHighIsPaused
  BY DEF HostIInv, AboveIsHeld, HeldIsPaused, Host!OverHighIsPaused
<1> QED BY <1>1, HostInvariance, PTL
=============================================================================
