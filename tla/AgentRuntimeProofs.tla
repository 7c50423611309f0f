-------------------------- MODULE AgentRuntimeProofs --------------------------
(***************************************************************************)
(* The safety of one agent session's life, for any number of calls,        *)
(* providers, turns and restarts of the server; and of the turns it has    *)
(* with Codex, for any number of turns and faults.                         *)
(*                                                                         *)
(* The session.  Turns and sessions point at each other: a running turn is *)
(* the active one of a session that says running, and such a session has   *)
(* one.  Nearly every step that touches both only makes a session stop     *)
(* running, so one lemma, StopKeeps, serves them all.  The other half      *)
(* follows a provider from its spawn, which one call knows, through the    *)
(* registry, to its close, which leaves a call with nothing open to forget.*)
(*                                                                         *)
(* Codex.  Wanda and Codex know of a turn only what the frames between     *)
(* them say.  So the invariant is about the pipes: whatever either side    *)
(* wrote is true of the other when it is read, and a turn that Codex has   *)
(* not ended goes on in Wanda or has its interrupt under way.              *)
(***************************************************************************)
EXTENDS AgentRuntime, Sequences, FiniteSetTheorems, TLAPS

VARIABLES phase, request, name, settled, settledBy, cancelling, turnRef, fatal, open, unnamed,
          stdin, stdout, codex, closed, faults

(* Both protocols' bounds are any naturals: that of the faults of Codex is  *)
(* called MaxCrashes here.                                                 *)
Codex == INSTANCE CodexTurns WITH MaxFaults <- MaxCrashes

SessionOf == [state : {"none", "ready", "running", "error", "dead", "closed"},
              active : Turns \cup {None}, dying : BOOLEAN, scope : {"none", "open", "closed"}]
TurnOf == [phase : {"none", "running", "completed", "failed", "cancelled", "lost"},
           on : Sessions \cup {None}]
CallOf == [op : {"none", "prompt", "review", "get", "close"},
           phase : {"idle", "spawning", "evicting", "closing"}, on : Sessions \cup {None}]

Typed ==
    /\ managed \in [Sessions -> SessionOf] /\ turn \in [Turns -> TurnOf]
    /\ call \in [Callers -> CallOf] /\ registry \in Sessions \cup {None}
    /\ spawned \in 0 .. MaxSessions /\ started \in 0 .. MaxTurns
    /\ row \in {"none", "open", "closed"} /\ crashes \in 0 .. MaxCrashes
    /\ replaced \cup revived \cup leaked \subseteq Sessions

(* A running turn is the active one of a session that says running and has *)
(* its provider.                                                           *)
TurnGood(t) ==
    /\ t <= started <=> turn[t].phase # "none"
    /\ turn[t].on <= spawned /\ (turn[t].phase = "none" => turn[t].on = None)
    /\ Running(t) => /\ turn[t].on # None
                     /\ managed[turn[t].on].state = "running"
                     /\ managed[turn[t].on].active = t
                     /\ managed[turn[t].on].scope = "open"

(* activeTurn is a turn of the session, and runs if the session says so. *)
RunsGood(s) ==
    /\ managed[s].active # None => turn[managed[s].active].on = s
    /\ managed[s].state = "running" => managed[s].active # None /\ Running(managed[s].active)

Turning == (\A t \in Turns : TurnGood(t)) /\ (\A s \in Sessions : RunsGood(s))

(* What was not spawned yet is not made, what leaked never was, and a      *)
(* provider that is open is somebody's.                                    *)
ScopeGood(s) ==
    /\ s > spawned => managed[s].state = "none" /\ managed[s].scope = "none" /\ s \notin leaked
    /\ s \in leaked => managed[s].state = "none" /\ managed[s].scope # "closed"
    /\ managed[s].scope = "open" => s = registry \/ s \in replaced \cup leaked

(* What a call spawns is not made yet, and nothing else knows it; what a   *)
(* call is to remove from the registry has no provider left.               *)
CallGood(c) ==
    /\ call[c].phase = "idle" <=> call[c].on = None
    /\ row = "none" => call[c].phase = "idle"
    /\ call[c].on <= spawned
    /\ call[c].phase = "spawning" =>
          /\ managed[call[c].on].state = "none" /\ managed[call[c].on].scope = "none"
          /\ call[c].on \notin leaked /\ registry # call[c].on
          /\ \A d \in Callers : call[d].on = call[c].on => d = c
    /\ call[c].phase \in {"evicting", "closing"} => managed[call[c].on].scope = "closed"

RegistryGood ==
    /\ registry <= spawned /\ (row = "none" => registry = None)
    /\ registry # None => /\ managed[registry].state # "none"
                          /\ row = "open" \/ registry \in revived

Owning == /\ \A s \in Sessions : ScopeGood(s)
          /\ \A c \in Callers : CallGood(c)
          /\ RegistryGood

IInv == Typed /\ Turning /\ Owning

-----------------------------------------------------------------------------
(* The numbers among the fields. *)
LEMMA Numbers ==
    ASSUME Typed
    PROVE  /\ Sessions \subseteq Nat \ {0} /\ Turns \subseteq Nat \ {0} /\ None = 0
           /\ \A s \in Sessions :
                /\ managed[s] \in SessionOf /\ managed[s].active \in Turns \cup {None}
           /\ \A t \in Turns : turn[t] \in TurnOf /\ turn[t].on \in Sessions \cup {None}
           /\ \A c \in Callers : call[c] \in CallOf /\ call[c].on \in Sessions \cup {None}
           /\ spawned \in Nat /\ started \in Nat
BY RuntimeAssumption DEF Typed, Sessions, Turns, None, SessionOf, TurnOf, CallOf

LEMMA SessionUpdates ==
    ASSUME NEW f \in [Sessions -> SessionOf], NEW s \in Sessions
    PROVE  /\ \A x \in {"none", "ready", "running", "error", "dead", "closed"} :
                [f EXCEPT ![s].state = x] \in [Sessions -> SessionOf]
           /\ \A x \in {"none", "open", "closed"} :
                [f EXCEPT ![s].scope = x] \in [Sessions -> SessionOf]
           /\ \A v \in SessionOf : [f EXCEPT ![s] = v] \in [Sessions -> SessionOf]
BY DEF SessionOf

(* A step after which session s does not run: its turn, if it had one, has *)
(* ended, and all else is as it was.                                       *)
SessionStops(s, how) ==
    /\ \A u \in Sessions \ {s} : managed'[u] = managed[u]
    /\ managed'[s].state # "running" /\ managed'[s].active \in {None, managed[s].active}
    /\ \A t \in Turns :
          /\ turn'[t].on = turn[t].on
          /\ turn'[t].phase = IF turn[t].phase = "running" /\ turn[t].on = s
                              THEN how ELSE turn[t].phase
    /\ started' = started /\ spawned' \in Nat /\ spawned <= spawned'

LEMMA StopKeeps ==
    ASSUME IInv, NEW s \in Sessions, NEW how \in {"completed", "failed", "cancelled", "lost"},
           SessionStops(s, how)
    PROVE  Turning'
<1>0. Typed /\ Turning BY DEF IInv
<1>1. \A t \in Turns : turn[t].on \in Sessions \cup {None} BY <1>0, Numbers
<1>2. \A u \in Sessions : managed[u].active \in Turns \cup {None} BY <1>0, Numbers
<1>3. ASSUME NEW t \in Turns PROVE TurnGood(t)'
  <2>1. TurnGood(t) BY <1>0 DEF Turning
  <2>a. turn'[t].on <= spawned'
    BY <2>1, <1>0, <1>1, Numbers DEF TurnGood, SessionStops
  <2>2. CASE turn[t].phase = "running" /\ turn[t].on = s
    BY <2>1, <2>a, <2>2 DEF SessionStops, TurnGood, Running
  <2>3. CASE ~(turn[t].phase = "running" /\ turn[t].on = s)
    BY <2>1, <2>a, <2>3, <1>1 DEF SessionStops, TurnGood, Running
  <2> QED BY <2>2, <2>3
<1>4. ASSUME NEW u \in Sessions PROVE RunsGood(u)'
  <2>1. RunsGood(u) BY <1>0 DEF Turning
  <2>2. CASE u = s BY <2>1, <2>2, <1>2 DEF SessionStops, RunsGood
  <2>3. CASE u # s BY <2>1, <2>3, <1>2 DEF SessionStops, RunsGood, Running
  <2> QED BY <2>2, <2>3
<1> QED BY <1>3, <1>4 DEF Turning

(* A session with no provider, or that says so, has no turn. *)
LEMMA NoTurnOn ==
    ASSUME IInv, NEW s \in Sessions, managed[s].state # "running" \/ managed[s].scope # "open"
    PROVE  \A t \in Turns : ~(turn[t].phase = "running" /\ turn[t].on = s)
BY DEF IInv, Turning, TurnGood, Running

LEMMA IdleSessionStops ==
    ASSUME IInv, NEW s \in Sessions, managed[s].state # "running" \/ managed[s].scope # "open",
           \A u \in Sessions \ {s} : managed'[u] = managed[u],
           managed'[s].state # "running", managed'[s].active \in {None, managed[s].active},
           UNCHANGED <<turn, started>>, spawned' \in Nat, spawned <= spawned'
    PROVE  Turning'
<1>1. SessionStops(s, "lost") BY NoTurnOn DEF SessionStops
<1> QED BY <1>1, StopKeeps

(* A step in which a turn starts on s. *)
LEMMA StartKeeps ==
    ASSUME IInv, NEW s \in Sessions, NEW t \in Turns, t = started + 1, started' = t,
           managed[s].state # "running", UNCHANGED spawned, s <= spawned,
           \A u \in Sessions \ {s} : managed'[u] = managed[u],
           \A u \in Turns \ {t} : turn'[u] = turn[u], turn'[t].on = s,
           managed'[s].active = t,
           \/ /\ turn'[t].phase = "running" /\ managed'[s].state = "running"
              /\ managed'[s].scope = "open"
           \/ turn'[t].phase = "failed" /\ managed'[s].state # "running"
    PROVE  Turning'
<1>0. Typed /\ Turning BY DEF IInv
<1>1. \A u \in Turns : turn[u].on \in Sessions \cup {None} BY <1>0, Numbers
<1>2. \A u \in Sessions : managed[u].active \in Turns \cup {None} BY <1>0, Numbers
<1>a. started \in Nat /\ Turns \subseteq Nat \ {0} /\ None \notin Sessions /\ None \notin Turns
  BY <1>0, Numbers
<1>3. ASSUME NEW u \in Turns PROVE TurnGood(u)'
  <2>1. TurnGood(u) /\ TurnGood(t) BY <1>0 DEF Turning
  <2>2. CASE u = t BY <2>2, <1>a DEF TurnGood, Running
  <2>3. CASE u # t
    <3>1. turn'[u] = turn[u] /\ (u <= started' <=> u <= started) BY <2>3, <1>a
    <3>2. Running(u) => turn[u].on # s BY <2>1 DEF TurnGood
    <3> QED BY <3>1, <3>2, <2>1, <1>1 DEF TurnGood, Running
  <2> QED BY <2>2, <2>3
<1>4. ASSUME NEW u \in Sessions PROVE RunsGood(u)'
  <2>1. RunsGood(u) /\ TurnGood(t) BY <1>0 DEF Turning
  <2>2. CASE u = s BY <2>2, <1>a DEF RunsGood, Running
  <2>3. CASE u # s
    <3>1. managed'[u] = managed[u] BY <2>3
    <3>2. managed[u].active # t BY <2>1, <1>a DEF RunsGood, TurnGood
    <3> QED BY <3>1, <3>2, <2>1, <1>2 DEF RunsGood, Running
  <2> QED BY <2>2, <2>3
<1> QED BY <1>3, <1>4 DEF Turning

-----------------------------------------------------------------------------
(* Steps that change no scope, make no session and touch no call. *)
LEMMA ScopesStay ==
    ASSUME IInv, UNCHANGED <<row, registry, call, spawned, history>>,
           \A s \in Sessions : /\ managed'[s].scope = managed[s].scope
                               /\ managed'[s].state = "none" <=> managed[s].state = "none"
    PROVE  Owning'
<1>0. Typed /\ Owning BY DEF IInv
<1>1. \A s \in Sessions : ScopeGood(s)' BY <1>0 DEF Owning, ScopeGood, history
<1>2. \A c \in Callers : call[c].on \in Sessions \cup {None} BY <1>0, Numbers
<1>3. ASSUME NEW c \in Callers PROVE CallGood(c)'
  <2>1. CallGood(c) BY <1>0 DEF Owning
  <2>2. call[c].phase # "idle" => call[c].on \in Sessions BY <2>1, <1>2 DEF CallGood
  <2> QED BY <2>1, <2>2 DEF CallGood, history
<1>4. RegistryGood' BY <1>0 DEF Typed, Owning, RegistryGood, history
<1> QED BY <1>1, <1>3, <1>4 DEF Owning

(* Steps in which a call closes the scope of the registered session. *)
LEMMA ScopeCloses ==
    ASSUME IInv, NEW c \in Callers, NEW s \in Sessions, s = registry,
           UNCHANGED <<row, registry, spawned, history>>,
           call[c].phase = "idle", call'[c].on = s, call'[c].phase \in {"evicting", "closing"},
           \A d \in Callers \ {c} : call'[d] = call[d],
           \A u \in Sessions \ {s} : managed'[u] = managed[u],
           managed'[s].scope = "closed", managed'[s].state # "none"
    PROVE  Owning'
<1>0. Typed /\ Owning BY DEF IInv
<1>1. /\ s # None /\ s <= spawned /\ s \in Nat /\ spawned \in Nat
      /\ managed[s].state # "none" /\ row # "none"
  BY <1>0, Numbers DEF Owning, RegistryGood
<1>2. ASSUME NEW u \in Sessions PROVE ScopeGood(u)'
  <2>1. ScopeGood(u) /\ ScopeGood(s) BY <1>0 DEF Owning
  <2> QED BY <2>1, <1>1 DEF ScopeGood, history
<1>3. ASSUME NEW d \in Callers PROVE CallGood(d)'
  <2>1. CallGood(d) /\ CallGood(c) BY <1>0 DEF Owning
  <2>2. call[d].on \in Sessions \cup {None} BY <1>0, Numbers
  <2>3. CASE d = c BY <2>3, <1>1 DEF CallGood
  <2>4. CASE d # c
    <3>1. call'[d] = call[d] BY <2>4
    <3>2. call[d].phase # "idle" => call[d].on \in Sessions BY <2>1, <2>2 DEF CallGood
    <3>3. call[d].phase = "spawning" => call[d].on # s BY <2>1 DEF CallGood
    <3> QED BY <3>1, <3>2, <3>3, <2>1 DEF CallGood, history
  <2> QED BY <2>3, <2>4
<1>4. RegistryGood' BY <1>0, <1>1 DEF Owning, RegistryGood, history
<1> QED BY <1>2, <1>3, <1>4 DEF Owning

(* Steps in which call c ends, or spawns the next provider. *)
LEMMA CallSpawns ==
    ASSUME IInv, NEW c \in Callers, registry' = None,
           UNCHANGED <<row, managed, turn, started, revived, leaked>>,
           registry # None => managed[registry].scope # "open" \/ registry \in replaced',
           replaced \subseteq replaced',
           \A d \in Callers \ {c} : call'[d] = call[d],
           \/ call'[c].phase = "idle" /\ call'[c].on = None /\ spawned' = spawned
           \/ /\ call'[c].phase = "spawning" /\ call'[c].on = spawned + 1
              /\ spawned' = spawned + 1 /\ spawned < MaxSessions /\ row = "open"
    PROVE  Turning' /\ Owning'
<1>0. Typed /\ Turning /\ Owning BY DEF IInv
<1>n. /\ spawned \in Nat /\ spawned' \in Nat /\ spawned <= spawned' /\ None = 0
      /\ \A u \in Sessions \cup {None} : u \in Nat
      /\ spawned' # spawned => spawned' \in Sessions
  BY <1>0, Numbers, RuntimeAssumption DEF Sessions
<1>1. ASSUME NEW u \in Sessions PROVE ScopeGood(u)' /\ RunsGood(u)'
  <2>1. ScopeGood(u) /\ RunsGood(u) /\ u \in Nat BY <1>0, Numbers DEF Owning, Turning
  <2> QED BY <2>1, <1>n DEF ScopeGood, RunsGood, Running
<1>2. ASSUME NEW d \in Callers PROVE CallGood(d)'
  <2>1. CallGood(d) /\ CallGood(c) BY <1>0 DEF Owning
  <2>2. call[d].on \in Sessions \cup {None} BY <1>0, Numbers
  <2>3. CASE d = c
    <3>1. CASE call'[c].phase = "idle" BY <2>3, <3>1, <1>n DEF CallGood
    <3>2. CASE call'[c].phase = "spawning"
      <4>1. /\ spawned' \in Sessions /\ spawned' > spawned
            /\ call'[c].phase = "spawning" /\ call'[c].on = spawned'
        BY <3>2, <1>n
      <4>2. ScopeGood(spawned') BY <4>1, <1>0 DEF Owning
      <4>3. \A e \in Callers \ {c} : call'[e].on # spawned'
        <5> SUFFICES ASSUME NEW e \in Callers \ {c} PROVE call'[e].on # spawned' OBVIOUS
        <5>1. CallGood(e) /\ call'[e] = call[e] BY <1>0 DEF Owning
        <5> QED BY <5>1, <4>1, <1>n DEF CallGood
      <4> QED BY <2>3, <4>1, <4>2, <4>3, <1>n DEF CallGood, ScopeGood
    <3> QED BY <3>1, <3>2
  <2>4. CASE d # c
    <3>1. call'[d] = call[d] /\ (call[d].phase # "idle" => call[d].on \in Sessions)
      BY <2>1, <2>2, <2>4 DEF CallGood
    <3>2. call[d].phase = "spawning" =>
            \A e \in Callers : call'[e].on = call[d].on => e = d
      BY <3>1, <2>1, <2>4, <1>n DEF CallGood
    <3>3. call[d].on \in Nat BY <2>2, <1>n
    <3>4. call[d].on <= spawned' BY <2>1, <3>3, <1>n DEF CallGood
    <3> QED BY <3>1, <3>2, <3>4, <2>1, <1>n DEF CallGood
  <2> QED BY <2>3, <2>4
<1>3. ASSUME NEW t \in Turns PROVE TurnGood(t)'
  <2>1. TurnGood(t) /\ turn[t].on \in Sessions \cup {None} BY <1>0, Numbers DEF Turning
  <2>2. turn[t].on \in Nat BY <2>1, <1>n
  <2>3. turn[t].on <= spawned' BY <2>1, <2>2, <1>n DEF TurnGood
  <2> QED BY <2>1, <2>3 DEF TurnGood, Running
<1>4. RegistryGood' BY <1>0, <1>n DEF Owning, RegistryGood
<1> QED BY <1>1, <1>2, <1>3, <1>4 DEF Owning, Turning


-----------------------------------------------------------------------------
(* What a call is on when it returns. *)
LEMMA CallReturns ==
    ASSUME IInv, NEW c \in Callers, NEW s \in Sessions, s = call[c].on, call[c].phase # "idle",
           call'[c].phase = "idle", call'[c].on = None,
           \A d \in Callers \ {c} : call'[d] = call[d],
           \A u \in Sessions \ {s} : managed'[u] = managed[u],
           managed[s].scope = "closed" => managed'[s].scope = "closed",
           UNCHANGED spawned, leaked' \subseteq leaked \cup {s},
           registry' \in {registry, None, s}, row' = "none" => row = "none"
    PROVE  \A d \in Callers : CallGood(d)'
<1>0. Typed /\ Owning BY DEF IInv
<1>1. SUFFICES ASSUME NEW d \in Callers PROVE CallGood(d)' OBVIOUS
<1>2. /\ CallGood(d) /\ CallGood(c) /\ call[d].on \in Sessions \cup {None}
      /\ None \notin Sessions /\ spawned \in Nat /\ None = 0
      /\ call[d] \in CallOf /\ call[c] \in CallOf
  BY <1>0, Numbers DEF Owning
<1>3. CASE d = c BY <1>2, <1>3 DEF CallGood
<1>4. CASE d # c
  <2>1. call'[d] = call[d] BY <1>4
  <2>2. call[d].phase # "idle" => call[d].on \in Sessions BY <1>2 DEF CallGood
  <2>3. call[d].phase = "spawning" =>
          /\ call[d].on # s
          /\ \A e \in Callers : call'[e].on = call[d].on => e = d
    BY <1>2, <1>4, <2>2 DEF CallGood, CallOf
  <2> QED BY <2>1, <2>2, <2>3, <1>2 DEF CallGood
<1> QED BY <1>3, <1>4

(* An interrupt leaves the session not running, and no turn on it. *)
LEMMA InterruptStops ==
    ASSUME IInv, NEW s \in Sessions, NEW next \in {"none", "open", "closed"},
           Interrupts(s, next), UNCHANGED <<started, spawned>>
    PROVE  /\ SessionStops(s, "cancelled")
           /\ managed'[s].scope = next
           /\ managed'[s].state = "none" <=> managed[s].state = "none"
           /\ managed' \in [Sessions -> SessionOf] /\ turn' \in [Turns -> TurnOf]
<1>0. Typed /\ RunsGood(s)
  BY DEF IInv, Turning
<1>1. PICK m \in SessionOf : m = managed[s] BY <1>0 DEF Typed
<1>2. PICK t \in Turns \cup {None} : t = m.active BY <1>1 DEF SessionOf
<1>n. /\ None \notin Turns /\ spawned \in Nat
      /\ turn \in [Turns -> TurnOf] /\ managed \in [Sessions -> SessionOf]
  BY <1>0, Numbers DEF Typed
<1> DEFINE live == t # None /\ Running(t)
           r == [m EXCEPT !.active = None, !.scope = next,
                          !.state = IF live THEN "ready" ELSE m.state]
<1>3. /\ r \in SessionOf /\ r.active = None /\ r.scope = next
      /\ r.state = IF live THEN "ready" ELSE m.state
  BY <1>1 DEF SessionOf
<1>4. /\ managed' = [managed EXCEPT ![s] = r]
      /\ turn' = IF live THEN [turn EXCEPT ![t].phase = "cancelled"] ELSE turn
  <2>1. t = managed[s].active /\ m.state = managed[s].state BY <1>1, <1>2
  <2> QED BY <2>1, <1>1 DEF Interrupts
<1> HIDE DEF r
<1>5. /\ managed' \in [Sessions -> SessionOf] /\ managed'[s] = r
      /\ \A u \in Sessions \ {s} : managed'[u] = managed[u]
  BY <1>3, <1>4, <1>n
<1>6. \A u \in Turns : /\ turn'[u].on = turn[u].on
                       /\ turn'[u].phase = IF live /\ u = t THEN "cancelled" ELSE turn[u].phase
  BY <1>4, <1>2, <1>n DEF TurnOf
<1>7. turn' \in [Turns -> TurnOf] BY <1>4, <1>2, <1>n DEF TurnOf
<1>8. \A u \in Turns : turn[u].phase = "running" /\ turn[u].on = s <=> live /\ u = t
  <2> SUFFICES ASSUME NEW u \in Turns
               PROVE  turn[u].phase = "running" /\ turn[u].on = s <=> live /\ u = t
    OBVIOUS
  <2>1. TurnGood(u) BY DEF IInv, Turning
  <2> QED BY <2>1, <1>0, <1>1, <1>2, <1>n DEF TurnGood, RunsGood, Running
<1>9. r.state # "running" BY <1>0, <1>1, <1>2, <1>3 DEF RunsGood
<1>10. SessionStops(s, "cancelled") BY <1>3, <1>5, <1>6, <1>8, <1>9, <1>n DEF SessionStops
<1>11. r.state = "none" <=> managed[s].state = "none"
  <2>1. live => managed[s].state = "running"
    <3>1. SUFFICES ASSUME live PROVE managed[s].state = "running" OBVIOUS
    <3>2. t \in Turns /\ TurnGood(t) BY <3>1, <1>2 DEF IInv, Turning
    <3>3. turn[t].on = s BY <3>1, <1>0, <1>1, <1>2 DEF RunsGood
    <3> QED BY <3>1, <3>2, <3>3 DEF TurnGood
  <2> QED BY <2>1, <1>1, <1>3
<1> QED BY <1>3, <1>5, <1>7, <1>10, <1>11

-----------------------------------------------------------------------------
LEMMA RecordTypes ==
    /\ Unmade \in SessionOf /\ Fresh \in SessionOf /\ NoTurn \in TurnOf /\ Idle \in CallOf
    /\ \A s \in Sessions : /\ [phase |-> "running", on |-> s] \in TurnOf
                           /\ [phase |-> "failed", on |-> s] \in TurnOf
    /\ \A s \in Sessions \cup {None}, op \in {"none", "prompt", "review", "get", "close"},
          p \in {"idle", "spawning", "evicting", "closing"} :
          [op |-> op, phase |-> p, on |-> s] \in CallOf
BY DEF SessionOf, TurnOf, CallOf, Unmade, Fresh, NoTurn, Idle

LEMMA CreateKeeps ==
    ASSUME IInv, Create
    PROVE  IInv'
<1>0. Typed /\ Owning /\ Turning BY DEF IInv
<1>1. PICK s \in Sessions : s = spawned + 1 BY <1>0, RuntimeAssumption DEF Create, Typed, Sessions
<1>2. /\ spawned' = s /\ row = "none" /\ row' = "open" /\ registry' = s
      /\ managed' = [managed EXCEPT ![s] = Fresh]
      /\ UNCHANGED <<turn, call, started, crashes, history>>
  BY <1>1 DEF Create
<1>n. /\ spawned \in Nat /\ s \in Nat /\ s > spawned /\ None = 0 /\ None \notin Sessions
      /\ \A u \in Sessions \cup {None} : u \in Nat
  BY <1>0, <1>1, Numbers
<1>3. Typed'
  <2>1. managed' \in [Sessions -> SessionOf] BY <1>0, <1>2, RecordTypes, SessionUpdates DEF Typed
  <2>2. spawned' \in 0 .. MaxSessions BY <1>2 DEF Sessions
  <2> QED BY <2>1, <2>2, <1>0, <1>2 DEF Typed, history
<1>4. /\ managed'[s].state = "ready" /\ managed'[s].active = None /\ managed'[s].scope = "open"
      /\ \A u \in Sessions \ {s} : managed'[u] = managed[u]
  BY <1>0, <1>2 DEF Typed, Fresh
<1>5. managed[s].state = "none" /\ s \notin leaked BY <1>0, <1>n DEF Owning, ScopeGood
<1>6. Turning' BY <1>2, <1>4, <1>5, <1>n, IdleSessionStops
<1>7. registry = None
  BY <1>0, <1>2, <1>n DEF Owning, RegistryGood, Typed
<1>8. ASSUME NEW u \in Sessions PROVE ScopeGood(u)'
  <2>1. ScopeGood(u) BY <1>0 DEF Owning
  <2> QED BY <2>1, <1>2, <1>4, <1>5, <1>7, <1>n DEF ScopeGood, history
<1>9. ASSUME NEW c \in Callers PROVE CallGood(c)'
  <2>1. CallGood(c) /\ call[c].on \in Nat BY <1>0, <1>n, Numbers DEF Owning
  <2>2. call[c].on = None /\ call[c].phase = "idle" BY <2>1, <1>2 DEF CallGood
  <2> QED BY <2>2, <1>2, <1>n DEF CallGood
<1>10. RegistryGood' BY <1>2, <1>4, <1>n DEF RegistryGood
<1> QED BY <1>3, <1>6, <1>8, <1>9, <1>10 DEF IInv, Owning

(* The cold path in a call that is idle or whose session has left the       *)
(* registry.                                                               *)
LEMMA ResurrectsSteps ==
    ASSUME IInv, NEW c \in Callers, NEW op \in {"prompt", "review", "get"}, Resurrects(c, op)
    PROVE  /\ call' \in [Callers -> CallOf] /\ spawned' \in 0 .. MaxSessions
           /\ \A d \in Callers \ {c} : call'[d] = call[d]
           /\ \/ call'[c].phase = "idle" /\ call'[c].on = None /\ spawned' = spawned
              \/ /\ call'[c].phase = "spawning" /\ call'[c].on = spawned + 1
                 /\ spawned' = spawned + 1 /\ spawned < MaxSessions /\ row = "open"
<1>0. Typed BY DEF IInv
<1>n. spawned \in 0 .. MaxSessions /\ MaxSessions \in Nat /\ call \in [Callers -> CallOf]
  BY <1>0, RuntimeAssumption DEF Typed
<1>1. CASE Returns(c) /\ UNCHANGED spawned BY <1>1, <1>n, RecordTypes DEF Returns, Idle
<1>2. CASE /\ row = "open" /\ spawned < MaxSessions /\ spawned' = spawned + 1
           /\ call' = [call EXCEPT ![c] = [op |-> op, phase |-> "spawning", on |-> spawned + 1]]
  <2>1. PICK s \in Sessions : s = spawned + 1 BY <1>2, <1>n DEF Sessions
  <2>2. PICK k \in CallOf : k = [op |-> op, phase |-> "spawning", on |-> s]
    BY RecordTypes
  <2>3. call' = [call EXCEPT ![c] = k] /\ k.phase = "spawning" /\ k.on = s
    BY <1>2, <2>1, <2>2
  <2> QED BY <2>1, <2>3, <1>2, <1>n
<1> QED BY <1>1, <1>2 DEF Resurrects

LEMMA CallsColdKeeps ==
    ASSUME IInv, NEW c \in Callers, CallsCold(c)
    PROVE  IInv'
<1>0. Typed BY DEF IInv
<1>1. PICK op \in {"prompt", "review", "get"} : Resurrects(c, op) BY DEF CallsCold
<1>2. registry = None /\ UNCHANGED <<row, registry, managed, turn, started, crashes, history>>
  BY DEF CallsCold
<1>3. Typed' BY <1>0, <1>1, <1>2, ResurrectsSteps DEF Typed, history
<1>4. Turning' /\ Owning' BY <1>1, <1>2, ResurrectsSteps, CallSpawns DEF history
<1> QED BY <1>3, <1>4 DEF IInv

LEMMA EvictedKeeps ==
    ASSUME IInv, NEW c \in Callers, Evicted(c)
    PROVE  IInv'
<1>0. Typed /\ Owning BY DEF IInv
<1>1. /\ Resurrects(c, "prompt") /\ registry' = None /\ call[c].phase = "evicting"
      /\ replaced' = replaced \cup ({registry} \ {None, call[c].on})
      /\ UNCHANGED <<row, managed, turn, started, crashes, revived, leaked>>
  BY DEF Evicted, Displaces
<1>2. Typed' BY <1>0, <1>1, ResurrectsSteps DEF Typed
<1>3. managed[call[c].on].scope = "closed" BY <1>0, <1>1 DEF Owning, CallGood
<1>4. Turning' /\ Owning' BY <1>1, <1>3, ResurrectsSteps, CallSpawns
<1> QED BY <1>2, <1>4 DEF IInv

LEMMA CallsHotKeeps ==
    ASSUME IInv, CallsHot
    PROVE  IInv'
<1>0. Typed /\ Owning BY DEF IInv
<1>1. PICK s \in Sessions, t \in Turns : s = registry /\ t = started + 1
  BY <1>0, RuntimeAssumption DEF CallsHot, StartsTurn, Typed, Turns
<1>2. /\ managed[s].state \in {"ready", "error", "dead"}
      /\ started' = t /\ UNCHANGED <<row, registry, call, spawned, crashes, history>>
  BY <1>1 DEF CallsHot, StartsTurn, MayRun
<1>3. PICK how \in {"running", "failed"}, state \in {"running", "dead", "error"} :
        /\ how = "running" <=> state = "running"
        /\ how = "running" => managed[s].scope = "open"
        /\ turn' = [turn EXCEPT ![t] = [phase |-> how, on |-> s]]
        /\ managed' = [managed EXCEPT ![s].active = t, ![s].state = state]
  <2>1. CASE managed[s].dying \/ managed[s].scope # "open"
    <3>1. CASE managed[s].dying
      <4> WITNESS "failed" \in {"running", "failed"}, "dead" \in {"running", "dead", "error"}
      <4> QED BY <2>1, <3>1, <1>1 DEF CallsHot, StartsTurn
    <3>2. CASE ~managed[s].dying
      <4> WITNESS "failed" \in {"running", "failed"}, "error" \in {"running", "dead", "error"}
      <4> QED BY <2>1, <3>2, <1>1 DEF CallsHot, StartsTurn
    <3> QED BY <3>1, <3>2
  <2>2. CASE ~(managed[s].dying \/ managed[s].scope # "open")
    <3> WITNESS "running" \in {"running", "failed"}, "running" \in {"running", "dead", "error"}
    <3> QED BY <2>2, <1>1 DEF CallsHot, StartsTurn
  <2> QED BY <2>1, <2>2
<1>4. managed \in [Sessions -> SessionOf] /\ turn \in [Turns -> TurnOf] BY <1>0 DEF Typed
<1>5. /\ managed' \in [Sessions -> SessionOf]
      /\ \A u \in Sessions \ {s} : managed'[u] = managed[u]
      /\ managed'[s].active = t /\ managed'[s].state = state
      /\ managed'[s].scope = managed[s].scope
  BY <1>3, <1>4 DEF SessionOf
<1>6. /\ turn' \in [Turns -> TurnOf] /\ \A u \in Turns \ {t} : turn'[u] = turn[u]
      /\ turn'[t].on = s /\ turn'[t].phase = how
  BY <1>3, <1>4 DEF TurnOf
<1>7. Typed' BY <1>0, <1>2, <1>5, <1>6 DEF Typed, Turns, history
<1>8. Turning'
  <2>1. s <= spawned BY <1>0, <1>1 DEF Owning, RegistryGood
  <2> QED BY <2>1, <1>1, <1>2, <1>3, <1>5, <1>6, StartKeeps
<1>9. Owning' BY <1>2, <1>5, ScopesStay
<1> QED BY <1>7, <1>8, <1>9 DEF IInv

LEMMA EvictsKeeps ==
    ASSUME IInv, NEW c \in Callers, Evicts(c)
    PROVE  IInv'
<1>0. Typed /\ Owning BY DEF IInv
<1>1. PICK s \in Sessions : s = registry BY <1>0 DEF Evicts, Typed
<1>2. PICK k \in CallOf : k = [op |-> "prompt", phase |-> "evicting", on |-> s]
  BY RecordTypes
<1>3. /\ managed[s].state = "dead" /\ call[c].phase = "idle"
      /\ managed' = [managed EXCEPT ![s].scope = "closed"] /\ call' = [call EXCEPT ![c] = k]
      /\ UNCHANGED <<row, registry, turn, spawned, started, crashes, history>>
  BY <1>1, <1>2 DEF Evicts, Idle
<1>4. managed \in [Sessions -> SessionOf] /\ call \in [Callers -> CallOf] /\ spawned \in Nat
  BY <1>0, Numbers DEF Typed
<1>5. Typed' BY <1>0, <1>3, <1>4, SessionUpdates DEF Typed, history
<1>6. /\ \A u \in Sessions \ {s} : managed'[u] = managed[u]
      /\ managed'[s].state = "dead" /\ managed'[s].active = managed[s].active
      /\ managed'[s].scope = "closed"
  BY <1>3, <1>4 DEF SessionOf
<1>7. (\A d \in Callers \ {c} : call'[d] = call[d]) /\ call'[c] = k BY <1>3, <1>4
<1>8. Turning' BY <1>3, <1>4, <1>6, IdleSessionStops
<1>9. Owning' BY <1>1, <1>2, <1>3, <1>6, <1>7, ScopeCloses
<1> QED BY <1>5, <1>8, <1>9 DEF IInv

LEMMA CloseKeeps ==
    ASSUME IInv, NEW c \in Callers, Close(c)
    PROVE  IInv'
<1>0. Typed /\ Owning BY DEF IInv
<1>1. PICK s \in Sessions : s = registry BY <1>0 DEF Close, Typed
<1>2. PICK k \in CallOf : k = [op |-> "close", phase |-> "closing", on |-> s]
  BY RecordTypes
<1>3. /\ Interrupts(s, "closed") /\ call[c].phase = "idle" /\ call' = [call EXCEPT ![c] = k]
      /\ UNCHANGED <<row, registry, spawned, started, crashes, history>>
  BY <1>1, <1>2 DEF Close, Idle
<1>4. call \in [Callers -> CallOf] BY <1>0 DEF Typed
<1>5. Typed' BY <1>0, <1>3, <1>4, InterruptStops DEF Typed, history
<1>6. Turning' BY <1>3, InterruptStops, StopKeeps
<1>7. (\A d \in Callers \ {c} : call'[d] = call[d]) /\ call'[c] = k BY <1>3, <1>4
<1>8. managed[s].state # "none" /\ \A u \in Sessions \ {s} : managed'[u] = managed[u]
  BY <1>0, <1>1, <1>3, InterruptStops, Numbers DEF Owning, RegistryGood, SessionStops
<1>9. Owning' BY <1>1, <1>2, <1>3, <1>7, <1>8, InterruptStops, ScopeCloses
<1> QED BY <1>5, <1>6, <1>9 DEF IInv

LEMMA CancelKeeps ==
    ASSUME IInv, Cancel
    PROVE  IInv'
<1>0. Typed /\ Owning BY DEF IInv
<1>1. PICK s \in Sessions : s = registry BY <1>0 DEF Cancel, Typed
<1>2. PICK scope \in {"none", "open", "closed"} : scope = managed[s].scope
  BY <1>0, Numbers DEF SessionOf
<1>3. /\ Interrupts(s, scope)
      /\ UNCHANGED <<row, registry, call, spawned, started, crashes, history>>
  BY <1>1, <1>2 DEF Cancel
<1>4. Typed' BY <1>0, <1>3, InterruptStops DEF Typed, history
<1>5. Turning' BY <1>3, InterruptStops, StopKeeps
<1>6. \A u \in Sessions \ {s} : managed'[u] = managed[u]
  BY <1>3, InterruptStops DEF SessionStops
<1>7. \A u \in Sessions : /\ managed'[u].scope = managed[u].scope
                          /\ managed'[u].state = "none" <=> managed[u].state = "none"
  BY <1>2, <1>3, <1>6, InterruptStops
<1>9. Owning' BY <1>3, <1>7, ScopesStay
<1> QED BY <1>4, <1>5, <1>9 DEF IInv

LEMMA TurnEndsKeeps ==
    ASSUME IInv, NEW t \in Turns, TurnEnds(t)
    PROVE  IInv'
<1>0. Typed /\ TurnGood(t) BY DEF IInv, Turning
<1>1. PICK s \in Sessions : s = turn[t].on
  BY <1>0, Numbers DEF TurnEnds, TurnGood
<1>2. PICK how \in {"completed", "failed"}, state \in {"ready", "error"} :
        /\ turn' = [turn EXCEPT ![t].phase = how]
        /\ managed' = [managed EXCEPT ![s].state = state]
  BY <1>1 DEF TurnEnds, Ends
<1>3. /\ managed[s].active = t /\ managed[s].state = "running" /\ turn[t].phase = "running"
      /\ UNCHANGED <<row, registry, call, spawned, started, crashes, history>>
  BY <1>0, <1>1 DEF TurnEnds, TurnGood, Running
<1>4. /\ managed \in [Sessions -> SessionOf] /\ turn \in [Turns -> TurnOf]
      /\ spawned \in Nat /\ None \notin Turns
  BY <1>0, Numbers DEF Typed
<1>5. /\ managed' \in [Sessions -> SessionOf]
      /\ \A u \in Sessions \ {s} : managed'[u] = managed[u]
      /\ managed'[s].active = t /\ managed'[s].state = state
      /\ managed'[s].scope = managed[s].scope
  BY <1>2, <1>3, <1>4 DEF SessionOf
<1>6. /\ turn' \in [Turns -> TurnOf]
      /\ \A u \in Turns : /\ turn'[u].on = turn[u].on
                          /\ turn'[u].phase = IF u = t THEN how ELSE turn[u].phase
  BY <1>2, <1>4 DEF TurnOf
<1>7. \A u \in Turns : turn[u].phase = "running" /\ turn[u].on = s <=> u = t
  BY <1>1, <1>3 DEF IInv, Turning, TurnGood, Running
<1>8. Turning'
  <2>1. SessionStops(s, how) BY <1>3, <1>4, <1>5, <1>6, <1>7 DEF SessionStops
  <2> QED BY <2>1, StopKeeps
<1>9. Owning' BY <1>3, <1>5, ScopesStay
<1>10. Typed' BY <1>0, <1>3, <1>5, <1>6 DEF Typed, history
<1> QED BY <1>8, <1>9, <1>10 DEF IInv

LEMMA TransportDiesKeeps ==
    ASSUME IInv, NEW s \in Sessions, TransportDies(s)
    PROVE  IInv'
<1>0. Typed BY DEF IInv
<1> DEFINE hit == {t \in Turns : turn[t].phase = "running" /\ turn[t].on = s}
<1>1. /\ turn' = [t \in Turns |-> IF t \in hit THEN [turn[t] EXCEPT !.phase = "failed"]
                                               ELSE turn[t]]
      /\ managed' = [managed EXCEPT ![s].dying = TRUE,
                       ![s].state = IF hit = {} THEN managed[s].state ELSE "error"]
      /\ UNCHANGED <<row, registry, call, spawned, started, crashes, history>>
      /\ managed[s].state # "none"
  BY DEF TransportDies, Running
<1>2. /\ managed \in [Sessions -> SessionOf] /\ turn \in [Turns -> TurnOf]
      /\ managed[s] \in SessionOf /\ spawned \in Nat
  BY <1>0, Numbers DEF Typed
<1>3. /\ managed' \in [Sessions -> SessionOf]
      /\ \A u \in Sessions \ {s} : managed'[u] = managed[u]
      /\ managed'[s].active = managed[s].active /\ managed'[s].scope = managed[s].scope
      /\ managed'[s].state = IF hit = {} THEN managed[s].state ELSE "error"
  BY <1>1, <1>2 DEF SessionOf
<1>4. /\ turn' \in [Turns -> TurnOf]
      /\ \A t \in Turns : /\ turn'[t].on = turn[t].on
                          /\ turn'[t].phase = IF t \in hit THEN "failed" ELSE turn[t].phase
  BY <1>1, <1>2 DEF TurnOf
<1>5. managed'[s].state # "running"
  <2>1. CASE hit = {}
    <3>1. RunsGood(s) /\ managed[s].active \in Turns \cup {None} BY <1>0, Numbers DEF IInv, Turning
    <3> QED BY <3>1, <2>1, <1>3 DEF RunsGood, Running
  <2> QED BY <2>1, <1>3
<1>6. Turning'
  <2>1. SessionStops(s, "failed") BY <1>1, <1>2, <1>3, <1>4, <1>5 DEF SessionStops
  <2> QED BY <2>1, StopKeeps
<1>7. Owning' BY <1>1, <1>3, ScopesStay
<1>8. Typed' BY <1>0, <1>1, <1>3, <1>4 DEF Typed, history
<1> QED BY <1>6, <1>7, <1>8 DEF IInv

LEMMA CrashKeeps ==
    ASSUME IInv, Crash
    PROVE  IInv'
<1>0. Typed /\ Owning BY DEF IInv
<1>1. /\ registry' = None /\ crashes' \in 0 .. MaxCrashes
      /\ managed' = [s \in Sessions |-> Unmade] /\ call' = [c \in Callers |-> Idle]
      /\ turn' = [t \in Turns |-> IF turn[t].phase = "running"
                                  THEN [turn[t] EXCEPT !.phase = "lost"] ELSE turn[t]]
      /\ UNCHANGED <<row, spawned, started, history>>
  BY <1>0, RuntimeAssumption DEF Crash, Typed, Running
<1>2. /\ turn \in [Turns -> TurnOf] /\ spawned \in Nat /\ None = 0
  BY <1>0, Numbers DEF Typed
<1>3. /\ turn' \in [Turns -> TurnOf]
      /\ \A t \in Turns : /\ turn'[t].on = turn[t].on
                          /\ turn'[t].phase = IF turn[t].phase = "running" THEN "lost"
                                              ELSE turn[t].phase
  BY <1>1, <1>2 DEF TurnOf
<1>4. \A s \in Sessions : /\ managed'[s].state = "none" /\ managed'[s].scope = "none"
                          /\ managed'[s].active = None
  BY <1>1 DEF Unmade
<1>5. Typed'
  <2>1. managed' \in [Sessions -> SessionOf] /\ call' \in [Callers -> CallOf]
    BY <1>1, RecordTypes
  <2> QED BY <2>1, <1>0, <1>1, <1>3 DEF Typed, history
<1>6. ASSUME NEW t \in Turns PROVE TurnGood(t)'
  <2>1. TurnGood(t) BY DEF IInv, Turning
  <2> QED BY <2>1, <1>1, <1>3 DEF TurnGood, Running
<1>7. \A s \in Sessions : RunsGood(s)' BY <1>4 DEF RunsGood
<1>8. ASSUME NEW s \in Sessions PROVE ScopeGood(s)'
  <2>1. ScopeGood(s) BY <1>0 DEF Owning
  <2> QED BY <2>1, <1>1, <1>4 DEF ScopeGood, history
<1>9. ASSUME NEW c \in Callers PROVE CallGood(c)'
  <2>1. call'[c].phase = "idle" /\ call'[c].on = None BY <1>1 DEF Idle
  <2> QED BY <2>1, <1>1, <1>2 DEF CallGood
<1>10. RegistryGood' BY <1>0, <1>1, <1>2 DEF Owning, RegistryGood
<1> QED BY <1>5, <1>6, <1>7, <1>8, <1>9, <1>10 DEF IInv, Turning, Owning

LEMMA ClosedKeeps ==
    ASSUME IInv, NEW c \in Callers, Closed(c)
    PROVE  IInv'
<1>0. Typed /\ Owning /\ CallGood(c) BY DEF IInv, Owning
<1>1. PICK s \in Sessions : s = call[c].on BY <1>0, Numbers DEF Closed, CallGood
<1>2. /\ call[c].phase = "closing" /\ call' = [call EXCEPT ![c] = Idle]
      /\ managed' = [managed EXCEPT ![s].state = "closed"]
      /\ row' = "closed" /\ registry' = None /\ replaced' = replaced \cup ({registry} \ {None, s})
      /\ UNCHANGED <<turn, spawned, started, crashes, revived, leaked>>
  BY <1>1 DEF Closed, Returns, Displaces
<1>3. /\ managed \in [Sessions -> SessionOf] /\ call \in [Callers -> CallOf]
      /\ registry \in Sessions \cup {None}
      /\ spawned \in Nat /\ None = 0 /\ s # None /\ s \in Nat
  BY <1>0, Numbers DEF Typed
<1>4. /\ managed' \in [Sessions -> SessionOf]
      /\ \A u \in Sessions \ {s} : managed'[u] = managed[u]
      /\ managed'[s].active = managed[s].active /\ managed'[s].scope = managed[s].scope
      /\ managed'[s].state = "closed"
  BY <1>2, <1>3 DEF SessionOf
<1>5. /\ call' \in [Callers -> CallOf] /\ \A d \in Callers \ {c} : call'[d] = call[d]
      /\ call'[c].phase = "idle" /\ call'[c].on = None
  BY <1>2, <1>3, RecordTypes DEF Idle
<1>6. Typed' BY <1>0, <1>2, <1>3, <1>4, <1>5 DEF Typed
<1>7. managed[s].scope = "closed" /\ s <= spawned BY <1>0, <1>1, <1>2 DEF CallGood
<1>8. Turning' BY <1>2, <1>3, <1>4, <1>7, IdleSessionStops
<1>9. ASSUME NEW u \in Sessions PROVE ScopeGood(u)'
  <2>1. ScopeGood(u) BY <1>0 DEF Owning
  <2> QED BY <2>1, <1>2, <1>3, <1>4, <1>7 DEF ScopeGood
<1>10. \A d \in Callers : CallGood(d)' BY <1>1, <1>2, <1>4, <1>5, CallReturns
<1>11. RegistryGood' BY <1>0, <1>2, <1>3, <1>7 DEF RegistryGood
<1> QED BY <1>6, <1>8, <1>9, <1>10, <1>11 DEF IInv, Owning

LEMMA CreateFailsKeeps ==
    ASSUME IInv, CreateFails
    PROVE  IInv'
<1>0. Typed /\ Turning /\ Owning BY DEF IInv
<1>1. PICK s \in Sessions : s = spawned + 1
  BY <1>0, RuntimeAssumption DEF CreateFails, Typed, Sessions
<1>2. /\ spawned' = s /\ row = "none" /\ leaked' = leaked \cup {s}
      /\ managed' = [managed EXCEPT ![s].scope = "open"]
      /\ UNCHANGED <<row, registry, turn, call, started, crashes, replaced, revived>>
  BY <1>1 DEF CreateFails
<1>n. /\ spawned \in Nat /\ s \in Nat /\ s > spawned /\ None = 0 /\ None \notin Sessions
      /\ managed \in [Sessions -> SessionOf]
      /\ \A u \in Sessions \cup {None} : u \in Nat
  BY <1>0, <1>1, Numbers DEF Typed
<1>3. /\ managed' \in [Sessions -> SessionOf]
      /\ \A u \in Sessions \ {s} : managed'[u] = managed[u]
      /\ managed'[s].active = managed[s].active /\ managed'[s].scope = "open"
      /\ managed'[s].state = managed[s].state
  BY <1>2, <1>n DEF SessionOf
<1>4. Typed'
  <2>1. spawned' \in 0 .. MaxSessions BY <1>2 DEF Sessions
  <2> QED BY <2>1, <1>0, <1>2, <1>3 DEF Typed
<1>5. managed[s].state = "none" /\ managed[s].scope = "none" BY <1>0, <1>n DEF Owning, ScopeGood
<1>6. Turning' BY <1>2, <1>3, <1>5, <1>n, IdleSessionStops
<1>7. registry = None BY <1>0, <1>2 DEF Owning, RegistryGood
<1>8. ASSUME NEW u \in Sessions PROVE ScopeGood(u)'
  <2>1. ScopeGood(u) BY <1>0 DEF Owning
  <2> QED BY <2>1, <1>2, <1>3, <1>5, <1>7, <1>n DEF ScopeGood
<1>9. ASSUME NEW c \in Callers PROVE CallGood(c)'
  <2>1. CallGood(c) /\ call[c].on \in Nat BY <1>0, <1>n, Numbers DEF Owning
  <2> QED BY <2>1, <1>2, <1>3, <1>n, Numbers DEF CallGood
<1>10. RegistryGood' BY <1>2, <1>7, <1>n DEF RegistryGood
<1> QED BY <1>4, <1>6, <1>8, <1>9, <1>10 DEF IInv, Owning

LEMMA ResurrectFailsKeeps ==
    ASSUME IInv, NEW c \in Callers, ResurrectFails(c)
    PROVE  IInv'
<1>0. Typed /\ Owning /\ CallGood(c) BY DEF IInv, Owning
<1>1. PICK s \in Sessions : s = call[c].on BY <1>0, Numbers DEF ResurrectFails, CallGood
<1>2. /\ call[c].phase = "spawning" /\ call' = [call EXCEPT ![c] = Idle]
      /\ managed' = [managed EXCEPT ![s].scope = "open"]
      /\ leaked' = leaked \cup {s}
      /\ UNCHANGED <<row, registry, turn, spawned, started, crashes, replaced, revived>>
  BY <1>1 DEF ResurrectFails, Returns
<1>3. /\ managed \in [Sessions -> SessionOf] /\ call \in [Callers -> CallOf]
      /\ spawned \in Nat /\ None = 0 /\ s # None /\ s \in Nat
  BY <1>0, Numbers DEF Typed
<1>4. /\ managed' \in [Sessions -> SessionOf]
      /\ \A u \in Sessions \ {s} : managed'[u] = managed[u]
      /\ managed'[s].active = managed[s].active /\ managed'[s].scope = "open"
      /\ managed'[s].state = managed[s].state
  BY <1>2, <1>3 DEF SessionOf
<1>5. /\ call' \in [Callers -> CallOf] /\ \A d \in Callers \ {c} : call'[d] = call[d]
      /\ call'[c].phase = "idle" /\ call'[c].on = None
  BY <1>2, <1>3, RecordTypes DEF Idle
<1>6. Typed' BY <1>0, <1>2, <1>4, <1>5 DEF Typed
<1>7. /\ managed[s].state = "none" /\ managed[s].scope = "none" /\ registry # s /\ s <= spawned
  BY <1>0, <1>1, <1>2 DEF CallGood
<1>8. Turning' BY <1>2, <1>3, <1>4, <1>7, IdleSessionStops
<1>9. ASSUME NEW u \in Sessions PROVE ScopeGood(u)'
  <2>1. ScopeGood(u) BY <1>0 DEF Owning
  <2> QED BY <2>1, <1>2, <1>3, <1>4, <1>7 DEF ScopeGood
<1>10. \A d \in Callers : CallGood(d)' BY <1>1, <1>2, <1>4, <1>5, <1>7, CallReturns
<1>11. RegistryGood' BY <1>0, <1>2, <1>4, <1>7 DEF Owning, RegistryGood, Typed
<1> QED BY <1>6, <1>8, <1>9, <1>10, <1>11 DEF IInv, Owning

LEMMA ResurrectedKeeps ==
    ASSUME IInv, NEW c \in Callers, Resurrected(c)
    PROVE  IInv'
<1>0. Typed /\ Turning /\ Owning /\ CallGood(c) BY DEF IInv, Owning
<1>1. PICK s \in Sessions : s = call[c].on BY <1>0, Numbers DEF Resurrected, CallGood
<1>2. /\ call[c].phase = "spawning" /\ call' = [call EXCEPT ![c] = Idle]
      /\ registry' = s /\ replaced' = replaced \cup ({registry} \ {None, s})
      /\ revived' = revived \cup (IF row = "open" THEN {} ELSE {s})
      /\ UNCHANGED <<row, spawned, crashes, leaked>>
  BY <1>1 DEF Resurrected, Returns, Displaces
<1>3. /\ managed \in [Sessions -> SessionOf] /\ call \in [Callers -> CallOf]
      /\ turn \in [Turns -> TurnOf] /\ registry \in Sessions \cup {None}
      /\ spawned \in Nat /\ None = 0 /\ None \notin Sessions /\ s \in Nat /\ None \notin Turns
  BY <1>0, Numbers DEF Typed
<1>4. /\ managed[s].state = "none" /\ managed[s].scope = "none" /\ s \notin leaked
      /\ registry # s /\ s <= spawned
  BY <1>0, <1>1, <1>2 DEF CallGood
<1>5. /\ call' \in [Callers -> CallOf] /\ \A d \in Callers \ {c} : call'[d] = call[d]
      /\ call'[c].phase = "idle" /\ call'[c].on = None
  BY <1>2, <1>3, RecordTypes DEF Idle
<1>6. PICK m \in SessionOf : /\ managed' = [managed EXCEPT ![s] = m]
                             /\ m.scope = "open" /\ m.state \in {"ready", "running"}
                             /\ \/ /\ UNCHANGED <<turn, started>>
                                   /\ m.active = None /\ m.state = "ready"
                                \/ /\ started + 1 \in Turns /\ started' = started + 1
                                   /\ turn' = [turn EXCEPT ![started + 1] =
                                                   [phase |-> "running", on |-> s]]
                                   /\ m.active = started + 1 /\ m.state = "running"
  <2>1. CASE managed' = [managed EXCEPT ![s] = Fresh] /\ UNCHANGED <<turn, started>>
    <3>1. PICK m \in SessionOf : m = Fresh BY RecordTypes
    <3> WITNESS m \in SessionOf
    <3> QED BY <2>1, <3>1 DEF Fresh
  <2>2. CASE /\ started + 1 \in Turns /\ started' = started + 1
             /\ turn' = [turn EXCEPT ![started + 1] = [phase |-> "running", on |-> s]]
             /\ managed' = [managed EXCEPT ![s] =
                              [Fresh EXCEPT !.state = "running", !.active = started + 1]]
    <3>1. PICK t \in Turns : t = started + 1 BY <2>2
    <3>2. PICK m \in SessionOf : m = [Fresh EXCEPT !.state = "running", !.active = t]
      BY DEF SessionOf, Fresh
    <3>3. m.scope = "open" /\ m.state = "running" /\ m.active = t BY <3>2 DEF Fresh
    <3> WITNESS m \in SessionOf
    <3> QED BY <2>2, <3>1, <3>2, <3>3
  <2> QED BY <1>1, <2>1, <2>2 DEF Resurrected
<1>7. /\ managed' \in [Sessions -> SessionOf]
      /\ \A u \in Sessions \ {s} : managed'[u] = managed[u]
      /\ managed'[s] = m
  BY <1>6, <1>3
<1>8. /\ Turning' /\ turn' \in [Turns -> TurnOf] /\ started' \in 0 .. MaxTurns
  <2>1. CASE UNCHANGED <<turn, started>> /\ m.active = None /\ m.state = "ready"
    <3>1. Turning' BY <2>1, <1>2, <1>3, <1>4, <1>6, <1>7, IdleSessionStops
    <3> QED BY <2>1, <3>1, <1>0 DEF Typed
  <2>2. CASE /\ started + 1 \in Turns /\ started' = started + 1
             /\ turn' = [turn EXCEPT ![started + 1] = [phase |-> "running", on |-> s]]
             /\ m.active = started + 1 /\ m.state = "running"
    <3>1. PICK t \in Turns : t = started + 1 BY <2>2
    <3>2. PICK r \in TurnOf : r = [phase |-> "running", on |-> s] BY RecordTypes
    <3>3. turn' = [turn EXCEPT ![t] = r] /\ r.phase = "running" /\ r.on = s
      BY <2>2, <3>1, <3>2
    <3>4. /\ turn' \in [Turns -> TurnOf] /\ turn'[t] = r
          /\ \A u \in Turns \ {t} : turn'[u] = turn[u]
      BY <3>3, <1>3
    <3>5. Turning' BY <2>2, <3>1, <3>3, <3>4, <1>2, <1>4, <1>6, <1>7, StartKeeps
    <3> QED BY <2>2, <3>4, <3>5, <1>0, RuntimeAssumption DEF Typed, Turns
  <2> QED BY <1>6, <2>1, <2>2
<1>9. ASSUME NEW u \in Sessions PROVE ScopeGood(u)'
  <2>1. ScopeGood(u) BY <1>0 DEF Owning
  <2> QED BY <2>1, <1>2, <1>3, <1>4, <1>6, <1>7 DEF ScopeGood
<1>10. \A d \in Callers : CallGood(d)' BY <1>1, <1>2, <1>4, <1>5, <1>7, CallReturns
<1>11. RegistryGood'
  <2>1. row # "none" BY <1>0, <1>2 DEF CallGood
  <2> QED BY <2>1, <1>0, <1>2, <1>3, <1>4, <1>6, <1>7 DEF Owning, RegistryGood
<1>12. Typed' BY <1>0, <1>2, <1>5, <1>7, <1>8 DEF Typed
<1> QED BY <1>8, <1>9, <1>10, <1>11, <1>12 DEF IInv, Owning

-----------------------------------------------------------------------------
LEMMA InitIInv == Init => IInv
<1> SUFFICES ASSUME Init PROVE IInv OBVIOUS
<1>1. Typed BY RuntimeAssumption, RecordTypes DEF Init, Typed
<1>2. /\ \A s \in Sessions : managed[s] = Unmade
      /\ \A t \in Turns : turn[t] = NoTurn
      /\ \A c \in Callers : call[c] = Idle
      /\ registry = None /\ spawned = 0 /\ started = 0 /\ leaked = {}
  BY DEF Init
<1>3. Turning BY <1>1, <1>2, Numbers DEF Turning, TurnGood, RunsGood, Running, Unmade, NoTurn
<1>4. Owning
  BY <1>1, <1>2, Numbers DEF Owning, ScopeGood, CallGood, RegistryGood, Unmade, Idle
<1> QED BY <1>1, <1>3, <1>4 DEF IInv

LEMMA StepKeeps == IInv /\ [Next]_vars => IInv'
<1> SUFFICES ASSUME IInv, [Next]_vars PROVE IInv' OBVIOUS
<1>1. CASE Create BY <1>1, CreateKeeps
<1>2. CASE CallsHot BY <1>2, CallsHotKeeps
<1>3. CASE Cancel BY <1>3, CancelKeeps
<1>4. CASE Crash BY <1>4, CrashKeeps
<1>c. CASE CreateFails BY <1>c, CreateFailsKeeps
<1>5. ASSUME NEW c \in Callers,
             \/ CallsCold(c) \/ Evicts(c) \/ Evicted(c) \/ Resurrected(c)
             \/ ResurrectFails(c) \/ Close(c) \/ Closed(c)
      PROVE  IInv'
  BY <1>5, CallsColdKeeps, EvictsKeeps, EvictedKeeps, ResurrectedKeeps, ResurrectFailsKeeps,
     CloseKeeps, ClosedKeeps
<1>6. ASSUME NEW t \in Turns, TurnEnds(t) PROVE IInv' BY <1>6, TurnEndsKeeps
<1>7. ASSUME NEW s \in Sessions, TransportDies(s) PROVE IInv' BY <1>7, TransportDiesKeeps
<1>8. CASE UNCHANGED vars
  BY <1>8 DEF vars, history, IInv, Typed, Turning, TurnGood, RunsGood, Running, Owning, ScopeGood,
     CallGood, RegistryGood
<1> QED BY <1>1, <1>2, <1>3, <1>4, <1>c, <1>5, <1>6, <1>7, <1>8 DEF Next

LEMMA Invariance == Spec => []IInv
BY InitIInv, StepKeeps, PTL DEF Spec

-----------------------------------------------------------------------------
(* The state of a session stays well-typed; a call holds a session exactly *)
(* while it waits, and every turn that was started is on a session that     *)
(* was spawned.                                                            *)
THEOREM TypeCorrect == Spec => []TypeOK
<1>1. IInv => TypeOK
  BY DEF IInv, Typed, SessionOf, TurnOf, CallOf, Turning, TurnGood, Owning, CallGood, TypeOK
<1> QED BY <1>1, Invariance, PTL

(* cancel() and close() reach every running turn, unless its session was   *)
(* replaced, and a turn runs in a closed session only if its resurrection  *)
(* raced the close (runtime.ts).                                           *)
THEOREM CancellableAlways == Spec => []Cancellable
<1>1. IInv => Cancellable
  <2> SUFFICES ASSUME IInv, NEW t \in Turns, Running(t), turn[t].on \notin replaced
               PROVE  /\ registry = turn[t].on /\ managed[turn[t].on].active = t
                      /\ row = "open" \/ turn[t].on \in revived
    BY DEF Cancellable
  <2>1. Typed /\ TurnGood(t) /\ RegistryGood BY DEF IInv, Turning, Owning
  <2>2. PICK s \in Sessions : s = turn[t].on BY <2>1, Numbers DEF TurnGood
  <2>3. /\ managed[s].state = "running" /\ managed[s].active = t /\ managed[s].scope = "open"
        /\ s # None
    BY <2>1, <2>2 DEF TurnGood
  <2>4. ScopeGood(s) BY DEF IInv, Owning
  <2>5. registry = s BY <2>2, <2>3, <2>4 DEF ScopeGood
  <2> QED BY <2>1, <2>2, <2>3, <2>5 DEF RegistryGood
<1> QED BY <1>1, Invariance, PTL

(* No session is left in "running" without a turn, whichever of the ways a *)
(* turn can end was the one (turn-runner.ts).                              *)
THEOREM NeverStuckAlways == Spec => []NeverStuck
<1>1. IInv => NeverStuck
  <2> SUFFICES ASSUME IInv, NEW s \in Sessions, managed[s].state = "running"
               PROVE  \E t \in Turns : Running(t) /\ turn[t].on = s
    BY DEF NeverStuck
  <2>1. RunsGood(s) /\ managed[s].active \in Turns \cup {None} BY Numbers DEF IInv, Turning
  <2> QED BY <2>1 DEF RunsGood
<1> QED BY <1>1, Invariance, PTL

(* Every open provider is the resident session's, or one of the two known  *)
(* leaks (session-registry.ts, runtime.ts).                                *)
THEOREM ProvidersOwnedAlways == Spec => []ProvidersOwned
<1>1. IInv => ProvidersOwned BY DEF IInv, Owning, ScopeGood, ProvidersOwned
<1> QED BY <1>1, Invariance, PTL

-----------------------------------------------------------------------------
(* The turns of Codex. *)

In(s, f) == \E i \in DOMAIN s : s[i] = f
Once(s, f) == \A i, j \in DOMAIN s : s[i] = f /\ s[j] = f => i = j

Sent(kind, c) == In(stdin, Codex!Frame(kind, c))
Said(kind, c) == In(stdout, Codex!Frame(kind, c))

(* A turn/start is written for a turn that was requested, is read once, and *)
(* answered once; only after a refusal is it written again.                *)
StartGood(c) ==
    /\ Sent("start", c) => /\ codex[c] = "none" /\ request[c] # "none"
                           /\ ~Said("refusal", c) /\ Once(stdin, Codex!Frame("start", c))
    /\ Said("refusal", c) => /\ codex[c] = "none" /\ request[c] # "none"
                             /\ Once(stdout, Codex!Frame("refusal", c))
    /\ codex[c] # "none" => request[c] # "none"

(* What Codex said of a turn is true of it. *)
SaidGood(c) ==
    /\ \A kind \in {"reply", "started", "approval"} : Said(kind, c) => codex[c] # "none"
    /\ \A kind \in {"completed", "failed", "interrupted"} : Said(kind, c) => codex[c] = "over"

(* What Wanda knows by name, interrupts or has seen the end of is there.   *)
NameGood(c) ==
    /\ Sent("interrupt", c) => codex[c] # "none"
    /\ name[c] # Codex!None => codex[name[c]] # "none"
    /\ settledBy[c] = c => codex[c] = "over"

(* A turn that was requested and is not over goes on, or its interrupt is   *)
(* on its way, or it is one of the exceptions.                             *)
Watched(c) ==
    request[c] # "none" /\ codex[c] # "over" =>
        \/ Codex!Unended(c) \/ c \in unnamed \/ settledBy[c] \notin {Codex!None, c, Codex!Transport}
        \/ Sent("interrupt", c)

Talks == \A c \in Codex!Turns : StartGood(c) /\ SaidGood(c) /\ NameGood(c) /\ Watched(c)

OutKinds == {"reply", "refusal", "started", "completed", "failed", "interrupted", "approval",
             "garbage"}

(* Frames but for garbage are about turns, answers of requests, requests of *)
(* turns that began; what resolves a turn is a turn of Codex, and one turn  *)
(* goes on at a time.                                                      *)
Kept ==
    /\ ~Sent("start", Codex!None) /\ \A kind \in OutKinds \ {"garbage"} : ~Said(kind, Codex!None)
    /\ \A t \in Codex!Turns : /\ Said("reply", t) \/ Said("refusal", t) => request[t] # "none"
                              /\ request[t] # "none" => phase[t] # "none"
                              /\ settled[t] = "resolved" => settledBy[t] \in Codex!Turns
                              /\ \A u \in Codex!Turns :
                                   Codex!Unended(t) /\ Codex!Unended(u) => t = u

CodexIInv ==
    /\ Codex!TypeOK /\ Kept
    /\ closed = "no" => Talks
    /\ closed # "no" => \A c \in Codex!Turns : codex[c] = "over"

-----------------------------------------------------------------------------
(* Sequences. *)

InFrame == [kind : {"start", "interrupt", "answer"}, turn : Codex!Turns \cup {Codex!None}]
OutFrame == [kind : OutKinds, turn : Codex!Turns \cup {Codex!None}]

LEMMA Tailed ==
    ASSUME NEW S, NEW s \in Seq(S), s # << >>
    PROVE  /\ Head(s) \in S /\ In(s, Head(s)) /\ Tail(s) \in Seq(S)
           /\ \A f : In(Tail(s), f) => In(s, f)
           /\ \A f : In(s, f) => f = Head(s) \/ In(Tail(s), f)
           /\ \A f : Once(s, f) => Once(Tail(s), f) /\ (f = Head(s) => ~In(Tail(s), f))
<1>1. Len(s) \in Nat \ {0} /\ DOMAIN s = 1 .. Len(s) /\ Head(s) = s[1] OBVIOUS
<1>2. /\ Tail(s) \in Seq(S) /\ DOMAIN Tail(s) = 1 .. Len(s) - 1
      /\ \A i \in 1 .. Len(s) - 1 : Tail(s)[i] = s[i + 1]
  OBVIOUS
<1>3. \A i \in 1 .. Len(s) - 1 : i + 1 \in 1 .. Len(s) /\ i + 1 # 1 BY <1>1
<1>4. \A i \in 1 .. Len(s) : i = 1 \/ (i - 1 \in 1 .. Len(s) - 1 /\ (i - 1) + 1 = i) BY <1>1
<1>5. \A f : In(Tail(s), f) => In(s, f) BY <1>1, <1>2, <1>3 DEF In
<1>6. ASSUME NEW f, In(s, f), f # Head(s) PROVE In(Tail(s), f)
  <2>1. PICK i \in 1 .. Len(s) : s[i] = f BY <1>1, <1>6 DEF In
  <2>2. i - 1 \in 1 .. Len(s) - 1 /\ (i - 1) + 1 = i BY <1>1, <1>4, <1>6, <2>1
  <2>3. Tail(s)[i - 1] = f BY <1>2, <2>1, <2>2
  <2> QED BY <1>2, <2>2, <2>3 DEF In
<1>7. ASSUME NEW f, Once(s, f) PROVE Once(Tail(s), f) /\ (f = Head(s) => ~In(Tail(s), f))
  <2>1. \A i, j \in 1 .. Len(s) - 1 : i + 1 = j + 1 => i = j OBVIOUS
  <2>2. Once(Tail(s), f)
    <3> SUFFICES ASSUME NEW i \in 1 .. Len(s) - 1, NEW j \in 1 .. Len(s) - 1,
                        Tail(s)[i] = f, Tail(s)[j] = f
                 PROVE  i = j
      BY <1>2 DEF Once
    <3>1. s[i + 1] = f /\ s[j + 1] = f BY <1>2
    <3>2. i + 1 = j + 1 BY <1>1, <1>3, <1>7, <3>1 DEF Once
    <3> QED BY <3>2
  <2>3. ASSUME f = Head(s), NEW i \in 1 .. Len(s) - 1, Tail(s)[i] = f PROVE FALSE
    <3>1. s[i + 1] = f /\ s[1] = f /\ i + 1 \in 1 .. Len(s) /\ 1 \in 1 .. Len(s) /\ i + 1 # 1
      BY <1>1, <1>2, <1>3, <2>3
    <3> QED BY <1>1, <1>7, <3>1 DEF Once
  <2> QED BY <1>2, <2>2, <2>3 DEF In
<1>8. Head(s) \in S /\ In(s, Head(s)) BY <1>1 DEF In
<1>9. \A f : In(s, f) => f = Head(s) \/ In(Tail(s), f) BY <1>6
<1> QED BY ONLY <1>2, <1>5, <1>7, <1>8, <1>9

LEMMA Concatenated ==
    ASSUME NEW S, NEW s \in Seq(S), NEW u \in Seq(S)
    PROVE  /\ s \o u \in Seq(S)
           /\ \A f : In(s \o u, f) <=> In(s, f) \/ In(u, f)
           /\ \A f : Once(s, f) /\ ~In(u, f) => Once(s \o u, f)
           /\ \A f : ~In(s, f) /\ Once(u, f) => Once(s \o u, f)
<1> DEFINE m == Len(s)
           n == Len(u)
<1>1. m \in Nat /\ n \in Nat /\ DOMAIN s = 1 .. m /\ DOMAIN u = 1 .. n OBVIOUS
<1>2. /\ s \o u \in Seq(S) /\ DOMAIN (s \o u) = 1 .. m + n
      /\ \A i \in 1 .. m : (s \o u)[i] = s[i]
      /\ \A i \in 1 .. m + n : i > m => (s \o u)[i] = u[i - m]
  OBVIOUS
<1> HIDE DEF m, n
<1>3. \A i \in 1 .. m + n : i \in 1 .. m \/ (i > m /\ i - m \in 1 .. n) BY <1>1
<1>4. \A i \in 1 .. n : i + m \in 1 .. m + n /\ i + m > m /\ (i + m) - m = i BY <1>1
<1>5. \A i \in 1 .. m : i \in 1 .. m + n BY <1>1
<1>6. PICK v : v = s \o u OBVIOUS
<1>7. \A f : In(v, f) <=> In(s, f) \/ In(u, f)
  <2> SUFFICES ASSUME NEW f PROVE In(v, f) <=> In(s, f) \/ In(u, f) OBVIOUS
  <2>1. In(v, f) => In(s, f) \/ In(u, f) BY <1>1, <1>2, <1>3, <1>6 DEF In
  <2>2. In(s, f) => In(v, f) BY <1>1, <1>2, <1>5, <1>6 DEF In
  <2>3. ASSUME NEW i \in 1 .. n, u[i] = f PROVE In(v, f)
    <3>1. v[i + m] = f /\ i + m \in DOMAIN v BY <1>2, <1>4, <1>6, <2>3
    <3> QED BY <3>1 DEF In
  <2> QED BY <1>1, <2>1, <2>2, <2>3 DEF In
<1>8. ASSUME NEW f, Once(s, f), ~In(u, f) PROVE Once(v, f)
  BY <1>1, <1>2, <1>3, <1>6, <1>8 DEF Once, In
<1>9. ASSUME NEW f, ~In(s, f), Once(u, f) PROVE Once(v, f)
  <2>1. \A i \in 1 .. m + n : v[i] = f => i - m \in 1 .. n /\ u[i - m] = f
    BY <1>1, <1>2, <1>3, <1>6, <1>9 DEF In
  <2>2. \A i, j \in 1 .. m + n : i - m = j - m => i = j BY <1>1
  <2> QED BY <1>1, <1>2, <1>6, <1>9, <2>1, <2>2 DEF Once
<1> QED BY <1>2, <1>6, <1>7, <1>8, <1>9

LEMMA Frames ==
    /\ \A k1, k2, t1, t2 : Codex!Frame(k1, t1) = Codex!Frame(k2, t2) <=> k1 = k2 /\ t1 = t2
    /\ \A t \in Codex!Turns \cup {Codex!None} :
         /\ \A kind \in {"start", "interrupt", "answer"} : Codex!Frame(kind, t) \in InFrame
         /\ \A kind \in OutKinds : Codex!Frame(kind, t) \in OutFrame
    /\ \A f \in InFrame \cup OutFrame : f = Codex!Frame(f.kind, f.turn)
<1>1. \A k1, k2, t1, t2 : Codex!Frame(k1, t1) = Codex!Frame(k2, t2) <=> k1 = k2 /\ t1 = t2
  <2> SUFFICES ASSUME NEW k1, NEW k2, NEW t1, NEW t2
               PROVE  Codex!Frame(k1, t1) = Codex!Frame(k2, t2) <=> k1 = k2 /\ t1 = t2
    OBVIOUS
  <2>1. /\ Codex!Frame(k1, t1).kind = k1 /\ Codex!Frame(k1, t1).turn = t1
        /\ Codex!Frame(k2, t2).kind = k2 /\ Codex!Frame(k2, t2).turn = t2
    BY DEF Codex!Frame
  <2> QED BY <2>1
<1>2. \A f \in InFrame \cup OutFrame : f = Codex!Frame(f.kind, f.turn)
  BY DEF Codex!Frame, InFrame, OutFrame, OutKinds
<1> QED BY <1>1, <1>2 DEF Codex!Frame, InFrame, OutFrame, OutKinds

LEMMA CodexNumbers ==
    /\ Codex!None = 0 /\ Codex!None \notin Codex!Turns /\ Codex!Transport \notin Codex!Turns
    /\ Codex!Transport # Codex!None
    /\ Codex!Turns \subseteq Nat /\ MaxCrashes \in Nat /\ IsFiniteSet(Codex!Turns)
<1>1. IsFiniteSet(Codex!Turns) BY RuntimeAssumption, FS_Interval DEF Codex!Turns
<1> QED BY <1>1, RuntimeAssumption DEF Codex!Turns, Codex!None, Codex!Transport

(* What is answered for turns is only answers. *)
LEMMA AnswersOnly ==
    ASSUME NEW S \in SUBSET Codex!Turns, NEW f \in Codex!Answers(S)
    PROVE  /\ f \in Seq(InFrame)
           /\ \A c : ~In(f, Codex!Frame("start", c)) /\ ~In(f, Codex!Frame("interrupt", c))
<1>1. Cardinality(S) \in Nat BY CodexNumbers, FS_Subset, FS_CardinalityType
<1>2. \A t \in S : Codex!Frame("answer", t) \in InFrame BY Frames
<1>3. f \in [1 .. Cardinality(S) -> {Codex!Frame("answer", t) : t \in S}]
  <2>1. Codex!Cardinality(S) = Cardinality(S) BY DEF Codex!Cardinality, Cardinality
  <2> QED BY <2>1 DEF Codex!Answers
<1>4. f \in [1 .. Cardinality(S) -> InFrame] BY <1>2, <1>3
<1>5. f \in Seq(InFrame) BY <1>1, <1>4
<1>6. \A i \in DOMAIN f : \E t \in S : f[i] = Codex!Frame("answer", t) BY <1>3
<1>7. \A c, t : Codex!Frame("answer", t) # Codex!Frame("start", c)
        /\ Codex!Frame("answer", t) # Codex!Frame("interrupt", c)
  BY Frames
<1> QED BY <1>5, <1>6, <1>7 DEF In

LEMMA OneFrame ==
    ASSUME NEW f \in InFrame \cup OutFrame
    PROVE  /\ \A g : (In(<<f>>, g) <=> f = g) /\ Once(<<f>>, g)
           /\ f \in InFrame => <<f>> \in Seq(InFrame)
           /\ f \in OutFrame => <<f>> \in Seq(OutFrame)
<1>1. DOMAIN <<f>> = {1} /\ <<f>>[1] = f OBVIOUS
<1>2. \A g : (In(<<f>>, g) <=> f = g) /\ Once(<<f>>, g) BY <1>1 DEF In, Once
<1>3. ASSUME NEW S, f \in S PROVE <<f>> \in Seq(S) BY <1>3
<1> QED BY <1>2, <1>3

LEMMA Parts ==
    ASSUME Codex!TypeOK
    PROVE  /\ stdin \in Seq(InFrame) /\ stdout \in Seq(OutFrame)
           /\ phase \in [Codex!Turns ->
                            {"none", "starting", "waiting", "resolved", "failed", "cancelled"}]
           /\ request \in [Codex!Turns -> {"none", "sent", "again", "review", "done"}]
           /\ name \in [Codex!Turns -> Codex!Turns \cup {Codex!None}]
           /\ settled \in [Codex!Turns -> {"no", "resolved", "rejected"}]
           /\ settledBy \in [Codex!Turns -> Codex!Turns \cup {Codex!None, Codex!Transport}]
           /\ cancelling \subseteq Codex!Turns /\ turnRef \in Codex!Turns \cup {Codex!None}
           /\ fatal \in BOOLEAN
           /\ open \subseteq Codex!Turns /\ unnamed \subseteq Codex!Turns
           /\ codex \in [Codex!Turns ->
                            {"none", "accepted", "running", "asking", "answered", "over"}]
           /\ closed \in {"no", "gone", "closed"} /\ faults \in 0 .. MaxCrashes
           /\ turnRef # Codex!None => phase[turnRef] \notin {"none", "resolved"}
           /\ \A t \in Codex!Turns : (phase[t] = "starting" => Codex!Requested(t))
                                    /\ (settled[t] = "no" <=> settledBy[t] = Codex!None)
  BY DEF Codex!TypeOK, InFrame, OutFrame, OutKinds

LEMMA PartsNext ==
    ASSUME stdin' \in Seq(InFrame), stdout' \in Seq(OutFrame),
           phase' \in [Codex!Turns ->
                            {"none", "starting", "waiting", "resolved", "failed", "cancelled"}],
           request' \in [Codex!Turns -> {"none", "sent", "again", "review", "done"}],
           name' \in [Codex!Turns -> Codex!Turns \cup {Codex!None}],
           settled' \in [Codex!Turns -> {"no", "resolved", "rejected"}],
           settledBy' \in [Codex!Turns -> Codex!Turns \cup {Codex!None, Codex!Transport}],
           cancelling' \subseteq Codex!Turns, turnRef' \in Codex!Turns \cup {Codex!None},
           fatal' \in BOOLEAN,
           open' \subseteq Codex!Turns, unnamed' \subseteq Codex!Turns,
           codex' \in [Codex!Turns ->
                            {"none", "accepted", "running", "asking", "answered", "over"}],
           closed' \in {"no", "gone", "closed"}, faults' \in 0 .. MaxCrashes,
           turnRef' # Codex!None => phase'[turnRef'] \notin {"none", "resolved"},
           \A t \in Codex!Turns : (phase'[t] = "starting" => Codex!Requested(t)')
                                 /\ (settled'[t] = "no" <=> settledBy'[t] = Codex!None)
    PROVE  Codex!TypeOK'
  BY DEF Codex!TypeOK, InFrame, OutFrame, OutKinds

-----------------------------------------------------------------------------
(* What the steps do to the pipes. *)

LEMMA Written ==
    ASSUME Codex!TypeOK, NEW frames \in Seq(InFrame), Codex!Writes(frames)
    PROVE  /\ stdin' \in Seq(InFrame) /\ (closed # "no" => stdin' = stdin)
           /\ \A f : In(stdin', f) => In(stdin, f) \/ In(frames, f)
           /\ \A f : In(stdin, f) => In(stdin', f)
           /\ closed = "no" => \A f : In(frames, f) => In(stdin', f)
           /\ \A f : Once(stdin, f) /\ ~In(frames, f) => Once(stdin', f)
           /\ closed = "no" => \A f : ~In(stdin, f) /\ Once(frames, f) => Once(stdin', f)
<1>1. stdin \in Seq(InFrame) BY Parts
<1>2. CASE closed = "no"
  <2>1. stdin' = stdin \o frames BY <1>2 DEF Codex!Writes
  <2> QED BY <1>1, <1>2, <2>1, Concatenated
<1>3. CASE closed # "no" BY <1>1, <1>3 DEF Codex!Writes
<1> QED BY <1>2, <1>3

LEMMA Received ==
    ASSUME Codex!TypeOK, NEW kind, Codex!Receives(kind)
    PROVE  /\ Head(stdout) = Codex!Frame(kind, Head(stdout).turn) /\ Said(kind, Head(stdout).turn)
           /\ Head(stdout).turn \in Codex!Turns \cup {Codex!None}
           /\ stdout' \in Seq(OutFrame) /\ codex' = codex /\ faults' = faults
           /\ \A f : In(stdout', f) => In(stdout, f)
           /\ \A f : Once(stdout, f) => Once(stdout', f) /\ (f = Head(stdout) => ~In(stdout', f))
<1>1. stdout \in Seq(OutFrame) /\ stdout # << >> /\ Head(stdout).kind = kind
      /\ stdout' = Tail(stdout) /\ codex' = codex /\ faults' = faults
  BY Parts DEF Codex!Receives
<1>2. Head(stdout) \in OutFrame /\ In(stdout, Head(stdout)) BY <1>1, Tailed
<1>3. Head(stdout) = Codex!Frame(kind, Head(stdout).turn) BY <1>1, <1>2, Frames
<1>4. Head(stdout).turn \in Codex!Turns \cup {Codex!None} BY <1>2 DEF OutFrame
<1> QED BY <1>1, <1>2, <1>3, <1>4, Tailed DEF Said

(* A step of Wanda that starts nothing in Codex. *)
Unstarted ==
    \A c \in Codex!Turns : /\ (Sent("start", c)' => Sent("start", c))
                           /\ (Once(stdin, Codex!Frame("start", c)) =>
                                  Once(stdin', Codex!Frame("start", c)))
                           /\ (Sent("interrupt", c) => Sent("interrupt", c)')
                           /\ (Sent("interrupt", c)' => Sent("interrupt", c) \/ codex[c] # "none")

Unsaid ==
    \A c \in Codex!Turns : /\ \A kind \in OutKinds : Said(kind, c)' => Said(kind, c)
                           /\ (Once(stdout, Codex!Frame("refusal", c)) =>
                                  Once(stdout', Codex!Frame("refusal", c)))

(* A turn that Codex has not ended goes on or is left for a good reason. *)
Leaves ==
    \A c \in Codex!Turns : Codex!Unended(c) /\ codex[c] # "over" =>
        \/ Codex!Unended(c)' \/ c \in unnamed'
          \/ settledBy'[c] \notin {Codex!None, c, Codex!Transport}
        \/ Sent("interrupt", c)'

LEMMA WandaKeeps ==
    ASSUME Talks, codex' = codex, Unstarted, Unsaid, Leaves, unnamed \subseteq unnamed',
           \A c \in Codex!Turns :
             /\ request'[c] # "none" => request[c] # "none"
             /\ request[c] # "none" => request'[c] # "none"
             /\ name'[c] = name[c] \/ (name'[c] \in Codex!Turns /\ codex[name'[c]] # "none")
             /\ \/ settledBy'[c] = settledBy[c]
                \/ settledBy[c] = Codex!None /\ (settledBy'[c] = c => codex[c] = "over")
    PROVE  Talks'
<1> SUFFICES ASSUME NEW c \in Codex!Turns
             PROVE  (StartGood(c) /\ SaidGood(c) /\ NameGood(c) /\ Watched(c))'
  BY DEF Talks
<1>1. StartGood(c) /\ SaidGood(c) /\ NameGood(c) /\ Watched(c) BY DEF Talks
<1>2. StartGood(c)' BY <1>1 DEF StartGood, Unstarted, Unsaid, OutKinds
<1>3. SaidGood(c)' BY <1>1 DEF SaidGood, Unsaid, OutKinds
<1>4. NameGood(c)' BY <1>1 DEF NameGood, Unstarted
<1>5. Watched(c)' BY <1>1 DEF Watched, Unstarted, Leaves
<1> QED BY <1>2, <1>3, <1>4, <1>5

LEMMA Assembled ==
    ASSUME CodexIInv, Codex!TypeOK', Kept', closed' = closed, codex' = codex \/ closed = "no",
           closed = "no" => Talks'
    PROVE  CodexIInv'
  BY DEF CodexIInv

LEMMA EndsBadlyOnly ==
    ASSUME CodexIInv, NEW t \in Codex!Turns, NEW how \in {"failed", "cancelled"},
           Codex!EndsBadly(t, how)
    PROVE  /\ phase' = [phase EXCEPT ![t] = how]
           /\ cancelling' \subseteq Codex!Turns /\ open' \subseteq Codex!Turns
           /\ unnamed' \subseteq Codex!Turns
           /\ unnamed \subseteq unnamed'
           /\ stdin' \in Seq(InFrame) /\ ~Sent("start", Codex!None)'
           /\ closed = "no" => Unstarted /\ (t \in unnamed' \/ Sent("interrupt", t)')
<1>1. /\ phase' = [phase EXCEPT ![t] = how] /\ cancelling' = cancelling \cup {t} /\ open' = {}
      /\ unnamed' = unnamed \cup (IF name[t] = t THEN {} ELSE {t})
  BY DEF Codex!EndsBadly
<1>2. PICK answers \in Codex!Answers(open) :
        Codex!Writes(<<Codex!Frame("interrupt", name[t])>> \o answers)
  BY DEF Codex!EndsBadly
<1>3. /\ answers \in Seq(InFrame)
      /\ \A c : ~In(answers, Codex!Frame("start", c)) /\ ~In(answers, Codex!Frame("interrupt", c))
  BY AnswersOnly, Parts DEF CodexIInv
<1>4. name[t] \in Codex!Turns \cup {Codex!None} BY Parts DEF CodexIInv
<1>5. Codex!Frame("interrupt", name[t]) \in InFrame BY <1>4, Frames
<1>6. PICK first \in Seq(InFrame) :
        /\ first = <<Codex!Frame("interrupt", name[t])>>
        /\ \A g : In(first, g) <=> Codex!Frame("interrupt", name[t]) = g
  BY <1>5, OneFrame
<1>7. Codex!Writes(first \o answers) BY <1>2, <1>6
<1>8. /\ first \o answers \in Seq(InFrame)
      /\ \A f : In(first \o answers, f) <=> In(first, f) \/ In(answers, f)
  <2>1. first \in Seq(InFrame) /\ answers \in Seq(InFrame) BY <1>3
  <2>2. first \o answers \in Seq(InFrame) BY <2>1
  <2>3. \A f : In(first \o answers, f) <=> In(first, f) \/ In(answers, f)
    BY ONLY <2>1, Concatenated, Zenon
  <2> QED BY <2>2, <2>3
<1>9. PICK frames \in Seq(InFrame) :
        Codex!Writes(frames) /\ \A f : In(frames, f) <=> In(first, f) \/ In(answers, f)
  BY <1>7, <1>8
<1>10. \A c : ~In(frames, Codex!Frame("start", c)) BY <1>3, <1>6, <1>9, Frames
<1>11. \A c : In(frames, Codex!Frame("interrupt", c)) <=> c = name[t]
  BY <1>3, <1>6, <1>9, Frames
<1>12. stdin' \in Seq(InFrame) /\ ~Sent("start", Codex!None)'
  BY <1>9, <1>10, Written DEF CodexIInv, Kept, Sent
<1>13. ASSUME closed = "no" PROVE Unstarted /\ (t \in unnamed' \/ Sent("interrupt", t)')
  <2>1. name[t] # Codex!None => codex[name[t]] # "none" BY <1>13 DEF CodexIInv, Talks, NameGood
  <2>2. Unstarted
    BY <1>9, <1>10, <1>11, <1>13, <2>1, Written, CodexNumbers DEF CodexIInv, Unstarted, Sent
  <2>3. name[t] = t => Sent("interrupt", t)' BY <1>9, <1>11, <1>13, Written DEF CodexIInv, Sent
  <2> QED BY <1>1, <2>2, <2>3
<1> QED BY <1>1, <1>12, <1>13, Parts DEF CodexIInv

-----------------------------------------------------------------------------
(* Wanda's steps. *)

LEMMA BeginsKeeps ==
    ASSUME CodexIInv, NEW t \in Codex!Turns, NEW kind \in {"sent", "review"}, Codex!Begins(t, kind)
    PROVE  CodexIInv'
<1>1. /\ phase[t] = "none" /\ \A u \in Codex!Turns : ~Codex!Unended(u)
      /\ name' = name /\ settled' = settled /\ settledBy' = settledBy /\ cancelling' = cancelling
      /\ fatal' = fatal /\ open' = open /\ unnamed' = unnamed /\ stdout' = stdout
      /\ codex' = codex /\ closed' = closed /\ faults' = faults
  BY DEF Codex!Begins
<1>2. request[t] = "none" /\ turnRef # t BY <1>1, Parts, CodexNumbers DEF CodexIInv, Kept
<1>3. CASE fatal
  <2>1. /\ phase' = [phase EXCEPT ![t] = "failed"]
        /\ request' = request /\ turnRef' = turnRef /\ stdin' = stdin
    BY <1>3 DEF Codex!Begins
  <2>2. Codex!TypeOK'
    <3>1. \A u \in Codex!Turns : phase'[u] = phase[u] \/ (u = t /\ phase'[u] = "failed")
      BY <2>1, Parts DEF CodexIInv
    <3> QED BY <1>1, <2>1, <3>1, Parts, PartsNext DEF CodexIInv, Codex!Requested
  <2>3. Kept' BY <1>1, <2>1, Parts DEF CodexIInv, Kept, Sent, Said, Codex!Unended
  <2>4. closed = "no" => Talks'
    BY <1>1, <2>1, WandaKeeps DEF CodexIInv, Unstarted, Unsaid, Leaves, Sent, Said
  <2> QED BY <1>1, <2>2, <2>3, <2>4, Assembled
<1>4. CASE ~fatal
  <2>1. /\ phase' = [phase EXCEPT ![t] = "starting"] /\ request' = [request EXCEPT ![t] = kind]
        /\ turnRef' = t /\ Codex!Writes(<<Codex!Frame("start", t)>>)
    BY <1>4 DEF Codex!Begins
  <2>2. /\ phase'[t] = "starting" /\ request'[t] = kind
        /\ \A u \in Codex!Turns : u # t => phase'[u] = phase[u] /\ request'[u] = request[u]
    BY <2>1, Parts DEF CodexIInv
  <2>3. /\ <<Codex!Frame("start", t)>> \in Seq(InFrame)
        /\ \A g : (In(<<Codex!Frame("start", t)>>, g) <=> Codex!Frame("start", t) = g)
                  /\ Once(<<Codex!Frame("start", t)>>, g)
    BY Frames, OneFrame
  <2>4. /\ stdin' \in Seq(InFrame) /\ ~Sent("start", Codex!None)'
        /\ \A c : (Sent("interrupt", c)' => Sent("interrupt", c))
                  /\ (Sent("interrupt", c) => Sent("interrupt", c)')
        /\ \A c : Sent("start", c)' => Sent("start", c) \/ c = t
    <3>1. PICK begin \in Seq(InFrame) :
            Codex!Writes(begin) /\ \A g : In(begin, g) <=> Codex!Frame("start", t) = g
      BY <2>1, <2>3
    <3>2. \A c : /\ ~In(begin, Codex!Frame("interrupt", c))
                 /\ In(begin, Codex!Frame("start", c)) => c = t
      BY <3>1, Frames
    <3>3. /\ stdin' \in Seq(InFrame)
          /\ \A f : In(stdin', f) => In(stdin, f) \/ In(begin, f)
          /\ \A f : In(stdin, f) => In(stdin', f)
      BY <3>1, Written DEF CodexIInv
    <3>4. Codex!None # t /\ ~Sent("start", Codex!None) BY CodexNumbers DEF CodexIInv, Kept
    <3> QED BY <3>2, <3>3, <3>4 DEF Sent
  <2>5. Codex!TypeOK'
    BY <1>1, <2>1, <2>2, <2>4, Parts, PartsNext DEF CodexIInv, Codex!Requested
  <2>6. Kept' BY <1>1, <2>2, <2>4 DEF CodexIInv, Kept, Said, Codex!Unended
  <2>7. ASSUME closed = "no" PROVE Talks'
    <3> SUFFICES ASSUME NEW c \in Codex!Turns
                 PROVE  (StartGood(c) /\ SaidGood(c) /\ NameGood(c) /\ Watched(c))'
      BY DEF Talks
    <3>1. StartGood(c) /\ SaidGood(c) /\ NameGood(c) /\ Watched(c) BY <2>7 DEF CodexIInv, Talks
    <3>2. codex[t] = "none" /\ ~Sent("start", t) /\ ~Said("refusal", t)
      BY <1>2, <2>7 DEF CodexIInv, Talks, StartGood
    <3>3. Sent("start", c)' => Once(stdin', Codex!Frame("start", c))
      <4>1. CASE c = t BY <2>1, <2>3, <2>7, <3>2, <4>1, Written DEF CodexIInv, Sent
      <4>2. CASE c # t
        <5>1. ~In(<<Codex!Frame("start", t)>>, Codex!Frame("start", c)) BY <2>3, <4>2, Frames
        <5>2. Once(stdin, Codex!Frame("start", c)) => Once(stdin', Codex!Frame("start", c))
          BY <2>1, <2>3, <5>1, Written DEF CodexIInv
        <5> QED BY <2>4, <3>1, <4>2, <5>2 DEF StartGood
      <4> QED BY <4>1, <4>2
    <3>4. StartGood(c)' BY <1>1, <2>2, <2>4, <3>1, <3>2, <3>3 DEF StartGood, Said
    <3>5. SaidGood(c)' BY <1>1, <3>1 DEF SaidGood, Said
    <3>6. NameGood(c)' BY <1>1, <2>4, <3>1 DEF NameGood
    <3>7. Watched(c)' BY <1>1, <2>2, <2>4, <3>1 DEF Watched, Codex!Unended
    <3> QED BY <3>4, <3>5, <3>6, <3>7
  <2> QED BY <1>1, <2>5, <2>6, <2>7, Assembled
<1> QED BY <1>3, <1>4

LEMMA CodexCancelKeeps ==
    ASSUME CodexIInv, NEW t \in Codex!Turns, Codex!Cancel(t)
    PROVE  CodexIInv'
<1>1. /\ Codex!Unended(t) /\ Codex!EndsBadly(t, "cancelled")
      /\ request' = request /\ name' = name /\ settled' = settled /\ settledBy' = settledBy
      /\ turnRef' = turnRef /\ fatal' = fatal /\ stdout' = stdout /\ codex' = codex
      /\ closed' = closed /\ faults' = faults
  BY DEF Codex!Cancel
<1>2. /\ phase' = [phase EXCEPT ![t] = "cancelled"]
      /\ cancelling' \subseteq Codex!Turns /\ open' \subseteq Codex!Turns
      /\ unnamed' \subseteq Codex!Turns
      /\ unnamed \subseteq unnamed' /\ stdin' \in Seq(InFrame) /\ ~Sent("start", Codex!None)'
      /\ closed = "no" => Unstarted /\ (t \in unnamed' \/ Sent("interrupt", t)')
  BY <1>1, EndsBadlyOnly
<1>3. phase'[t] = "cancelled" /\ \A u \in Codex!Turns : u # t => phase'[u] = phase[u]
  BY <1>2, Parts DEF CodexIInv
<1>4. Codex!TypeOK' BY <1>1, <1>2, <1>3, Parts, PartsNext DEF CodexIInv, Codex!Requested
<1>5. Kept' BY <1>1, <1>2, <1>3 DEF CodexIInv, Kept, Said, Codex!Unended
<1>6. closed = "no" => Talks'
  BY <1>1, <1>2, <1>3, WandaKeeps DEF CodexIInv, Unsaid, Leaves, Said, Codex!Unended
<1> QED BY <1>1, <1>4, <1>5, <1>6, Assembled

LEMMA RequestTimesOutKeeps ==
    ASSUME CodexIInv, NEW t \in Codex!Turns, Codex!RequestTimesOut(t)
    PROVE  CodexIInv'
<1>1. /\ Codex!Requested(t) /\ request' = [request EXCEPT ![t] = "done"]
      /\ faults < MaxCrashes /\ faults' = faults + 1
      /\ name' = name /\ settled' = settled /\ settledBy' = settledBy
      /\ turnRef' = turnRef /\ fatal' = fatal /\ stdout' = stdout /\ codex' = codex
      /\ closed' = closed
  BY DEF Codex!RequestTimesOut, Codex!Faults
<1>2. faults' \in 0 .. MaxCrashes BY <1>1, Parts, CodexNumbers DEF CodexIInv
<1>3. /\ request' \in [Codex!Turns -> {"none", "sent", "again", "review", "done"}]
      /\ \A u \in Codex!Turns : /\ request'[u] = "none" <=> request[u] = "none"
                                /\ Codex!Requested(u)' <=> Codex!Requested(u) /\ u # t
  BY <1>1, Parts DEF CodexIInv, Codex!Requested
<1>4. CASE phase[t] = "starting"
  <2>1. Codex!EndsBadly(t, "failed") BY <1>4 DEF Codex!RequestTimesOut
  <2>2. /\ phase' = [phase EXCEPT ![t] = "failed"]
        /\ cancelling' \subseteq Codex!Turns /\ open' \subseteq Codex!Turns
        /\ unnamed' \subseteq Codex!Turns
        /\ unnamed \subseteq unnamed' /\ stdin' \in Seq(InFrame) /\ ~Sent("start", Codex!None)'
        /\ closed = "no" => Unstarted /\ (t \in unnamed' \/ Sent("interrupt", t)')
    BY <2>1, EndsBadlyOnly
  <2>3. phase'[t] = "failed" /\ \A u \in Codex!Turns : u # t => phase'[u] = phase[u]
    BY <2>2, Parts DEF CodexIInv
  <2>4. Codex!TypeOK' BY <1>1, <1>2, <1>3, <1>4, <2>2, <2>3, Parts, PartsNext DEF CodexIInv
  <2>5. Kept' BY <1>1, <1>3, <2>2, <2>3 DEF CodexIInv, Kept, Said, Codex!Unended
  <2>6. closed = "no" => Talks'
    BY <1>1, <1>3, <2>2, <2>3, WandaKeeps DEF CodexIInv, Unsaid, Leaves, Said, Codex!Unended
  <2> QED BY <1>1, <2>4, <2>5, <2>6, Assembled
<1>5. CASE phase[t] # "starting"
  <2>1. /\ phase' = phase /\ cancelling' = cancelling /\ open' = open /\ unnamed' = unnamed
        /\ stdin' = stdin
    BY <1>5 DEF Codex!RequestTimesOut
  <2>2. Codex!TypeOK' BY <1>1, <1>2, <1>3, <1>5, <2>1, Parts, PartsNext DEF CodexIInv
  <2>3. Kept' BY <1>1, <1>3, <2>1 DEF CodexIInv, Kept, Said, Sent, Codex!Unended
  <2>4. closed = "no" => Talks'
    BY <1>1, <1>3, <2>1, WandaKeeps
    DEF CodexIInv, Unstarted, Unsaid, Leaves, Sent, Said, Codex!Unended
  <2> QED BY <1>1, <2>2, <2>3, <2>4, Assembled
<1> QED BY <1>4, <1>5

LEMMA FinishesKeeps ==
    ASSUME CodexIInv, NEW t \in Codex!Turns, Codex!Finishes(t)
    PROVE  CodexIInv'
<1>1. /\ phase[t] = "waiting" /\ settled[t] # "no"
      /\ request' = request /\ name' = name /\ settled' = settled /\ settledBy' = settledBy
      /\ fatal' = fatal /\ stdout' = stdout /\ codex' = codex
      /\ closed' = closed /\ faults' = faults
  BY DEF Codex!Finishes
<1>2. CASE settled[t] = "resolved"
  <2>1. /\ phase' = [phase EXCEPT ![t] = "resolved"] /\ turnRef' = Codex!None
        /\ cancelling' = cancelling /\ open' = open /\ unnamed' = unnamed /\ stdin' = stdin
    BY <1>2 DEF Codex!Finishes, Codex!ResetsTurn
  <2>2. phase'[t] = "resolved" /\ \A u \in Codex!Turns : u # t => phase'[u] = phase[u]
    BY <2>1, Parts DEF CodexIInv
  <2>3. Codex!TypeOK' BY <1>1, <2>1, <2>2, Parts, PartsNext DEF CodexIInv, Codex!Requested
  <2>4. Kept' BY <1>1, <2>1, <2>2 DEF CodexIInv, Kept, Said, Sent, Codex!Unended
  <2>5. settledBy[t] \in Codex!Turns BY <1>2 DEF CodexIInv, Kept
  <2>6. ASSUME closed = "no" PROVE Talks'
    <3>1. settledBy[t] = t => codex[t] = "over" BY <2>6 DEF CodexIInv, Talks, NameGood
    <3>2. Leaves BY <1>1, <2>2, <2>5, <3>1, CodexNumbers DEF Leaves, Codex!Unended
    <3> QED BY <1>1, <2>1, <2>6, <3>2, WandaKeeps DEF CodexIInv, Unstarted, Unsaid, Sent, Said
  <2> QED BY <1>1, <2>3, <2>4, <2>6, Assembled
<1>3. CASE settled[t] # "resolved"
  <2>1. Codex!EndsBadly(t, "failed") /\ turnRef' = turnRef BY <1>3 DEF Codex!Finishes
  <2>2. /\ phase' = [phase EXCEPT ![t] = "failed"]
        /\ cancelling' \subseteq Codex!Turns /\ open' \subseteq Codex!Turns
        /\ unnamed' \subseteq Codex!Turns
        /\ unnamed \subseteq unnamed' /\ stdin' \in Seq(InFrame) /\ ~Sent("start", Codex!None)'
        /\ closed = "no" => Unstarted /\ (t \in unnamed' \/ Sent("interrupt", t)')
    BY <2>1, EndsBadlyOnly
  <2>3. phase'[t] = "failed" /\ \A u \in Codex!Turns : u # t => phase'[u] = phase[u]
    BY <2>2, Parts DEF CodexIInv
  <2>4. Codex!TypeOK' BY <1>1, <2>1, <2>2, <2>3, Parts, PartsNext DEF CodexIInv, Codex!Requested
  <2>5. Kept' BY <1>1, <2>2, <2>3 DEF CodexIInv, Kept, Said, Codex!Unended
  <2>6. closed = "no" => Talks'
    BY <1>1, <2>2, <2>3, WandaKeeps DEF CodexIInv, Unsaid, Leaves, Said, Codex!Unended
  <2> QED BY <1>1, <2>4, <2>5, <2>6, Assembled
<1> QED BY <1>2, <1>3

(* An answer is written. *)
LEMMA AnswerWritten ==
    ASSUME CodexIInv, NEW c \in Codex!Turns, Codex!Writes(<<Codex!Frame("answer", c)>>)
    PROVE  stdin' \in Seq(InFrame) /\ ~Sent("start", Codex!None)' /\ Unstarted
<1>1. Codex!Frame("answer", c) \in InFrame BY Frames
<1>2. PICK frames \in Seq(InFrame) :
        Codex!Writes(frames) /\ \A g : In(frames, g) <=> Codex!Frame("answer", c) = g
  BY <1>1, OneFrame
<1>3. \A u : ~In(frames, Codex!Frame("start", u)) /\ ~In(frames, Codex!Frame("interrupt", u))
  BY <1>2, Frames
<1>4. /\ stdin' \in Seq(InFrame)
      /\ \A f : In(stdin', f) => In(stdin, f) \/ In(frames, f)
      /\ \A f : In(stdin, f) => In(stdin', f)
      /\ \A f : Once(stdin, f) /\ ~In(frames, f) => Once(stdin', f)
  BY <1>2, Written DEF CodexIInv
<1>5. ~Sent("start", Codex!None) BY DEF CodexIInv, Kept
<1> QED BY <1>3, <1>4, <1>5 DEF Sent, Unstarted

LEMMA UserAnswersKeeps ==
    ASSUME CodexIInv, NEW c \in Codex!Turns, Codex!UserAnswers(c)
    PROVE  CodexIInv'
<1>1. /\ open' = open \ {c} /\ Codex!Writes(<<Codex!Frame("answer", c)>>)
      /\ phase' = phase /\ request' = request /\ name' = name /\ settled' = settled
      /\ settledBy' = settledBy /\ cancelling' = cancelling /\ turnRef' = turnRef
      /\ fatal' = fatal /\ unnamed' = unnamed /\ stdout' = stdout /\ codex' = codex
      /\ closed' = closed /\ faults' = faults
  BY DEF Codex!UserAnswers
<1>2. stdin' \in Seq(InFrame) /\ ~Sent("start", Codex!None)' /\ Unstarted BY <1>1, AnswerWritten
<1>3. Codex!TypeOK' BY <1>1, <1>2, Parts, PartsNext DEF CodexIInv, Codex!Requested
<1>4. Kept' BY <1>1, <1>2 DEF CodexIInv, Kept, Said, Codex!Unended
<1>5. closed = "no" => Talks'
  BY <1>1, <1>2, WandaKeeps DEF CodexIInv, Unsaid, Leaves, Said, Codex!Unended
<1> QED BY <1>1, <1>3, <1>4, <1>5, Assembled

-----------------------------------------------------------------------------
(* What Wanda receives. *)

(* The turn a frame is about, and what is left in the pipe. *)
LEMMA ReceivedUnsaid ==
    ASSUME CodexIInv, NEW kind \in OutKinds, Codex!Receives(kind)
    PROVE  /\ kind # "garbage" => Head(stdout).turn \in Codex!Turns
           /\ Said(kind, Head(stdout).turn)
           /\ stdout' \in Seq(OutFrame) /\ codex' = codex /\ faults' = faults
           /\ \A k, c : Said(k, c)' => Said(k, c)
           /\ Unsaid
           /\ Head(stdout) = Codex!Frame(kind, Head(stdout).turn)
           /\ Once(stdout, Head(stdout)) => ~In(stdout', Head(stdout))
<1>1. /\ Head(stdout) = Codex!Frame(kind, Head(stdout).turn) /\ Said(kind, Head(stdout).turn)
      /\ Head(stdout).turn \in Codex!Turns \cup {Codex!None}
      /\ stdout' \in Seq(OutFrame) /\ codex' = codex /\ faults' = faults
      /\ \A f : In(stdout', f) => In(stdout, f)
      /\ \A f : Once(stdout, f) => Once(stdout', f) /\ (f = Head(stdout) => ~In(stdout', f))
  BY Received DEF CodexIInv
<1>2. kind # "garbage" => Head(stdout).turn # Codex!None BY <1>1 DEF CodexIInv, Kept
<1>3. \A k, c : Said(k, c)' => Said(k, c) BY <1>1 DEF Said
<1>4. Unsaid BY <1>1, <1>3 DEF Unsaid
<1>5. Once(stdout, Head(stdout)) => ~In(stdout', Head(stdout)) BY <1>1
<1> QED BY <1>1, <1>2, <1>3, <1>4, <1>5

LEMMA ReplyKeeps ==
    ASSUME CodexIInv, Codex!Reply
    PROVE  CodexIInv'
<1>1. PICK t : t = Head(stdout).turn OBVIOUS
<1>2. Codex!Receives("reply") BY DEF Codex!Reply
<1>3. /\ t \in Codex!Turns /\ Said("reply", t)
      /\ stdout' \in Seq(OutFrame) /\ codex' = codex /\ faults' = faults
      /\ \A k, c : Said(k, c)' => Said(k, c)
      /\ Unsaid
  BY <1>1, <1>2, ReceivedUnsaid DEF OutKinds
<1>4. /\ request' = [request EXCEPT ![t] = "done"]
      /\ IF Codex!Requested(t) /\ phase[t] = "starting"
         THEN /\ phase' = [phase EXCEPT ![t] = "waiting"]
              /\ name' = IF request[t] = "review" THEN name ELSE [name EXCEPT ![t] = t]
         ELSE phase' = phase /\ name' = name
      /\ settled' = settled /\ settledBy' = settledBy /\ cancelling' = cancelling
      /\ turnRef' = turnRef /\ fatal' = fatal /\ open' = open /\ unnamed' = unnamed
      /\ stdin' = stdin /\ closed' = closed
  BY <1>1 DEF Codex!Reply
<1>5. request[t] # "none" BY <1>3 DEF CodexIInv, Kept
<1>6. /\ request' \in [Codex!Turns -> {"none", "sent", "again", "review", "done"}]
      /\ \A u \in Codex!Turns : /\ request'[u] = "none" <=> request[u] = "none"
                                /\ Codex!Requested(u)' <=> Codex!Requested(u) /\ u # t
  BY <1>3, <1>4, <1>5, Parts DEF CodexIInv, Codex!Requested
<1>7. /\ phase' \in [Codex!Turns ->
                  {"none", "starting", "waiting", "resolved", "failed", "cancelled"}]
      /\ \A u \in Codex!Turns : /\ phase'[u] = phase[u]
                                   \/ (u = t /\ phase[u] = "starting" /\ phase'[u] = "waiting")
                                /\ u = t => phase'[u] # "starting"
  <2>1. phase[t] = "starting" => Codex!Requested(t) BY <1>3, Parts DEF CodexIInv
  <2>2. phase \in [Codex!Turns ->
                    {"none", "starting", "waiting", "resolved", "failed", "cancelled"}]
    BY Parts DEF CodexIInv
  <2>3. CASE phase[t] = "starting"
    <3>1. phase' = [phase EXCEPT ![t] = "waiting"] BY <1>4, <2>1, <2>3
    <3> QED BY <1>3, <2>2, <2>3, <3>1
  <2>4. CASE phase[t] # "starting"
    <3>1. phase' = phase BY <1>4, <2>4
    <3> QED BY <2>2, <2>4, <3>1
  <2> QED BY <2>3, <2>4
<1>8. /\ name' \in [Codex!Turns -> Codex!Turns \cup {Codex!None}]
      /\ \A u \in Codex!Turns : name'[u] = name[u] \/ (u = t /\ name'[u] = t)
  BY <1>3, <1>4, Parts DEF CodexIInv
<1>9. Codex!TypeOK'
  <2>1. turnRef' # Codex!None => phase'[turnRef'] \notin {"none", "resolved"}
    BY <1>4, <1>7, Parts DEF CodexIInv
  <2>2. \A u \in Codex!Turns : /\ phase'[u] = "starting" => Codex!Requested(u)'
                               /\ settled'[u] = "no" <=> settledBy'[u] = Codex!None
    BY <1>4, <1>6, <1>7, Parts DEF CodexIInv
  <2>3. /\ stdin' \in Seq(InFrame) /\ settled' \in [Codex!Turns -> {"no", "resolved", "rejected"}]
        /\ settledBy' \in [Codex!Turns -> Codex!Turns \cup {Codex!None, Codex!Transport}]
        /\ cancelling' \subseteq Codex!Turns /\ turnRef' \in Codex!Turns \cup {Codex!None}
        /\ fatal' \in BOOLEAN
        /\ open' \subseteq Codex!Turns /\ unnamed' \subseteq Codex!Turns
        /\ codex' \in [Codex!Turns -> {"none", "accepted", "running", "asking", "answered", "over"}]
        /\ closed' \in {"no", "gone", "closed"} /\ faults' \in 0 .. MaxCrashes
    BY <1>3, <1>4, Parts DEF CodexIInv
  <2> QED BY <1>3, <1>6, <1>7, <1>8, <2>1, <2>2, <2>3, PartsNext
<1>10. Kept' BY <1>3, <1>4, <1>6, <1>7 DEF CodexIInv, Kept, Sent, Codex!Unended
<1>11. ASSUME closed = "no" PROVE Talks'
  <2>1. codex[t] # "none" BY <1>3, <1>11 DEF CodexIInv, Talks, SaidGood
  <2> QED
    BY <1>3, <1>4, <1>6, <1>7, <1>8, <1>11, <2>1, WandaKeeps
    DEF CodexIInv, Unstarted, Leaves, Sent, Codex!Unended
<1> QED BY <1>3, <1>4, <1>9, <1>10, <1>11, Assembled

LEMMA RefusalKeeps ==
    ASSUME CodexIInv, Codex!Refusal
    PROVE  CodexIInv'
<1>1. PICK t : t = Head(stdout).turn OBVIOUS
<1>2. Codex!Receives("refusal") BY DEF Codex!Refusal
<1>3. /\ t \in Codex!Turns /\ Said("refusal", t)
      /\ stdout' \in Seq(OutFrame) /\ codex' = codex /\ faults' = faults
      /\ \A k, c : Said(k, c)' => Said(k, c)
      /\ Unsaid
      /\ Once(stdout, Codex!Frame("refusal", t)) => ~Said("refusal", t)'
  <2>1. /\ t \in Codex!Turns /\ Said("refusal", t)
        /\ stdout' \in Seq(OutFrame) /\ codex' = codex /\ faults' = faults
        /\ \A k, c : Said(k, c)' => Said(k, c)
        /\ Unsaid
        /\ Head(stdout) = Codex!Frame("refusal", t)
        /\ Once(stdout, Head(stdout)) => ~In(stdout', Head(stdout))
    BY <1>1, <1>2, ReceivedUnsaid DEF OutKinds
  <2>2. Once(stdout, Codex!Frame("refusal", t)) => ~In(stdout', Codex!Frame("refusal", t)) BY <2>1
  <2> QED BY <2>1, <2>2 DEF Said
<1>4. /\ name' = name /\ settled' = settled /\ settledBy' = settledBy /\ turnRef' = turnRef
      /\ fatal' = fatal /\ closed' = closed
  BY DEF Codex!Refusal
<1>5. request[t] # "none" BY <1>3 DEF CodexIInv, Kept
<1>6. CASE /\ request[t] = "sent" /\ request' = [request EXCEPT ![t] = "again"]
           /\ Codex!Writes(<<Codex!Frame("start", t)>>)
           /\ phase' = phase /\ cancelling' = cancelling /\ open' = open /\ unnamed' = unnamed
  <2>1. /\ request' \in [Codex!Turns -> {"none", "sent", "again", "review", "done"}]
        /\ \A u \in Codex!Turns : /\ request'[u] = "none" <=> request[u] = "none"
                                  /\ Codex!Requested(u)' <=> Codex!Requested(u)
    BY <1>3, <1>6, Parts DEF CodexIInv, Codex!Requested
  <2>2. PICK frames \in Seq(InFrame) :
          /\ Codex!Writes(frames)
          /\ \A g : (In(frames, g) <=> Codex!Frame("start", t) = g) /\ Once(frames, g)
    <3>1. Codex!Frame("start", t) \in InFrame BY <1>3, Frames
    <3> QED BY <1>6, <3>1, OneFrame
  <2>3. \A c : /\ ~In(frames, Codex!Frame("interrupt", c))
               /\ In(frames, Codex!Frame("start", c)) => c = t
    BY <2>2, Frames
  <2>4. /\ stdin' \in Seq(InFrame)
        /\ \A f : In(stdin', f) => In(stdin, f) \/ In(frames, f)
        /\ \A f : In(stdin, f) => In(stdin', f)
        /\ \A f : Once(stdin, f) /\ ~In(frames, f) => Once(stdin', f)
        /\ closed = "no" => \A f : ~In(stdin, f) /\ Once(frames, f) => Once(stdin', f)
    BY <2>2, Written DEF CodexIInv
  <2>5. /\ \A c : (Sent("interrupt", c)' <=> Sent("interrupt", c))
        /\ \A c : Sent("start", c)' => Sent("start", c) \/ c = t
    BY <2>3, <2>4 DEF Sent
  <2>6. ~Sent("start", Codex!None)' BY <1>3, <2>5, CodexNumbers DEF CodexIInv, Kept
  <2>7. Codex!TypeOK' BY <1>3, <1>4, <1>6, <2>1, <2>4, Parts, PartsNext DEF CodexIInv
  <2>8. Kept' BY <1>3, <1>4, <1>6, <2>1, <2>6 DEF CodexIInv, Kept, Codex!Unended
  <2>9. ASSUME closed = "no" PROVE Talks'
    <3> SUFFICES ASSUME NEW c \in Codex!Turns
                 PROVE  (StartGood(c) /\ SaidGood(c) /\ NameGood(c) /\ Watched(c))'
      BY DEF Talks
    <3>1. StartGood(c) /\ SaidGood(c) /\ NameGood(c) /\ Watched(c) BY <2>9 DEF CodexIInv, Talks
    <3>2. /\ codex[t] = "none" /\ ~Sent("start", t) /\ Once(stdout, Codex!Frame("refusal", t))
      BY <1>3, <2>9 DEF CodexIInv, Talks, StartGood
    <3>3. Sent("start", c)' => Once(stdin', Codex!Frame("start", c))
      <4>1. CASE c = t BY <2>2, <2>4, <2>9, <3>2, <4>1 DEF Sent
      <4>2. CASE c # t BY <2>3, <2>4, <2>5, <3>1, <4>2 DEF StartGood
      <4> QED BY <4>1, <4>2
    <3>4. ~Said("refusal", t)' BY <1>3, <3>2
    <3>5. Said("refusal", c)' => Said("refusal", c) /\ Once(stdout', Codex!Frame("refusal", c))
      BY <1>3, <3>1 DEF StartGood, Unsaid
    <3>6. StartGood(c)' BY <1>3, <2>1, <2>5, <3>1, <3>2, <3>3, <3>4, <3>5 DEF StartGood
    <3>7. SaidGood(c)' BY <1>3, <3>1 DEF SaidGood
    <3>8. NameGood(c)' BY <1>3, <1>4, <2>5, <3>1 DEF NameGood
    <3>9. Watched(c)' BY <1>3, <1>4, <1>6, <2>1, <2>5, <3>1 DEF Watched, Codex!Unended
    <3> QED BY <3>6, <3>7, <3>8, <3>9
  <2> QED BY <1>3, <1>4, <2>7, <2>8, <2>9, Assembled
<1>7. CASE request' = [request EXCEPT ![t] = "done"]
  <2>1. /\ request' \in [Codex!Turns -> {"none", "sent", "again", "review", "done"}]
        /\ \A u \in Codex!Turns : /\ request'[u] = "none" <=> request[u] = "none"
                                  /\ Codex!Requested(u)' <=> Codex!Requested(u) /\ u # t
    BY <1>3, <1>5, <1>7, Parts DEF CodexIInv, Codex!Requested
  <2>2. CASE Codex!Requested(t) /\ phase[t] = "starting" /\ Codex!EndsBadly(t, "failed")
    <3>1. /\ phase' = [phase EXCEPT ![t] = "failed"]
          /\ cancelling' \subseteq Codex!Turns /\ open' \subseteq Codex!Turns
          /\ unnamed' \subseteq Codex!Turns
          /\ unnamed \subseteq unnamed' /\ stdin' \in Seq(InFrame) /\ ~Sent("start", Codex!None)'
          /\ closed = "no" => Unstarted /\ (t \in unnamed' \/ Sent("interrupt", t)')
      BY <1>3, <2>2, EndsBadlyOnly
    <3>2. phase'[t] = "failed" /\ \A u \in Codex!Turns : u # t => phase'[u] = phase[u]
      BY <1>3, <3>1, Parts DEF CodexIInv
    <3>3. Codex!TypeOK' BY <1>3, <1>4, <2>1, <3>1, <3>2, Parts, PartsNext DEF CodexIInv
    <3>4. Kept' BY <1>3, <1>4, <2>1, <3>1, <3>2 DEF CodexIInv, Kept, Codex!Unended
    <3>5. closed = "no" => Talks'
      BY <1>3, <1>4, <2>1, <3>1, <3>2, WandaKeeps DEF CodexIInv, Leaves, Codex!Unended
    <3> QED BY <1>3, <1>4, <3>3, <3>4, <3>5, Assembled
  <2>3. CASE /\ phase[t] # "starting"
             /\ phase' = phase /\ cancelling' = cancelling /\ open' = open
             /\ unnamed' = unnamed /\ stdin' = stdin
    <3>1. Codex!TypeOK' BY <1>3, <1>4, <2>1, <2>3, Parts, PartsNext DEF CodexIInv
    <3>2. Kept' BY <1>3, <1>4, <2>1, <2>3 DEF CodexIInv, Kept, Sent, Codex!Unended
    <3>3. closed = "no" => Talks'
      BY <1>3, <1>4, <2>1, <2>3, WandaKeeps DEF CodexIInv, Unstarted, Leaves, Sent, Codex!Unended
    <3> QED BY <1>3, <1>4, <3>1, <3>2, <3>3, Assembled
  <2>4. phase[t] = "starting" => Codex!Requested(t) BY <1>3, Parts DEF CodexIInv
  <2>5. request[t] = "sent" => request'[t] = "done" BY <1>3, <1>7, Parts DEF CodexIInv
  <2>6. \/ request' = [request EXCEPT ![t] = "again"]
        \/ IF Codex!Requested(t) /\ phase[t] = "starting"
           THEN Codex!EndsBadly(t, "failed")
           ELSE /\ phase' = phase /\ cancelling' = cancelling /\ open' = open
                /\ unnamed' = unnamed /\ stdin' = stdin
    BY <1>1 DEF Codex!Refusal
  <2>7. request' # [request EXCEPT ![t] = "again"] BY <1>3, <1>7, Parts DEF CodexIInv
  <2> QED BY <2>2, <2>3, <2>4, <2>6, <2>7
<1>8. \/ /\ request[t] = "sent" /\ request' = [request EXCEPT ![t] = "again"]
         /\ Codex!Writes(<<Codex!Frame("start", t)>>)
         /\ phase' = phase /\ cancelling' = cancelling /\ open' = open /\ unnamed' = unnamed
      \/ request' = [request EXCEPT ![t] = "done"]
  BY <1>1 DEF Codex!Refusal
<1> QED BY <1>6, <1>7, <1>8

LEMMA TurnStartedKeeps ==
    ASSUME CodexIInv, Codex!TurnStarted
    PROVE  CodexIInv'
<1>1. PICK c : c = Head(stdout).turn OBVIOUS
<1>2. Codex!Receives("started") BY DEF Codex!TurnStarted
<1>3. /\ c \in Codex!Turns /\ Said("started", c)
      /\ stdout' \in Seq(OutFrame) /\ codex' = codex /\ faults' = faults
      /\ \A k, d : Said(k, d)' => Said(k, d)
      /\ Unsaid
  BY <1>1, <1>2, ReceivedUnsaid DEF OutKinds
<1>4. /\ name' = IF Codex!Matches(c) THEN [name EXCEPT ![turnRef] = c] ELSE name
      /\ phase' = phase /\ request' = request /\ settled' = settled /\ settledBy' = settledBy
      /\ cancelling' = cancelling /\ turnRef' = turnRef /\ fatal' = fatal /\ open' = open
      /\ unnamed' = unnamed /\ stdin' = stdin /\ closed' = closed
  BY <1>1 DEF Codex!TurnStarted
<1>5. /\ name' \in [Codex!Turns -> Codex!Turns \cup {Codex!None}]
      /\ \A u \in Codex!Turns : name'[u] \in {name[u], c}
  BY <1>3, <1>4, Parts DEF CodexIInv
<1>6. Codex!TypeOK' BY <1>3, <1>4, <1>5, Parts, PartsNext DEF CodexIInv, Codex!Requested
<1>7. Kept' BY <1>3, <1>4 DEF CodexIInv, Kept, Sent, Codex!Unended
<1>8. ASSUME closed = "no" PROVE Talks'
  <2>1. codex[c] # "none" BY <1>3, <1>8 DEF CodexIInv, Talks, SaidGood
  <2> QED
    BY <1>3, <1>4, <1>5, <1>8, <2>1, WandaKeeps
    DEF CodexIInv, Unstarted, Leaves, Sent, Codex!Unended
<1> QED BY <1>3, <1>4, <1>6, <1>7, <1>8, Assembled

(* The active turn is settled, or nothing is. *)
LEMMA Settled ==
    ASSUME CodexIInv, NEW how \in {"resolved", "rejected"},
           NEW by \in Codex!Turns \cup {Codex!Transport},
           turnRef # Codex!None, Codex!Settles(turnRef, how, by),
           how = "resolved" => by \in Codex!Turns
    PROVE  /\ settled' \in [Codex!Turns -> {"no", "resolved", "rejected"}]
           /\ settledBy' \in [Codex!Turns -> Codex!Turns \cup {Codex!None, Codex!Transport}]
           /\ \A t \in Codex!Turns : /\ settled'[t] = "no" <=> settledBy'[t] = Codex!None
                                     /\ settled'[t] = "resolved" => settledBy'[t] \in Codex!Turns
                                     /\ settledBy'[t] = settledBy[t]
                                        \/ (settledBy[t] = Codex!None /\ settledBy'[t] = by)
<1>1. /\ turnRef \in Codex!Turns
      /\ settled \in [Codex!Turns -> {"no", "resolved", "rejected"}]
      /\ settledBy \in [Codex!Turns -> Codex!Turns \cup {Codex!None, Codex!Transport}]
      /\ \A t \in Codex!Turns : /\ settled[t] = "no" <=> settledBy[t] = Codex!None
                                /\ settled[t] = "resolved" => settledBy[t] \in Codex!Turns
  BY Parts DEF CodexIInv, Kept
<1>2. by # Codex!None BY CodexNumbers
<1>3. CASE settled[turnRef] = "no"
  <2>1. /\ settled' = [settled EXCEPT ![turnRef] = how]
        /\ settledBy' = [settledBy EXCEPT ![turnRef] = by]
    BY <1>3 DEF Codex!Settles
  <2> QED BY <1>1, <1>2, <1>3, <2>1
<1>4. CASE settled[turnRef] # "no"
  <2>1. settled' = settled /\ settledBy' = settledBy BY <1>4 DEF Codex!Settles
  <2> QED BY <1>1, <2>1
<1> QED BY <1>3, <1>4

LEMMA TurnCompletedKeeps ==
    ASSUME CodexIInv, Codex!TurnCompleted
    PROVE  CodexIInv'
<1>1. PICK c : c = Head(stdout).turn OBVIOUS
<1>2. PICK kind \in {"completed", "failed", "interrupted"} :
        /\ Codex!Receives(kind)
        /\ \/ settled' = settled /\ settledBy' = settledBy
           \/ /\ Codex!Matches(c)
              /\ \E how \in {"resolved", "rejected"} : Codex!Settles(turnRef, how, c)
  BY <1>1 DEF Codex!TurnCompleted
<1>3. /\ c \in Codex!Turns /\ Said(kind, c)
      /\ stdout' \in Seq(OutFrame) /\ codex' = codex /\ faults' = faults
      /\ \A k, d : Said(k, d)' => Said(k, d)
      /\ Unsaid
  BY <1>1, <1>2, ReceivedUnsaid DEF OutKinds
<1>4. /\ name' = IF Codex!Matches(c) THEN [name EXCEPT ![turnRef] = c] ELSE name
      /\ phase' = phase /\ request' = request
      /\ cancelling' = cancelling /\ turnRef' = turnRef /\ fatal' = fatal /\ open' = open
      /\ unnamed' = unnamed /\ stdin' = stdin /\ closed' = closed
  BY <1>1 DEF Codex!TurnCompleted
<1>5. /\ name' \in [Codex!Turns -> Codex!Turns \cup {Codex!None}]
      /\ \A u \in Codex!Turns : name'[u] \in {name[u], c}
  BY <1>3, <1>4, Parts DEF CodexIInv
<1>6. /\ settled' \in [Codex!Turns -> {"no", "resolved", "rejected"}]
      /\ settledBy' \in [Codex!Turns -> Codex!Turns \cup {Codex!None, Codex!Transport}]
      /\ \A t \in Codex!Turns : /\ settled'[t] = "no" <=> settledBy'[t] = Codex!None
                                /\ settled'[t] = "resolved" => settledBy'[t] \in Codex!Turns
                                /\ settledBy'[t] = settledBy[t]
                                   \/ (settledBy[t] = Codex!None /\ settledBy'[t] = c)
  <2>1. CASE settled' = settled /\ settledBy' = settledBy BY <2>1, Parts DEF CodexIInv, Kept
  <2>2. CASE Codex!Matches(c) /\ \E how \in {"resolved", "rejected"} :
          Codex!Settles(turnRef, how, c)
    BY <1>3, <2>2, Settled DEF Codex!Matches
  <2> QED BY <1>2, <2>1, <2>2
<1>7. Codex!TypeOK' BY <1>3, <1>4, <1>5, <1>6, Parts, PartsNext DEF CodexIInv, Codex!Requested
<1>8. Kept' BY <1>3, <1>4, <1>6 DEF CodexIInv, Kept, Sent, Codex!Unended
<1>9. ASSUME closed = "no" PROVE Talks'
  <2>1. codex[c] = "over" BY <1>3, <1>9 DEF CodexIInv, Talks, SaidGood
  <2> QED
    BY <1>3, <1>4, <1>5, <1>6, <1>9, <2>1, WandaKeeps
    DEF CodexIInv, Unstarted, Leaves, Sent, Codex!Unended
<1> QED BY <1>3, <1>4, <1>7, <1>8, <1>9, Assembled

LEMMA ApprovalKeeps ==
    ASSUME CodexIInv, Codex!Approval
    PROVE  CodexIInv'
<1>1. PICK c : c = Head(stdout).turn OBVIOUS
<1>2. Codex!Receives("approval") BY DEF Codex!Approval
<1>3. /\ c \in Codex!Turns
      /\ stdout' \in Seq(OutFrame) /\ codex' = codex /\ faults' = faults
      /\ \A k, d : Said(k, d)' => Said(k, d)
      /\ Unsaid
  BY <1>1, <1>2, ReceivedUnsaid DEF OutKinds
<1>4. /\ \/ Codex!Writes(<<Codex!Frame("answer", c)>>) /\ open' = open
         \/ open' = open \cup {c} /\ stdin' = stdin
      /\ phase' = phase /\ request' = request /\ name' = name /\ settled' = settled
      /\ settledBy' = settledBy /\ cancelling' = cancelling /\ turnRef' = turnRef
      /\ fatal' = fatal /\ unnamed' = unnamed /\ closed' = closed
  BY <1>1 DEF Codex!Approval
<1>5. stdin' \in Seq(InFrame) /\ ~Sent("start", Codex!None)' /\ Unstarted
  <2>1. CASE Codex!Writes(<<Codex!Frame("answer", c)>>) BY <1>3, <2>1, AnswerWritten
  <2>2. CASE stdin' = stdin BY <2>2, Parts DEF CodexIInv, Kept, Unstarted, Sent
  <2> QED BY <1>4, <2>1, <2>2
<1>6. Codex!TypeOK' BY <1>3, <1>4, <1>5, Parts, PartsNext DEF CodexIInv, Codex!Requested
<1>7. Kept' BY <1>3, <1>4, <1>5 DEF CodexIInv, Kept, Codex!Unended
<1>8. closed = "no" => Talks'
  BY <1>3, <1>4, <1>5, WandaKeeps DEF CodexIInv, Leaves, Codex!Unended
<1> QED BY <1>3, <1>4, <1>6, <1>7, <1>8, Assembled

LEMMA TransportFailed ==
    ASSUME CodexIInv, Codex!TransportFails
    PROVE  /\ fatal' = TRUE
           /\ settled' \in [Codex!Turns -> {"no", "resolved", "rejected"}]
           /\ settledBy' \in [Codex!Turns -> Codex!Turns \cup {Codex!None, Codex!Transport}]
           /\ \A t \in Codex!Turns : /\ settled'[t] = "no" <=> settledBy'[t] = Codex!None
                                     /\ settled'[t] = "resolved" => settledBy'[t] \in Codex!Turns
                                     /\ settledBy'[t] = settledBy[t]
                                        \/ (/\ settledBy[t] = Codex!None
                                            /\ settledBy'[t] = Codex!Transport)
<1>1. fatal' = TRUE BY DEF Codex!TransportFails
<1>2. CASE ~fatal /\ turnRef # Codex!None
  <2>1. Codex!Settles(turnRef, "rejected", Codex!Transport) BY <1>2 DEF Codex!TransportFails
  <2> QED BY <1>1, <1>2, <2>1, Settled
<1>3. CASE ~(~fatal /\ turnRef # Codex!None)
  <2>1. settled' = settled /\ settledBy' = settledBy BY <1>3 DEF Codex!TransportFails
  <2> QED BY <1>1, <2>1, Parts DEF CodexIInv, Kept
<1> QED BY <1>2, <1>3

LEMMA ParseFailsKeeps ==
    ASSUME CodexIInv, Codex!ParseFails
    PROVE  CodexIInv'
<1>1. Codex!Receives("garbage") /\ Codex!TransportFails BY DEF Codex!ParseFails
<1>2. /\ stdout' \in Seq(OutFrame) /\ codex' = codex /\ faults' = faults
      /\ \A k, d : Said(k, d)' => Said(k, d)
      /\ Unsaid
  BY <1>1, ReceivedUnsaid DEF OutKinds
<1>3. /\ phase' = phase /\ request' = request /\ name' = name /\ cancelling' = cancelling
      /\ turnRef' = turnRef /\ open' = open /\ unnamed' = unnamed /\ stdin' = stdin
      /\ closed' = closed
  BY DEF Codex!ParseFails
<1>4. /\ fatal' = TRUE
      /\ settled' \in [Codex!Turns -> {"no", "resolved", "rejected"}]
      /\ settledBy' \in [Codex!Turns -> Codex!Turns \cup {Codex!None, Codex!Transport}]
      /\ \A t \in Codex!Turns : /\ settled'[t] = "no" <=> settledBy'[t] = Codex!None
                                /\ settled'[t] = "resolved" => settledBy'[t] \in Codex!Turns
                                /\ settledBy'[t] = settledBy[t]
                                   \/ (settledBy[t] = Codex!None /\ settledBy'[t] = Codex!Transport)
  BY <1>1, TransportFailed
<1>5. Codex!TypeOK' BY <1>2, <1>3, <1>4, Parts, PartsNext DEF CodexIInv, Codex!Requested
<1>6. Kept' BY <1>2, <1>3, <1>4 DEF CodexIInv, Kept, Sent, Codex!Unended
<1>7. closed = "no" => Talks'
  BY <1>2, <1>3, <1>4, CodexNumbers, WandaKeeps
  DEF CodexIInv, Unstarted, Leaves, Sent, Codex!Unended
<1> QED BY <1>2, <1>3, <1>5, <1>6, <1>7, Assembled

LEMMA ClosesKeeps ==
    ASSUME CodexIInv, Codex!Closes
    PROVE  CodexIInv'
<1>1. PICK t : t = CHOOSE u \in Codex!Turns : phase[u] = "starting" OBVIOUS
<1>2. /\ closed = "gone" /\ closed' = "closed"
      /\ request' = [u \in Codex!Turns |-> IF request[u] = "none" THEN "none" ELSE "done"]
      /\ Codex!TransportFails
      /\ name' = name /\ turnRef' = turnRef /\ stdout' = stdout /\ codex' = codex
      /\ faults' = faults
  BY DEF Codex!Closes
<1>3. IF \E u \in Codex!Turns : phase[u] = "starting"
      THEN Codex!EndsBadly(t, "failed")
      ELSE /\ phase' = phase /\ cancelling' = cancelling /\ open' = open
           /\ unnamed' = unnamed /\ stdin' = stdin
  BY <1>1 DEF Codex!Closes
<1>4. /\ fatal' = TRUE
      /\ settled' \in [Codex!Turns -> {"no", "resolved", "rejected"}]
      /\ settledBy' \in [Codex!Turns -> Codex!Turns \cup {Codex!None, Codex!Transport}]
      /\ \A u \in Codex!Turns : /\ settled'[u] = "no" <=> settledBy'[u] = Codex!None
                                /\ settled'[u] = "resolved" => settledBy'[u] \in Codex!Turns
  BY <1>2, TransportFailed
<1>5. /\ request' \in [Codex!Turns -> {"none", "sent", "again", "review", "done"}]
      /\ \A u \in Codex!Turns : request'[u] = "none" <=> request[u] = "none"
  BY <1>2
<1>6. /\ phase' \in [Codex!Turns ->
                  {"none", "starting", "waiting", "resolved", "failed", "cancelled"}]
      /\ \A u \in Codex!Turns : /\ phase'[u] # "starting"
                                /\ \/ phase'[u] = phase[u]
                                   \/ (phase[u] = "starting" /\ phase'[u] = "failed")
      /\ cancelling' \subseteq Codex!Turns /\ open' \subseteq Codex!Turns
      /\ unnamed' \subseteq Codex!Turns
      /\ stdin' \in Seq(InFrame) /\ ~Sent("start", Codex!None)'
  <2>1. CASE \E u \in Codex!Turns : phase[u] = "starting"
    <3>1. t \in Codex!Turns /\ phase[t] = "starting" BY <1>1, <2>1
    <3>2. Codex!EndsBadly(t, "failed") BY <1>3, <2>1
    <3>3. /\ phase' = [phase EXCEPT ![t] = "failed"]
          /\ cancelling' \subseteq Codex!Turns /\ open' \subseteq Codex!Turns
          /\ unnamed' \subseteq Codex!Turns
          /\ stdin' \in Seq(InFrame) /\ ~Sent("start", Codex!None)'
      BY <3>1, <3>2, EndsBadlyOnly
    <3>4. \A u \in Codex!Turns : phase[u] = "starting" => u = t
      BY <3>1 DEF CodexIInv, Kept, Codex!Unended
    <3> QED BY <3>1, <3>3, <3>4, Parts DEF CodexIInv
  <2>2. CASE ~ \E u \in Codex!Turns : phase[u] = "starting"
    <3>1. /\ phase' = phase /\ cancelling' = cancelling /\ open' = open
          /\ unnamed' = unnamed /\ stdin' = stdin
      BY <1>3, <2>2
    <3> QED BY <2>2, <3>1, Parts DEF CodexIInv, Kept, Sent
  <2> QED BY <2>1, <2>2
<1>7. Codex!TypeOK' BY <1>2, <1>4, <1>5, <1>6, Parts, PartsNext DEF CodexIInv
<1>8. Kept' BY <1>2, <1>4, <1>5, <1>6 DEF CodexIInv, Kept, Said, Codex!Unended
<1> QED BY <1>2, <1>7, <1>8 DEF CodexIInv

-----------------------------------------------------------------------------
(* The steps of Codex. *)

LEMMA CodexPipes ==
    ASSUME CodexIInv, Codex!wanda' = Codex!wanda
    PROVE  /\ phase' = phase /\ request' = request /\ name' = name /\ settled' = settled
           /\ settledBy' = settledBy /\ cancelling' = cancelling /\ turnRef' = turnRef
           /\ fatal' = fatal /\ open' = open /\ unnamed' = unnamed
  BY DEF Codex!wanda

(* What Codex says comes after what it said. *)
LEMMA Spoken ==
    ASSUME CodexIInv, NEW frames \in Seq(OutFrame), Codex!Says(frames)
    PROVE  /\ stdout' \in Seq(OutFrame)
           /\ \A f : In(stdout', f) => In(stdout, f) \/ In(frames, f)
           /\ \A f : Once(stdout, f) /\ ~In(frames, f) => Once(stdout', f)
           /\ \A f : ~In(stdout, f) /\ Once(frames, f) => Once(stdout', f)
<1>1. stdout \in Seq(OutFrame) /\ stdout' = stdout \o frames BY Parts DEF CodexIInv, Codex!Says
<1> QED BY <1>1, Concatenated

(* Codex ends what it began and says what is true; what it was asked to     *)
(* start it begins or refuses once, and what it was asked to interrupt is   *)
(* over then.                                                              *)
LEMMA CodexKeeps ==
    ASSUME CodexIInv, closed = "no", Codex!wanda' = Codex!wanda,
           \A c \in Codex!Turns :
             /\ codex[c] # "none" => codex'[c] # "none"
             /\ codex[c] = "over" => codex'[c] = "over"
             /\ codex[c] = "none" /\ codex'[c] # "none" =>
                  Sent("start", c) /\ ~Sent("start", c)' /\ ~Said("refusal", c)'
             /\ Sent("start", c)' => Sent("start", c) /\ ~Said("refusal", c)'
             /\ Once(stdin, Codex!Frame("start", c)) => Once(stdin', Codex!Frame("start", c))
             /\ Sent("interrupt", c)' => Sent("interrupt", c)
             /\ Sent("interrupt", c) => Sent("interrupt", c)' \/ codex'[c] = "over"
             /\ Said("refusal", c)' =>
                  \/ /\ Said("refusal", c)
                     /\ Once(stdout, Codex!Frame("refusal", c)) =>
                            Once(stdout', Codex!Frame("refusal", c))
                  \/ /\ Sent("start", c) /\ codex'[c] = codex[c]
                     /\ Once(stdout', Codex!Frame("refusal", c))
             /\ \A kind \in {"reply", "started", "approval"} :
                  Said(kind, c)' => Said(kind, c) \/ codex'[c] # "none"
             /\ \A kind \in {"completed", "failed", "interrupted"} :
                  Said(kind, c)' => Said(kind, c) \/ codex'[c] = "over"
    PROVE  Talks'
<1> SUFFICES ASSUME NEW c \in Codex!Turns
             PROVE  (StartGood(c) /\ SaidGood(c) /\ NameGood(c) /\ Watched(c))'
  BY DEF Talks
<1>1. StartGood(c) /\ SaidGood(c) /\ NameGood(c) /\ Watched(c) BY DEF CodexIInv, Talks
<1>2. StartGood(c)'
  <2>1. Sent("start", c)' => codex'[c] = "none" BY <1>1 DEF StartGood
  <2>2. Said("refusal", c)' => codex'[c] = "none" /\ request[c] # "none"
                               /\ Once(stdout', Codex!Frame("refusal", c))
    BY <1>1 DEF StartGood
  <2>3. codex'[c] # "none" => request[c] # "none" BY <1>1 DEF StartGood
  <2> QED BY <1>1, <2>1, <2>2, <2>3, CodexPipes DEF StartGood
<1>3. SaidGood(c)' BY <1>1 DEF SaidGood
<1>4. NameGood(c)'
  <2>1. name'[c] = name[c] /\ settledBy'[c] = settledBy[c]
          /\ name[c] \in Codex!Turns \cup {Codex!None}
    BY CodexPipes, Parts DEF CodexIInv
  <2>2. Sent("interrupt", c)' => codex'[c] # "none" BY <1>1 DEF NameGood
  <2>3. name[c] # Codex!None => codex'[name[c]] # "none" BY <1>1, <2>1 DEF NameGood
  <2> QED BY <1>1, <2>1, <2>2, <2>3 DEF NameGood
<1>5. Watched(c)' BY <1>1, CodexPipes DEF Watched, Codex!Unended
<1> QED BY <1>2, <1>3, <1>4, <1>5

(* Only what is about turns is said, and a request is answered. *)
LEMMA CodexTypes ==
    ASSUME CodexIInv, Codex!wanda' = Codex!wanda, stdin' \in Seq(InFrame),
           stdout' \in Seq(OutFrame),
           codex' \in [Codex!Turns ->
                            {"none", "accepted", "running", "asking", "answered", "over"}],
           closed' \in {"no", "gone", "closed"}, faults' \in 0 .. MaxCrashes,
           Sent("start", Codex!None)' => Sent("start", Codex!None),
           \A kind \in OutKinds, c \in Codex!Turns \cup {Codex!None} :
             Said(kind, c)' => \/ Said(kind, c) \/ kind = "garbage"
                              \/ /\ c # Codex!None
                                 /\ kind \in {"reply", "refusal"} => request[c] # "none"
    PROVE  Codex!TypeOK' /\ Kept'
<1>1. Codex!TypeOK' BY CodexPipes, Parts, PartsNext DEF CodexIInv, Codex!Requested
<1>2. ~Sent("start", Codex!None)' BY DEF CodexIInv, Kept
<1>3. \A kind \in OutKinds \ {"garbage"} : ~Said(kind, Codex!None)' BY DEF CodexIInv, Kept
<1>4. \A t \in Codex!Turns : Said("reply", t)' \/ Said("refusal", t)' => request[t] # "none"
  BY DEF CodexIInv, Kept, OutKinds
<1>5. Kept' BY <1>2, <1>3, <1>4, CodexPipes DEF CodexIInv, Kept, Codex!Unended
<1> QED BY <1>1, <1>5

(* Codex reads a frame. *)
LEMMA Read ==
    ASSUME CodexIInv, NEW kind \in {"start", "interrupt", "answer"}, Codex!CodexReads(kind)
    PROVE  /\ closed = "no" /\ closed' = closed /\ Codex!wanda' = Codex!wanda
           /\ Head(stdin) = Codex!Frame(kind, Head(stdin).turn) /\ Sent(kind, Head(stdin).turn)
           /\ Head(stdin).turn \in Codex!Turns \cup {Codex!None}
           /\ stdin' \in Seq(InFrame)
           /\ \A f : In(stdin', f) => In(stdin, f)
           /\ \A f : In(stdin, f) => f = Head(stdin) \/ In(stdin', f)
           /\ \A f : Once(stdin, f) => Once(stdin', f) /\ (f = Head(stdin) => ~In(stdin', f))
<1>1. /\ stdin \in Seq(InFrame) /\ stdin # << >> /\ Head(stdin).kind = kind
      /\ stdin' = Tail(stdin) /\ closed = "no" /\ closed' = closed /\ Codex!wanda' = Codex!wanda
  BY Parts DEF CodexIInv, Codex!CodexReads
<1>2. Head(stdin) \in InFrame /\ In(stdin, Head(stdin)) BY <1>1, Tailed
<1>3. Head(stdin) = Codex!Frame(kind, Head(stdin).turn) BY <1>1, <1>2, Frames
<1>4. Head(stdin).turn \in Codex!Turns \cup {Codex!None} BY <1>2 DEF InFrame
<1> QED BY <1>1, <1>2, <1>3, <1>4, Tailed DEF Sent

(* A turn is accepted, perhaps at once running, or refused. *)
LEMMA CodexStartsKeeps ==
    ASSUME CodexIInv, Codex!CodexStarts
    PROVE  CodexIInv'
<1>1. PICK c : c = Head(stdin).turn OBVIOUS
<1>2. Codex!CodexReads("start") BY DEF Codex!CodexStarts
<1>3. /\ closed = "no" /\ closed' = closed /\ Codex!wanda' = Codex!wanda
      /\ Sent("start", c) /\ c \in Codex!Turns \cup {Codex!None}
      /\ Head(stdin) = Codex!Frame("start", c) /\ stdin' \in Seq(InFrame)
      /\ \A f : In(stdin', f) => In(stdin, f)
      /\ \A f : In(stdin, f) => f = Head(stdin) \/ In(stdin', f)
      /\ \A f : Once(stdin, f) => Once(stdin', f) /\ (f = Head(stdin) => ~In(stdin', f))
  BY <1>1, <1>2, Read
<1>4. c \in Codex!Turns BY <1>3 DEF CodexIInv, Kept
<1>5. /\ codex[c] = "none" /\ request[c] # "none" /\ ~Said("refusal", c)
      /\ Once(stdin, Codex!Frame("start", c))
  BY <1>3, <1>4 DEF CodexIInv, Talks, StartGood
<1>6. /\ ~Sent("start", c)'
      /\ \A u : Sent("start", u)' => Sent("start", u)
      /\ \A u : Sent("interrupt", u)' <=> Sent("interrupt", u)
      /\ \A u : Once(stdin, Codex!Frame("start", u)) => Once(stdin', Codex!Frame("start", u))
  BY <1>3, <1>5, Frames DEF Sent
<1>7. PICK frames \in Seq(OutFrame) :
        /\ Codex!Says(frames)
        /\ \/ /\ codex' \in {[codex EXCEPT ![c] = "accepted"], [codex EXCEPT ![c] = "running"]}
              /\ \A f : In(frames, f) => f \in {Codex!Frame("started", c), Codex!Frame("reply", c)}
              /\ faults' = faults
           \/ /\ codex' = codex /\ frames = <<Codex!Frame("refusal", c)>> /\ Codex!Faults
  <2>1. /\ Codex!Frame("started", c) \in OutFrame /\ Codex!Frame("reply", c) \in OutFrame
        /\ Codex!Frame("refusal", c) \in OutFrame
    BY <1>3, Frames DEF OutKinds
  <2>2. CASE /\ codex' = [codex EXCEPT ![c] = "accepted"] /\ Codex!Says(<<Codex!Frame("reply", c)>>)
             /\ faults' = faults
    BY <2>1, <2>2, OneFrame
  <2>3. CASE /\ codex' = [codex EXCEPT ![c] = "running"] /\ faults' = faults
             /\ Codex!Says(<<Codex!Frame("started", c), Codex!Frame("reply", c)>>)
    <3>1. <<Codex!Frame("started", c), Codex!Frame("reply", c)>> \in Seq(OutFrame) BY <2>1
    <3>2. \A f : In(<<Codex!Frame("started", c), Codex!Frame("reply", c)>>, f)
                => f \in {Codex!Frame("started", c), Codex!Frame("reply", c)}
      BY DEF In
    <3> QED BY <2>3, <3>1, <3>2
  <2>4. CASE Codex!Says(<<Codex!Frame("refusal", c)>>) /\ Codex!Faults /\ codex' = codex
    BY <2>1, <2>4, OneFrame
  <2> QED BY <1>1, <2>2, <2>3, <2>4 DEF Codex!CodexStarts
<1>8. /\ stdout' \in Seq(OutFrame)
      /\ \A f : In(stdout', f) => In(stdout, f) \/ In(frames, f)
      /\ \A f : Once(stdout, f) /\ ~In(frames, f) => Once(stdout', f)
      /\ \A f : ~In(stdout, f) /\ Once(frames, f) => Once(stdout', f)
  BY <1>7, Spoken
<1>9. CASE /\ codex' \in {[codex EXCEPT ![c] = "accepted"], [codex EXCEPT ![c] = "running"]}
           /\ \A f : In(frames, f) => f \in {Codex!Frame("started", c), Codex!Frame("reply", c)}
           /\ faults' = faults
  <2>1. /\ codex' \in [Codex!Turns -> {"none", "accepted", "running", "asking", "answered", "over"}]
        /\ codex'[c] \in {"accepted", "running"}
        /\ \A u \in Codex!Turns : u # c => codex'[u] = codex[u]
    BY <1>4, <1>9, Parts DEF CodexIInv
  <2>2. /\ \A u, kind : Said(kind, u)' => Said(kind, u) \/ (u = c /\ kind \in {"started", "reply"})
        /\ \A u : Once(stdout, Codex!Frame("refusal", u)) =>
               Once(stdout', Codex!Frame("refusal", u))
    BY <1>8, <1>9, Frames DEF Said
  <2>3. Codex!TypeOK' /\ Kept'
    <3>1. closed' \in {"no", "gone", "closed"} /\ faults' \in 0 .. MaxCrashes
      BY <1>3, <1>9, Parts DEF CodexIInv
    <3> QED BY <1>3, <1>4, <1>5, <1>6, <1>8, <2>1, <2>2, <3>1, CodexNumbers, CodexTypes
  <2>4. \A u \in Codex!Turns : Sent("start", u) => ~Said("refusal", u)
    BY <1>3 DEF CodexIInv, Talks, StartGood
  <2>5. \A u \in Codex!Turns : Said("refusal", u)' => Said("refusal", u) BY <2>2
  <2>6. Talks' BY <1>3, <1>4, <1>5, <1>6, <2>1, <2>2, <2>4, <2>5, CodexKeeps
  <2> QED BY <1>3, <2>3, <2>6, Assembled
<1>10. CASE codex' = codex /\ frames = <<Codex!Frame("refusal", c)>> /\ Codex!Faults
  <2>1. Codex!Frame("refusal", c) \in OutFrame BY <1>3, Frames DEF OutKinds
  <2>2. \A g : (In(frames, g) <=> Codex!Frame("refusal", c) = g) /\ Once(frames, g)
    BY <1>10, <2>1, OneFrame
  <2>3. /\ \A u, kind : Said(kind, u)' => Said(kind, u) \/ (u = c /\ kind = "refusal")
        /\ Once(stdout', Codex!Frame("refusal", c))
        /\ \A u : u # c /\ Once(stdout, Codex!Frame("refusal", u)) =>
               Once(stdout', Codex!Frame("refusal", u))
    BY <1>5, <1>8, <2>2, Frames DEF Said
  <2>4. Codex!TypeOK' /\ Kept'
    <3>1. closed' \in {"no", "gone", "closed"} /\ faults' \in 0 .. MaxCrashes
      BY <1>3, <1>10, Parts, CodexNumbers DEF CodexIInv, Codex!Faults
    <3>2. codex' \in [Codex!Turns -> {"none", "accepted", "running", "asking", "answered", "over"}]
      BY <1>10, Parts DEF CodexIInv
    <3> QED BY <1>3, <1>4, <1>5, <1>6, <1>8, <2>3, <3>1, <3>2, CodexNumbers, CodexTypes
  <2>5. \A u \in Codex!Turns : Sent("start", u) => ~Said("refusal", u)
    BY <1>3 DEF CodexIInv, Talks, StartGood
  <2>6. \A u \in Codex!Turns :
          /\ Sent("start", u)' => Sent("start", u) /\ ~Said("refusal", u)'
          /\ Said("refusal", u)' =>
               \/ /\ Said("refusal", u)
                  /\ Once(stdout, Codex!Frame("refusal", u)) =>
                         Once(stdout', Codex!Frame("refusal", u))
               \/ /\ Sent("start", u) /\ codex'[u] = codex[u]
                  /\ Once(stdout', Codex!Frame("refusal", u))
    BY <1>3, <1>6, <1>10, <2>3, <2>5
  <2>7. Talks' BY <1>3, <1>6, <1>10, <2>3, <2>6, CodexKeeps
  <2> QED BY <1>3, <2>4, <2>7, Assembled
<1> QED BY <1>7, <1>9, <1>10

(* What Codex reads of other turns, and what it says of the turn c. *)
LEMMA CodexInterruptedKeeps ==
    ASSUME CodexIInv, Codex!CodexInterrupted
    PROVE  CodexIInv'
<1>1. PICK n : n = Head(stdin).turn OBVIOUS
<1>2. Codex!CodexReads("interrupt") /\ faults' = faults BY DEF Codex!CodexInterrupted
<1>3. /\ closed = "no" /\ closed' = closed /\ Codex!wanda' = Codex!wanda
      /\ Sent("interrupt", n) /\ n \in Codex!Turns \cup {Codex!None}
      /\ Head(stdin) = Codex!Frame("interrupt", n) /\ stdin' \in Seq(InFrame)
      /\ \A f : In(stdin', f) => In(stdin, f)
      /\ \A f : In(stdin, f) => f = Head(stdin) \/ In(stdin', f)
      /\ \A f : Once(stdin, f) => Once(stdin', f) /\ (f = Head(stdin) => ~In(stdin', f))
  BY <1>1, <1>2, Read
<1>4. /\ \A u : Sent("start", u)' => Sent("start", u)
      /\ \A u : Sent("interrupt", u)' => Sent("interrupt", u)
      /\ \A u : Sent("interrupt", u) => Sent("interrupt", u)' \/ u = n
      /\ \A u : Once(stdin, Codex!Frame("start", u)) => Once(stdin', Codex!Frame("start", u))
  BY <1>3, Frames DEF Sent
<1>5. /\ \A u \in Codex!Turns : Sent("start", u) => ~Said("refusal", u)
      /\ n \in Codex!Turns => codex[n] # "none"
  BY <1>3 DEF CodexIInv, Talks, StartGood, NameGood
<1>6. closed' \in {"no", "gone", "closed"} /\ faults' \in 0 .. MaxCrashes
  BY <1>2, <1>3, Parts DEF CodexIInv
<1>7. CASE \E c \in Codex!Turns : /\ Codex!Active(c) /\ n \in {c, Codex!None}
                                  /\ codex' = [codex EXCEPT ![c] = "over"]
                                  /\ Codex!Says(<<Codex!Frame("interrupted", c)>>)
  <2>1. PICK c \in Codex!Turns : /\ Codex!Active(c) /\ n \in {c, Codex!None}
                                 /\ codex' = [codex EXCEPT ![c] = "over"]
                                 /\ Codex!Says(<<Codex!Frame("interrupted", c)>>)
    BY <1>7
  <2>2. /\ codex' \in [Codex!Turns -> {"none", "accepted", "running", "asking", "answered", "over"}]
        /\ codex'[c] = "over" /\ codex[c] # "none"
        /\ \A u \in Codex!Turns : u # c => codex'[u] = codex[u]
    BY <2>1, Parts DEF CodexIInv, Codex!Active
  <2>3. PICK frames \in Seq(OutFrame) :
          Codex!Says(frames) /\ \A g : In(frames, g) <=> Codex!Frame("interrupted", c) = g
    <3>1. Codex!Frame("interrupted", c) \in OutFrame BY Frames DEF OutKinds
    <3> QED BY <2>1, <3>1, OneFrame
  <2>4. /\ stdout' \in Seq(OutFrame)
        /\ \A u, kind : Said(kind, u)' => Said(kind, u) \/ (u = c /\ kind = "interrupted")
        /\ \A u : Once(stdout, Codex!Frame("refusal", u)) =>
               Once(stdout', Codex!Frame("refusal", u))
    BY <2>3, Spoken, Frames DEF Said
  <2>5. Codex!TypeOK' /\ Kept'
    BY <1>3, <1>4, <1>6, <2>2, <2>4, CodexNumbers, CodexTypes
  <2>6. Talks' BY <1>3, <1>4, <1>5, <2>1, <2>2, <2>4, CodexNumbers, CodexKeeps
  <2> QED BY <1>3, <2>5, <2>6, Assembled
<1>8. CASE /\ n = Codex!None \/ \A c \in Codex!Turns : ~(Codex!Active(c) /\ n \in {c, Codex!None})
           /\ codex' = codex /\ stdout' = stdout
  <2>1. n \in Codex!Turns => codex[n] = "over"
    BY <1>5, <1>8, CodexNumbers, Parts DEF CodexIInv, Codex!Active
  <2>2. /\ stdout' \in Seq(OutFrame) /\ \A u, kind : Said(kind, u)' <=> Said(kind, u)
        /\ codex' \in [Codex!Turns -> {"none", "accepted", "running", "asking", "answered", "over"}]
    BY <1>8, Parts DEF CodexIInv, Said
  <2>3. Codex!TypeOK' /\ Kept' BY <1>3, <1>4, <1>6, <2>2, CodexTypes
  <2>4. Talks' BY <1>3, <1>4, <1>5, <1>8, <2>1, <2>2, CodexKeeps
  <2> QED BY <1>3, <2>3, <2>4, Assembled
<1>9. \/ \E c \in {u \in Codex!Turns : Codex!Active(u) /\ n \in {u, Codex!None}} :
           /\ codex' = [codex EXCEPT ![c] = "over"] /\ Codex!Says(<<Codex!Frame("interrupted", c)>>)
      \/ /\ n = Codex!None \/ {u \in Codex!Turns : Codex!Active(u) /\ n \in {u, Codex!None}} = {}
         /\ codex' = codex /\ stdout' = stdout
  BY <1>1 DEF Codex!CodexInterrupted
<1> QED BY <1>7, <1>8, <1>9

LEMMA CodexAnsweredKeeps ==
    ASSUME CodexIInv, Codex!CodexAnswered
    PROVE  CodexIInv'
<1>1. PICK c : c = Head(stdin).turn OBVIOUS
<1>2. /\ Codex!CodexReads("answer") /\ faults' = faults /\ stdout' = stdout
      /\ codex' = IF codex[c] = "asking" THEN [codex EXCEPT ![c] = "answered"] ELSE codex
  BY <1>1 DEF Codex!CodexAnswered
<1>3. /\ closed = "no" /\ closed' = closed /\ Codex!wanda' = Codex!wanda
      /\ c \in Codex!Turns \cup {Codex!None}
      /\ Head(stdin) = Codex!Frame("answer", c) /\ stdin' \in Seq(InFrame)
      /\ \A f : In(stdin', f) => In(stdin, f)
      /\ \A f : In(stdin, f) => f = Head(stdin) \/ In(stdin', f)
      /\ \A f : Once(stdin, f) => Once(stdin', f)
  BY <1>1, <1>2, Read
<1>4. /\ \A u : Sent("start", u)' => Sent("start", u)
      /\ \A u : Sent("interrupt", u)' <=> Sent("interrupt", u)
  BY <1>3, Frames DEF Sent
<1>5. /\ \A u \in Codex!Turns : Sent("start", u) => ~Said("refusal", u)
      /\ \A u, kind : Said(kind, u)' <=> Said(kind, u)
      /\ stdout' \in Seq(OutFrame)
  BY <1>2, <1>3, Parts DEF CodexIInv, Talks, StartGood, Said
<1>6. closed' \in {"no", "gone", "closed"} /\ faults' \in 0 .. MaxCrashes
  BY <1>2, <1>3, Parts DEF CodexIInv
<1>7. /\ codex' \in [Codex!Turns -> {"none", "accepted", "running", "asking", "answered", "over"}]
      /\ \A u \in Codex!Turns :
             codex'[u] = codex[u] \/ (codex[u] = "asking" /\ codex'[u] = "answered")
  BY <1>2, Parts DEF CodexIInv
<1>8. Codex!TypeOK' /\ Kept' BY <1>3, <1>4, <1>5, <1>6, <1>7, CodexTypes
<1>9. Talks' BY <1>2, <1>3, <1>4, <1>5, <1>7, CodexKeeps
<1> QED BY <1>3, <1>8, <1>9, Assembled

(* Codex says one thing of a turn, or a line that does not parse. *)
LEMMA OneSpoken ==
    ASSUME CodexIInv, NEW kind \in OutKinds \ {"refusal"}, NEW c \in Codex!Turns \cup {Codex!None},
           Codex!Says(<<Codex!Frame(kind, c)>>)
    PROVE  /\ stdout' \in Seq(OutFrame)
           /\ \A k, u : Said(k, u)' => Said(k, u) \/ (u = c /\ k = kind)
           /\ \A u : Once(stdout, Codex!Frame("refusal", u)) =>
                  Once(stdout', Codex!Frame("refusal", u))
<1>1. Codex!Frame(kind, c) \in OutFrame BY Frames
<1>2. PICK frames \in Seq(OutFrame) :
        Codex!Says(frames) /\ \A g : In(frames, g) <=> Codex!Frame(kind, c) = g
  BY <1>1, OneFrame
<1>3. \A u : Codex!Frame(kind, c) # Codex!Frame("refusal", u) BY Frames
<1> QED BY <1>2, <1>3, Spoken, Frames DEF Said

LEMMA CodexWorksKeeps ==
    ASSUME CodexIInv, NEW c \in Codex!Turns, Codex!CodexWorks(c)
    PROVE  CodexIInv'
<1>1. /\ closed = "no" /\ Codex!wanda' = Codex!wanda /\ stdin' = stdin /\ closed' = closed
      /\ faults' = faults
  BY DEF Codex!CodexWorks
<1>2. PICK kind \in {"started", "approval", "completed", "failed"},
           to \in {"running", "asking", "over"} :
        /\ codex[c] \in {"accepted", "running", "answered"}
        /\ codex' = [codex EXCEPT ![c] = to] /\ Codex!Says(<<Codex!Frame(kind, c)>>)
        /\ kind \in {"completed", "failed"} => to = "over"
  BY DEF Codex!CodexWorks
<1>3. /\ codex' \in [Codex!Turns -> {"none", "accepted", "running", "asking", "answered", "over"}]
      /\ codex'[c] = to /\ to # "none" /\ codex[c] \notin {"none", "over"}
      /\ \A u \in Codex!Turns : u # c => codex'[u] = codex[u]
  BY <1>2, Parts DEF CodexIInv
<1>4. /\ stdout' \in Seq(OutFrame)
      /\ \A k, u : Said(k, u)' => Said(k, u) \/ (u = c /\ k = kind)
      /\ \A u : Once(stdout, Codex!Frame("refusal", u)) => Once(stdout', Codex!Frame("refusal", u))
  BY <1>2, OneSpoken DEF OutKinds
<1>5. /\ \A k, u : Sent(k, u)' <=> Sent(k, u)
      /\ \A u \in Codex!Turns : Sent("start", u) => ~Said("refusal", u)
      /\ stdin' \in Seq(InFrame) /\ closed' \in {"no", "gone", "closed"}
      /\ faults' \in 0 .. MaxCrashes
  BY <1>1, Parts DEF CodexIInv, Talks, StartGood, Sent
<1>6. Codex!TypeOK' /\ Kept' BY <1>1, <1>2, <1>3, <1>4, <1>5, CodexNumbers, CodexTypes
<1>7. \A u \in Codex!Turns : Said("refusal", u)' => Said("refusal", u) BY <1>2, <1>4
<1>8. Talks' BY <1>1, <1>2, <1>3, <1>4, <1>5, <1>7, CodexKeeps
<1> QED BY <1>1, <1>6, <1>8, Assembled

LEMMA CodexGarblesKeeps ==
    ASSUME CodexIInv, Codex!CodexGarbles
    PROVE  CodexIInv'
<1>1. /\ closed = "no" /\ Codex!wanda' = Codex!wanda /\ stdin' = stdin /\ closed' = closed
      /\ codex' = codex /\ Codex!Faults /\ Codex!Says(<<Codex!Frame("garbage", Codex!None)>>)
  BY DEF Codex!CodexGarbles
<1>2. /\ stdout' \in Seq(OutFrame)
      /\ \A k, u : Said(k, u)' => Said(k, u) \/ (u = Codex!None /\ k = "garbage")
      /\ \A u : Once(stdout, Codex!Frame("refusal", u)) => Once(stdout', Codex!Frame("refusal", u))
  BY <1>1, OneSpoken DEF OutKinds
<1>3. /\ \A k, u : Sent(k, u)' <=> Sent(k, u)
      /\ \A u \in Codex!Turns : Sent("start", u) => ~Said("refusal", u)
      /\ stdin' \in Seq(InFrame) /\ closed' \in {"no", "gone", "closed"}
      /\ codex' \in [Codex!Turns -> {"none", "accepted", "running", "asking", "answered", "over"}]
  BY <1>1, Parts DEF CodexIInv, Talks, StartGood, Sent
<1>4. faults' \in 0 .. MaxCrashes BY <1>1, Parts, CodexNumbers DEF CodexIInv, Codex!Faults
<1>5. Codex!TypeOK' /\ Kept' BY <1>1, <1>2, <1>3, <1>4, CodexTypes
<1>6. \A u \in Codex!Turns : \A k : Said(k, u)' => Said(k, u) BY <1>2, CodexNumbers
<1>7. Talks' BY <1>1, <1>2, <1>3, <1>6, CodexKeeps
<1> QED BY <1>1, <1>5, <1>7, Assembled

LEMMA CodexDiesKeeps ==
    ASSUME CodexIInv, Codex!CodexDies
    PROVE  CodexIInv'
<1>1. /\ Codex!wanda' = Codex!wanda /\ stdout' = stdout /\ stdin' = << >> /\ closed' = "gone"
      /\ codex' = [c \in Codex!Turns |-> "over"] /\ Codex!Faults
  BY DEF Codex!CodexDies
<1>2. faults' \in 0 .. MaxCrashes BY <1>1, Parts, CodexNumbers DEF CodexIInv, Codex!Faults
<1>3. /\ stdin' \in Seq(InFrame) /\ stdout' \in Seq(OutFrame)
      /\ codex' \in [Codex!Turns -> {"none", "accepted", "running", "asking", "answered", "over"}]
      /\ \A c \in Codex!Turns : codex'[c] = "over"
  BY <1>1, Parts DEF CodexIInv
<1>4. ~Sent("start", Codex!None)' /\ \A k, u : Said(k, u)' <=> Said(k, u)
  BY <1>1 DEF Sent, Said, In
<1>5. Codex!TypeOK' /\ Kept' BY <1>1, <1>2, <1>3, <1>4, CodexTypes
<1> QED BY <1>1, <1>3, <1>5 DEF CodexIInv

-----------------------------------------------------------------------------
(* The inductive invariant. *)
LEMMA CodexInitially == Codex!Init => CodexIInv
<1> SUFFICES ASSUME Codex!Init PROVE CodexIInv OBVIOUS
<1>1. << >> \in Seq(InFrame) /\ << >> \in Seq(OutFrame) OBVIOUS
<1>2. Codex!TypeOK
  <2>1. stdin \in Seq(InFrame) /\ stdout \in Seq(OutFrame) BY <1>1 DEF Codex!Init
  <2>2. faults \in 0 .. MaxCrashes BY CodexNumbers DEF Codex!Init
  <2>3. /\ stdin \in Seq([kind : {"start", "interrupt", "answer"},
                           turn : Codex!Turns \cup {Codex!None}])
        /\ stdout \in Seq([kind : {"reply", "refusal", "started", "completed", "failed",
                                   "interrupted", "approval", "garbage"},
                           turn : Codex!Turns \cup {Codex!None}])
    BY <2>1 DEF InFrame, OutFrame, OutKinds
  <2> QED BY <2>2, <2>3 DEF Codex!Init, Codex!TypeOK
<1>3. \A k, u : ~Sent(k, u) /\ ~Said(k, u) BY DEF Codex!Init, Sent, Said, In
<1>4. Kept BY <1>3 DEF Codex!Init, Kept, Codex!Unended
<1>5. Talks
  BY <1>3, CodexNumbers DEF Codex!Init, Talks, StartGood, SaidGood, NameGood, Watched
<1> QED BY <1>2, <1>4, <1>5 DEF Codex!Init, CodexIInv

LEMMA CodexStep == CodexIInv /\ [Codex!Next]_(Codex!vars) => CodexIInv'
<1> SUFFICES ASSUME CodexIInv, [Codex!Next]_(Codex!vars) PROVE CodexIInv' OBVIOUS
<1>1. CASE UNCHANGED Codex!vars
  <2>1. /\ Codex!wanda' = Codex!wanda /\ stdin' = stdin /\ stdout' = stdout /\ codex' = codex
        /\ closed' = closed /\ faults' = faults
    BY <1>1 DEF Codex!vars
  <2>2. /\ \A k, u : Sent(k, u)' <=> Sent(k, u)
        /\ \A k, u : Said(k, u)' <=> Said(k, u)
    BY <2>1 DEF Sent, Said
  <2>3. Codex!TypeOK' /\ Kept' BY <2>1, <2>2, Parts, CodexTypes DEF CodexIInv
  <2>4. closed = "no" => Talks'
    BY <2>1, <2>2, CodexPipes, WandaKeeps DEF CodexIInv, Unstarted, Unsaid, Leaves, Codex!Unended
  <2> QED BY <2>1, <2>3, <2>4, Assembled
<1>2. CASE Codex!Receive
  BY <1>2, ReplyKeeps, RefusalKeeps, TurnStartedKeeps, TurnCompletedKeeps, ApprovalKeeps,
     ParseFailsKeeps, ClosesKeeps
  DEF Codex!Receive
<1>3. CASE Codex!CodexHandles
  BY <1>3, CodexStartsKeeps, CodexInterruptedKeeps, CodexAnsweredKeeps DEF Codex!CodexHandles
<1>4. CASE Codex!CodexGarbles \/ Codex!CodexDies BY <1>4, CodexGarblesKeeps, CodexDiesKeeps
<1>5. ASSUME NEW t \in Codex!Turns, Codex!Prompt(t) \/ Codex!StartReview(t) PROVE CodexIInv'
  BY <1>5, BeginsKeeps DEF Codex!Prompt, Codex!StartReview
<1>6. ASSUME NEW t \in Codex!Turns,
             \/ Codex!Cancel(t) \/ Codex!RequestTimesOut(t) \/ Codex!Finishes(t)
               \/ Codex!UserAnswers(t) \/ Codex!CodexWorks(t)
      PROVE  CodexIInv'
  BY <1>6, CodexCancelKeeps, RequestTimesOutKeeps, FinishesKeeps, UserAnswersKeeps, CodexWorksKeeps
<1> QED BY <1>1, <1>2, <1>3, <1>4, <1>5, <1>6 DEF Codex!Next

LEMMA CodexInvariance == Codex!Spec => []CodexIInv
<1> QED BY CodexInitially, CodexStep, PTL DEF Codex!Spec

(* The types of the Codex turns; turnRef and the requests that wait are of  *)
(* turns that were prompted (provider.ts, rpc.ts).                         *)
THEOREM CodexTypeCorrect == Codex!Spec => []Codex!TypeOK
<1>1. CodexIInv => Codex!TypeOK BY DEF CodexIInv
<1> QED BY <1>1, CodexInvariance, PTL

LEMMA CodexAttended == CodexIInv => Codex!Attended
<1> SUFFICES ASSUME CodexIInv, NEW c \in Codex!Turns, Codex!Active(c)
             PROVE  \/ Codex!Unended(c)
                    \/ c \in unnamed \/ settledBy[c] \notin {Codex!None, c, Codex!Transport}
                    \/ Sent("interrupt", c)
  BY DEF Codex!Attended, Sent, In
<1>1. codex[c] \notin {"none", "over"} BY DEF Codex!Active
<1>2. closed = "no" BY <1>1 DEF CodexIInv
<1>3. StartGood(c) /\ Watched(c) BY <1>2 DEF CodexIInv, Talks
<1> QED BY <1>1, <1>3 DEF StartGood, Watched

(* Nothing runs in Codex that Wanda has forgotten, but for the turns that   *)
(* ended before Wanda knew their name or were ended by another's end       *)
(* (provider.ts: prompt() and its abort signal).                           *)
THEOREM AttendedAlways == Codex!Spec => []Codex!Attended
<1> QED BY CodexInvariance, CodexAttended, PTL
=============================================================================
