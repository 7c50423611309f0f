---------------------------- MODULE AgentRuntime ----------------------------
(***************************************************************************)
(* packages/agent-runtime: the life of one agent session, from runtime.ts, *)
(* turn-runner.ts, managed-session.ts and session-registry.ts.             *)
(*                                                                         *)
(* The code runs on one event loop: what lies between two awaits is one    *)
(* step.  A call stops only to spawn a provider and to close a provider's  *)
(* scope (the subprocess is given seconds to exit), and calls of several   *)
(* clients interleave there.  Setting a mode does not await in the one     *)
(* provider the build has, and an interrupted turn ends before the loop    *)
(* serves another call.                                                    *)
(*                                                                         *)
(* A managed session is known by the number of its spawn, a turn by the    *)
(* number of its start.  Events are not told apart here; the permission    *)
(* prompts of a turn are in PermissionFlow.                                *)
(***************************************************************************)
EXTENDS Integers, FiniteSets

CONSTANTS Callers,     \* calls that may be in flight together
          MaxSessions, \* bound: providers spawned
          MaxTurns,    \* bound: turns started
          MaxCrashes   \* bound: restarts of the server

ASSUME RuntimeAssumption ==
    IsFiniteSet(Callers) /\ MaxSessions \in Nat /\ MaxTurns \in Nat /\ MaxCrashes \in Nat

Sessions == 1 .. MaxSessions
Turns == 1 .. MaxTurns
None == 0

VARIABLES row,       \* state of the chat_sessions row
          registry,  \* the managed session the registry holds, or None
          managed,   \* every managed session made
          turn,      \* every turn
          call,      \* what each call is at
          spawned,   \* providers spawned
          started,   \* turns started
          crashes,   \* for the bound
          replaced,  \* history: sessions that left the registry unclosed
          revived,   \* history: sessions registered although the row was closed
          leaked     \* history: providers whose handshake failed after the spawn

history == <<replaced, revived, leaked>>
vars == <<row, registry, managed, turn, call, spawned, started, crashes, history>>

(* state, activeTurn and scope of a ManagedSession; "error" is recoverable *)
(* and "dead" is not; dying is set once the transport has failed.          *)
Unmade == [state |-> "none", active |-> None, scope |-> "none", dying |-> FALSE]
Fresh == [state |-> "ready", active |-> None, scope |-> "open", dying |-> FALSE]
NoTurn == [phase |-> "none", on |-> None]
Idle == [op |-> "none", phase |-> "idle", on |-> None]

Init ==
    /\ row = "none" /\ registry = None
    /\ managed = [s \in Sessions |-> Unmade] /\ turn = [t \in Turns |-> NoTurn]
    /\ call = [c \in Callers |-> Idle]
    /\ spawned = 0 /\ started = 0 /\ crashes = 0
    /\ replaced = {} /\ revived = {} /\ leaked = {}

-----------------------------------------------------------------------------
Running(t) == turn[t].phase = "running"

(* Mutant: the call forgets that it is over, but not what it was about. *)
ReturnsHolding(c) == call' = [call EXCEPT ![c].phase = "idle"]

Returns(c) == call' = [call EXCEPT ![c] = Idle]

Ends(t, how) == turn' = [turn EXCEPT ![t].phase = how]

(* What the registry held is gone from it, though it is not session s. *)
Displaces(s) == replaced' = replaced \cup ({registry} \ {None, s})

(* Mutant: whoever asks may start a turn. *)
MayRunAlways(s) == managed[s].state # "closed"

(* canTransition(_, "running") *)
MayRun(s) == managed[s].state \in {"ready", "error", "dead"}

(* A turn runs until the provider ends it, unless the provider's channel is *)
(* gone: a dead transport fails it at once and for good, a closed client    *)
(* only this once.                                                         *)
StartsTurn(s) ==
    LET t == started + 1
    IN /\ started < MaxTurns /\ started' = t
       /\ IF managed[s].dying \/ managed[s].scope # "open"
          THEN /\ turn' = [turn EXCEPT ![t] = [phase |-> "failed", on |-> s]]
               /\ managed' = [managed EXCEPT ![s].active = t,
                                ![s].state = IF managed[s].dying THEN "dead" ELSE "error"]
          ELSE /\ turn' = [turn EXCEPT ![t] = [phase |-> "running", on |-> s]]
               /\ managed' = [managed EXCEPT ![s].active = t, ![s].state = "running"]

-----------------------------------------------------------------------------
(* create(): nobody knows the id before it returns. *)
Create ==
    /\ row = "none" /\ spawned < MaxSessions
    /\ spawned' = spawned + 1
    /\ row' = "open" /\ registry' = spawned + 1
    /\ managed' = [managed EXCEPT ![spawned + 1] = Fresh]
    /\ UNCHANGED <<turn, call, started, crashes, history>>

(* The spawn or the handshake fails: the client is told so and may try      *)
(* again, under another id, and nobody closes the scope.  The last spawn    *)
(* the bound allows works, so that there is a session in every behaviour.  *)
CreateFails ==
    /\ row = "none" /\ spawned + 1 < MaxSessions
    /\ spawned' = spawned + 1
    /\ managed' = [managed EXCEPT ![spawned + 1].scope = "open"]
    /\ leaked' = leaked \cup {spawned + 1}
    /\ UNCHANGED <<row, registry, turn, call, started, crashes, replaced, revived>>

(* The cold path of getOrResurrect.  A closed row is refused, and the       *)
(* provider may not start; else it is asked to resume.                     *)
Resurrects(c, op) ==
    \/ Returns(c) /\ UNCHANGED spawned
    \/ /\ row = "open" /\ spawned < MaxSessions
       /\ spawned' = spawned + 1
       /\ call' = [call EXCEPT ![c] = [op |-> op, phase |-> "spawning", on |-> spawned + 1]]

(* prompt(), startReview() or get() of a session that is not resident. *)
CallsCold(c) ==
    /\ call[c] = Idle /\ row # "none" /\ registry = None
    /\ \E op \in {"prompt", "review", "get"} : Resurrects(c, op)
    /\ UNCHANGED <<row, registry, managed, turn, started, crashes, history>>

(* prompt() or startReview() of a resident session.  A refused one changes *)
(* nothing.                                                                *)
CallsHot ==
    /\ registry # None /\ MayRun(registry)
    /\ StartsTurn(registry)
    /\ UNCHANGED <<row, registry, call, spawned, crashes, history>>

(* Mutant: the dead session is dropped without closing its scope. *)
EvictsOpen(c) ==
    /\ call[c] = Idle /\ registry # None /\ managed[registry].state = "dead"
    /\ call' = [call EXCEPT ![c] = [op |-> "prompt", phase |-> "evicting", on |-> registry]]
    /\ UNCHANGED <<row, registry, managed, turn, spawned, started, crashes, history>>

(* prompt() finds an error it cannot recover from: Scope.close. *)
Evicts(c) ==
    /\ call[c] = Idle /\ registry # None /\ managed[registry].state = "dead"
    /\ managed' = [managed EXCEPT ![registry].scope = "closed"]
    /\ call' = [call EXCEPT ![c] = [op |-> "prompt", phase |-> "evicting", on |-> registry]]
    /\ UNCHANGED <<row, registry, turn, spawned, started, crashes, history>>

(* Then registry.remove, whatever the registry holds by now, and            *)
(* getOrResurrect once more.                                               *)
Evicted(c) ==
    /\ call[c].phase = "evicting"
    /\ registry' = None /\ Displaces(call[c].on)
    /\ Resurrects(c, "prompt")
    /\ UNCHANGED <<row, managed, turn, started, crashes, revived, leaked>>

(* registry.put, whatever the registry holds; then the call has its turn,  *)
(* unless it was a get() or the prompt was no good.                        *)
Resurrected(c) ==
    LET s == call[c].on
        t == started + 1
    IN /\ call[c].phase = "spawning" /\ Returns(c)
       /\ registry' = s
       /\ Displaces(s)
       /\ revived' = revived \cup (IF row = "open" THEN {} ELSE {s})
       /\ \/ managed' = [managed EXCEPT ![s] = Fresh] /\ UNCHANGED <<turn, started>>
          \/ /\ call[c].op # "get" /\ t \in Turns
             /\ started' = t
             /\ turn' = [turn EXCEPT ![t] = [phase |-> "running", on |-> s]]
             /\ managed' = [managed EXCEPT ![s] = [Fresh EXCEPT !.state = "running", !.active = t]]
       /\ UNCHANGED <<row, spawned, crashes, leaked>>

(* The handshake fails or times out, and nobody closes the scope. *)
ResurrectFails(c) ==
    /\ call[c].phase = "spawning" /\ Returns(c)
    /\ managed' = [managed EXCEPT ![call[c].on].scope = "open"]
    /\ leaked' = leaked \cup {call[c].on}
    /\ UNCHANGED <<row, registry, turn, spawned, started, crashes, replaced, revived>>

-----------------------------------------------------------------------------
(* The end of a turn: onSuccess, and onFailure of an error the provider     *)
(* reports.                                                                *)
TurnEnds(t) ==
    /\ Running(t)
    /\ \/ Ends(t, "completed") /\ managed' = [managed EXCEPT ![turn[t].on].state = "ready"]
       \/ Ends(t, "failed") /\ managed' = [managed EXCEPT ![turn[t].on].state = "error"]
    /\ UNCHANGED <<row, registry, call, spawned, started, crashes, history>>

(* The subprocess is gone or its stream is broken.  The turn that waits is *)
(* failed with an error marked recoverable.                                *)
TransportDies(s) ==
    /\ managed[s].scope = "open" /\ managed[s].state # "none" /\ ~managed[s].dying
    /\ LET hit == {t \in Turns : Running(t) /\ turn[t].on = s}
       IN /\ turn' = [t \in Turns |-> IF t \in hit THEN [turn[t] EXCEPT !.phase = "failed"]
                                                   ELSE turn[t]]
          /\ managed' = [managed EXCEPT ![s].dying = TRUE,
                           ![s].state = IF hit = {} THEN @ ELSE "error"]
    /\ UNCHANGED <<row, registry, call, spawned, started, crashes, history>>

(* Mutant: an interrupted turn does not reach its handler. *)
InterruptsHard(s, next) ==
    LET t == managed[s].active
    IN /\ turn' = IF t # None THEN [turn EXCEPT ![t].phase = "cancelled"] ELSE turn
       /\ managed' = [managed EXCEPT ![s].active = None, ![s].scope = next]

(* The turn in activeTurn, which a turn that ended leaves there, is         *)
(* interrupted if it still runs.                                           *)
Interrupts(s, next) ==
    LET t == managed[s].active
        live == t # None /\ Running(t)
    IN /\ turn' = IF live THEN [turn EXCEPT ![t].phase = "cancelled"] ELSE turn
       /\ managed' = [managed EXCEPT ![s] =
                        [@ EXCEPT !.active = None, !.scope = next,
                                  !.state = IF live THEN "ready" ELSE managed[s].state]]

Cancel ==
    /\ registry # None /\ managed[registry].state = "running" /\ managed[registry].active # None
    /\ Interrupts(registry, managed[registry].scope)
    /\ UNCHANGED <<row, registry, call, spawned, started, crashes, history>>

(* close(): the turn is interrupted, the scope is closed ... *)
Close(c) ==
    /\ call[c] = Idle /\ registry # None /\ managed[registry].state # "closed"
    /\ Interrupts(registry, "closed")
    /\ call' = [call EXCEPT ![c] = [op |-> "close", phase |-> "closing", on |-> registry]]
    /\ UNCHANGED <<row, registry, spawned, started, crashes, history>>

(* ... and once it is, markClosed and registry.remove. *)
Closed(c) ==
    LET s == call[c].on
    IN /\ call[c].phase = "closing" /\ Returns(c)
       /\ managed' = [managed EXCEPT ![s].state = "closed"]
       /\ row' = "closed" /\ registry' = None /\ Displaces(s)
       /\ UNCHANGED <<turn, spawned, started, crashes, revived, leaked>>

(* The server dies, and its providers with it. *)
Crash ==
    /\ crashes < MaxCrashes /\ crashes' = crashes + 1
    /\ registry' = None
    /\ managed' = [s \in Sessions |-> Unmade]
    /\ turn' = [t \in Turns |-> IF Running(t) THEN [turn[t] EXCEPT !.phase = "lost"] ELSE turn[t]]
    /\ call' = [c \in Callers |-> Idle]
    /\ UNCHANGED <<row, spawned, started, history>>

-----------------------------------------------------------------------------
Next ==
    \/ Create \/ CreateFails \/ CallsHot \/ Cancel \/ Crash
    \/ \E c \in Callers : \/ CallsCold(c) \/ Evicts(c) \/ Evicted(c) \/ Resurrected(c)
                          \/ ResurrectFails(c) \/ Close(c) \/ Closed(c)
    \/ \E t \in Turns : TurnEnds(t)
    \/ \E s \in Sessions : TransportDies(s)

Spec == Init /\ [][Next]_vars
-----------------------------------------------------------------------------
(* Properties. *)

(* Types of the state; a call holds a session exactly while it waits, and   *)
(* every turn that was started is on a session that was spawned.           *)
TypeOK ==
    /\ row \in {"none", "open", "closed"} /\ registry \in Sessions \cup {None}
    /\ managed \in [Sessions -> [state : {"none", "ready", "running", "error", "dead", "closed"},
                                 active : Turns \cup {None}, dying : BOOLEAN,
                                 scope : {"none", "open", "closed"}]]
    /\ turn \in [Turns -> [phase : {"none", "running", "completed", "failed", "cancelled", "lost"},
                           on : Sessions \cup {None}]]
    /\ call \in [Callers -> [op : {"none", "prompt", "review", "get", "close"},
                             phase : {"idle", "spawning", "evicting", "closing"},
                             on : Sessions \cup {None}]]
    /\ spawned \in 0 .. MaxSessions /\ started \in 0 .. MaxTurns /\ crashes \in 0 .. MaxCrashes
    /\ \A c \in Callers : call[c].phase = "idle" <=> call[c].on = None
    /\ \A t \in Turns : (t <= started <=> turn[t].phase # "none") /\ turn[t].on <= spawned
    /\ replaced \cup revived \cup leaked \subseteq Sessions

(* A running turn is the active turn of the resident session, so cancel()  *)
(* and close() reach it, a session runs one turn at a time, and none once   *)
(* close() has returned.  Two calls that resurrect the session, or evict    *)
(* it, at the same time are the exception: a turn of a replaced session     *)
(* runs where nobody can stop it; and one that was being resurrected when   *)
(* close() returned runs on in a closed session.                           *)
Cancellable ==
    \A t \in Turns : Running(t) =>
        LET s == turn[t].on
        IN \/ s \in replaced
           \/ registry = s /\ managed[s].active = t /\ (row = "open" \/ s \in revived)

(* "a second interrupt could pre-empt the handler and leave the session    *)
(* stuck in 'running'" (turn-runner.ts): a session says running only while *)
(* a turn runs on it, whatever ended the turn.                             *)
NeverStuck ==
    \A s \in Sessions : managed[s].state = "running" =>
        \E t \in Turns : Running(t) /\ turn[t].on = s

(* A provider process belongs to the resident session, or it is one of the *)
(* two known leaks: its session was replaced, or its handshake failed.     *)
ProvidersOwned ==
    \A s \in Sessions : managed[s].scope = "open" => s = registry \/ s \in replaced \cup leaked
=============================================================================
