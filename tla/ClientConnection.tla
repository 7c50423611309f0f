-------------------------- MODULE ClientConnection --------------------------
(***************************************************************************)
(* packages/client-connection: the connection's state machine, with what   *)
(* it holds across its awaits: dials (getUrl and issueWsToken), armed      *)
(* reconnect timers, and resyncs the consumer has not finished.            *)
(*                                                                         *)
(* The server answers each request or the socket falls.  Between the fall   *)
(* of a socket and its close event the connection does not know of it.     *)
(* The backoff's length, pings and live events do not change this state    *)
(* and are left out.                                                       *)
(***************************************************************************)
EXTENDS Integers, Sequences, SequencesExt, FiniteSets

CONSTANTS Sockets,    \* bound: sockets ever made
          MaxSends,   \* bound: envelopes the consumer sends
          MaxFaults,  \* bound: dials failed, sockets lost, resyncs failed
          None

ASSUME ConnectionAssumption ==
    None \notin Sockets /\ MaxSends \in Nat /\ MaxFaults \in Nat

VARIABLES state,     \* _state
          ws,        \* this.ws
          socket,    \* readyState of each socket
          owed,      \* the answer the server owes on each socket
          dials,     \* connect() calls awaiting a token
          timers,    \* reconnect timers armed
          handle,    \* reconnectTimer is not null
          resyncs,   \* sockets whose onFullResyncNeeded has not returned
          disposed,
          pendingSend,
          written,   \* history: envelopes put on an open socket, in order
          accepted,  \* history: envelopes send() took, to write or to queue
          unheard,   \* history: those given to a socket not known to be closing
          sends, faults,  \* how many; for the bounds
          outlived   \* history: a resync has outlived its socket

timing == <<dials, timers, handle>>
sending == <<pendingSend, written, accepted, unheard, sends>>
vars == <<state, ws, socket, owed, timing, resyncs, disposed, sending,
          faults, outlived>>

Final == {"offline", "unpaired"}

Init ==
    /\ state = "idle" /\ ws = None
    /\ socket = [w \in Sockets |-> "new"] /\ owed = [w \in Sockets |-> "nothing"]
    /\ dials = 0 /\ timers = 0 /\ handle = FALSE
    /\ resyncs = {} /\ disposed = FALSE
    /\ pendingSend = <<>> /\ written = <<>> /\ accepted = {} /\ unheard = {}
    /\ sends = 0 /\ faults = 0 /\ outlived = FALSE

-----------------------------------------------------------------------------
(* Effects the handlers share. *)

(* Mutants: the timer is armed before the state says so, or not at all. *)
RetriesQuietly(armed) ==
    IF disposed \/ state \in Final
      THEN UNCHANGED state /\ timers' = armed /\ UNCHANGED handle
      ELSE UNCHANGED state /\ timers' = armed + 1 /\ handle' = TRUE
RetriesUnarmed(armed) ==
    IF disposed \/ state \in Final
      THEN UNCHANGED state /\ timers' = armed /\ UNCHANGED handle
      ELSE state' = "reconnecting" /\ timers' = armed /\ handle' = TRUE

(* scheduleReconnect; armed is the number of timers before it. *)
Retries(armed) ==
    IF disposed \/ state \in Final
      THEN UNCHANGED state /\ timers' = armed /\ UNCHANGED handle
      ELSE state' = "reconnecting" /\ timers' = armed + 1 /\ handle' = TRUE

(* Mutant: a close of any socket counts as the loss of the current one. *)
IsCurrentAny(w) == TRUE

(* The listeners' guard: this.ws === ws. *)
IsCurrent(w) == ws = w

Writable == ws # None /\ socket[ws] = "open"

(* The peer or the network has closed the current socket, and its close    *)
(* event is still to come.                                                 *)
Dying == ws # None /\ socket[ws] = "closing"

(* writeDirect, for each of es: a socket that is not open takes nothing,    *)
(* and nobody is told.                                                     *)
Writes(es) ==
    /\ written' = IF Writable THEN written \o es ELSE written
    /\ unheard' = IF Dying THEN unheard \cup ToSet(es) ELSE unheard

(* Mutant: the queue is written but not emptied. *)
FlushesAndKeeps == Writes(pendingSend) /\ UNCHANGED <<pendingSend, accepted>>

Flushes == Writes(pendingSend) /\ pendingSend' = <<>> /\ UNCHANGED accepted

EntersReady == Flushes /\ state' = "connected" /\ UNCHANGED sends

Hangs(w) ==
    /\ socket' = [socket EXCEPT ![w] = "closing"]
    /\ owed' = [owed EXCEPT ![w] = "nothing"]

HangsUp == IF ws = None THEN UNCHANGED <<socket, owed>> ELSE Hangs(ws)

Faults == faults < MaxFaults /\ faults' = faults + 1

-----------------------------------------------------------------------------
(* Dialling. *)

Start ==
    /\ state = "idle" /\ ~disposed
    /\ state' = "connecting" /\ dials' = dials + 1
    /\ UNCHANGED <<ws, socket, owed, timers, handle, resyncs, disposed, sending,
                   faults, outlived>>

(* Mutant: connect() does not look at disposed. *)
TimerFiresAnyway ==
    /\ timers > 0 /\ timers' = timers - 1 /\ handle' = FALSE
    /\ state' = "connecting" /\ dials' = dials + 1
    /\ UNCHANGED <<ws, socket, owed, resyncs, disposed, sending, faults, outlived>>

TimerFires ==
    /\ timers > 0 /\ timers' = timers - 1 /\ handle' = FALSE
    /\ IF disposed THEN UNCHANGED <<state, dials>>
                   ELSE state' = "connecting" /\ dials' = dials + 1
    /\ UNCHANGED <<ws, socket, owed, resyncs, disposed, sending, faults, outlived>>

DialFails ==
    /\ dials > 0 /\ dials' = dials - 1 /\ Faults
    /\ Retries(timers)
    /\ UNCHANGED <<ws, socket, owed, resyncs, disposed, sending, outlived>>

(* Nothing looks at disposed after the awaits. *)
DialSucceeds ==
    /\ dials > 0 /\ dials' = dials - 1
    /\ \E w \in Sockets :
         /\ socket[w] = "new"
         /\ socket' = [socket EXCEPT ![w] = "opening"]
         /\ ws' = w
    /\ UNCHANGED <<state, owed, timers, handle, resyncs, disposed, sending,
                   faults, outlived>>

-----------------------------------------------------------------------------
(* The socket's events; a close is heard once, whoever asked for it. *)

Opens(w) ==
    /\ socket[w] = "opening" /\ socket' = [socket EXCEPT ![w] = "open"]
    /\ owed' = [owed EXCEPT ![w] = IF IsCurrent(w) THEN "hello" ELSE "nothing"]
    /\ UNCHANGED <<state, ws, timing, resyncs, disposed, sending, faults, outlived>>

(* The peer hangs up, or a write finds the connection dead: readyState      *)
(* leaves OPEN and no listener has run yet.                                *)
Falls(w) ==
    /\ socket[w] \in {"opening", "open"} /\ Faults
    /\ Hangs(w)
    /\ UNCHANGED <<state, ws, timing, resyncs, disposed, sending, outlived>>

Closes(w) ==
    /\ socket[w] = "closing" /\ socket' = [socket EXCEPT ![w] = "closed"]
    /\ IF IsCurrent(w)
         THEN ws' = None /\ Retries(timers)
         ELSE UNCHANGED <<ws, state, timers, handle>>
    /\ UNCHANGED <<owed, dials, resyncs, disposed, sending, faults, outlived>>

Answered(w, what) == socket[w] = "open" /\ owed[w] = what

HelloAckSame(w) ==
    /\ Answered(w, "hello") /\ IsCurrent(w)
    /\ state' = "recovering"
    /\ owed' = [owed EXCEPT ![w] = "replay"]
    /\ UNCHANGED <<ws, socket, timing, resyncs, disposed, sending, faults, outlived>>

HelloAckEpochChanged(w) ==
    /\ Answered(w, "hello") /\ IsCurrent(w)
    /\ state' = "recovering"
    /\ owed' = [owed EXCEPT ![w] = "nothing"]
    /\ resyncs' = resyncs \cup {w}
    /\ UNCHANGED <<ws, socket, timing, disposed, sending, faults, outlived>>

HelloRejected(w) ==
    /\ Answered(w, "hello") /\ IsCurrent(w)
    /\ state' \in Final
    /\ HangsUp /\ ws' = None /\ pendingSend' = <<>>
    /\ UNCHANGED <<timing, resyncs, disposed, written, accepted, unheard, sends, faults,
                   outlived>>

AwaitsReplay == state = "recovering"

ReplayComplete(w) ==
    /\ Answered(w, "replay") /\ IsCurrent(w)
    /\ owed' = [owed EXCEPT ![w] = "nothing"]
    /\ IF AwaitsReplay THEN EntersReady ELSE UNCHANGED <<state, sending>>
    /\ UNCHANGED <<ws, socket, timing, resyncs, disposed, faults, outlived>>

ReplayGone(w) ==
    /\ Answered(w, "replay") /\ IsCurrent(w)
    /\ owed' = [owed EXCEPT ![w] = "nothing"]
    /\ resyncs' = IF AwaitsReplay THEN resyncs \cup {w} ELSE resyncs
    /\ UNCHANGED <<state, ws, socket, timing, disposed, sending, faults, outlived>>

-----------------------------------------------------------------------------
(* The consumer's resync returns.  Nothing looks at the socket, or at the  *)
(* state, that the await may have outlived.                                *)

ResyncReturns(w) ==
    /\ w \in resyncs /\ resyncs' = resyncs \ {w}
    /\ outlived' = (outlived \/ ~IsCurrent(w))

ResyncDone(w) ==
    /\ ResyncReturns(w) /\ EntersReady
    /\ UNCHANGED <<ws, socket, owed, timing, disposed, faults>>

ResyncFails(w) ==
    /\ ResyncReturns(w) /\ Faults
    /\ HangsUp /\ ws' = None /\ Retries(timers)
    /\ UNCHANGED <<dials, disposed, sending>>

-----------------------------------------------------------------------------
(* The consumer. *)

ClearsTimer == timers' = IF handle THEN timers - 1 ELSE timers

Stop ==
    /\ ~disposed /\ disposed' = TRUE
    /\ state' = "stopped"
    /\ ClearsTimer /\ handle' = FALSE
    /\ HangsUp /\ ws' = None /\ pendingSend' = <<>>
    /\ UNCHANGED <<dials, resyncs, written, accepted, unheard, sends, faults, outlived>>

Queues == state \in {"recovering", "connecting", "reconnecting"}

Send ==
    /\ sends < MaxSends /\ sends' = sends + 1
    /\ \/ /\ state = "connected"
          /\ Writes(<<sends + 1>>)
          /\ accepted' = accepted \cup {sends + 1} /\ UNCHANGED pendingSend
       \/ /\ Queues
          /\ pendingSend' = Append(pendingSend, sends + 1)
          /\ accepted' = accepted \cup {sends + 1} /\ UNCHANGED <<written, unheard>>
       \/ /\ state # "connected" /\ ~Queues
          /\ UNCHANGED <<pendingSend, written, accepted, unheard>>
    /\ UNCHANGED <<state, ws, socket, owed, timing, resyncs, disposed, faults, outlived>>

-----------------------------------------------------------------------------
Dial == TimerFires \/ DialSucceeds
Answer(w) == HelloAckSame(w) \/ HelloAckEpochChanged(w) \/ HelloRejected(w)
             \/ ReplayComplete(w) \/ ReplayGone(w)
Resync(w) == ResyncDone(w) \/ ResyncFails(w)

Next ==
    \/ Start \/ Dial \/ DialFails \/ Stop \/ Send
    \/ \E w \in Sockets : Opens(w) \/ Falls(w) \/ Closes(w) \/ Answer(w) \/ Resync(w)

(* The consumer starts the connection; timers fire and tokens are minted;  *)
(* a socket that stays up opens and is answered, one that does not closes; *)
(* resyncs return.                                                         *)
Fairness ==
    /\ WF_vars(Start) /\ WF_vars(Dial)
    /\ \A w \in Sockets : /\ WF_vars(Opens(w)) /\ WF_vars(Closes(w))
                          /\ WF_vars(Answer(w)) /\ WF_vars(Resync(w))

Spec == Init /\ [][Next]_vars
FairSpec == Spec /\ Fairness
-----------------------------------------------------------------------------
(* Properties. *)

(* Types of the state. *)
TypeOK ==
    /\ state \in {"idle", "connecting", "connected", "recovering", "reconnecting",
                  "offline", "unpaired", "stopped"}
    /\ ws \in Sockets \cup {None}
    /\ socket \in [Sockets -> {"new", "opening", "open", "closing", "closed"}]
    /\ owed \in [Sockets -> {"nothing", "hello", "replay"}]
    /\ dials \in Nat /\ timers \in Nat /\ handle \in BOOLEAN
    /\ resyncs \subseteq Sockets /\ disposed \in BOOLEAN
    /\ pendingSend \in Seq(1 .. sends) /\ written \in Seq(1 .. sends)
    /\ accepted \subseteq 1 .. sends /\ unheard \subseteq 1 .. sends
    /\ sends \in 0 .. MaxSends /\ faults \in 0 .. MaxFaults /\ outlived \in BOOLEAN

(* At most one thing is on its way to a connection: a dial, an armed       *)
(* timer, or a socket that opens, is open or is still this.ws (connect,    *)
(* scheduleReconnect, forceReconnect).  A socket the connection itself     *)
(* told to close is not counted: it may be closing while the next one      *)
(* opens.  Not promised once a resync has returned for a socket that was   *)
(* replaced or closed under it.                                            *)
OneAttempt ==
    ~outlived =>
        dials + timers
          + Cardinality({w \in Sockets : socket[w] \in {"opening", "open"} \/ ws = w}) <= 1

(* An envelope that send() took is on the wire or still queued, unless the *)
(* connection was stopped or rejected (both drop the queue), a resync      *)
(* outlived its socket, or the envelope went to a socket that was closing  *)
(* and whose close event had not come.  And envelopes reach the wire once  *)
(* and in the order they were sent, across reconnects, in every case       *)
(* (send, pendingSend, enterReady, writeDirect, the close listener).       *)
AcceptedIsWritten ==
    /\ \/ outlived \/ disposed \/ state \in Final
       \/ accepted \subseteq ToSet(written) \cup ToSet(pendingSend) \cup unheard
    /\ \A i, j \in DOMAIN written : i < j => written[i] < written[j]

(* After stop() nothing new is begun: no dial, no timer.  What was under   *)
(* way at the stop may still come through - a dial's socket, a resync -    *)
(* but once that is over too, the connection neither changes its state     *)
(* nor opens or writes to a socket again (stop, connect,                   *)
(* scheduleReconnect).                                                     *)
StopIsFinal ==
    [][disposed => /\ dials' <= dials /\ timers' <= timers
                   /\ dials = 0 /\ resyncs = {} /\ ws = None
                        => UNCHANGED <<state, ws, written>>]_vars

(* However a recovery goes wrong, a connection that was neither rejected   *)
(* nor stopped ends up connected with nothing left in its queue.           *)
EndsConnected ==
    <>[](\/ outlived \/ disposed \/ state \in Final
         \/ state = "connected" /\ Writable /\ pendingSend = <<>>)
=============================================================================
