---------------------------- MODULE EventStream ----------------------------
(***************************************************************************)
(* The event stream from a server to one client: the two boot epochs, the  *)
(* gateway's hello, firehose and replay, and the resume cursor the client  *)
(* keeps across disconnects and server restarts.                           *)
(*                                                                         *)
(* Publishing, a whole replay and handling one envelope are each one       *)
(* synchronous stretch of code, so each is one step.  Both directions of a *)
(* socket are FIFO and die with it.  The log is never pruned: nothing in   *)
(* production calls prune.                                                 *)
(***************************************************************************)
EXTENDS Integers, Sequences, FiniteSets

CONSTANTS MaxLog,     \* bound: events published
          MaxBoots,   \* bound: server starts
          MaxCuts     \* bound: sockets lost

ASSUME StreamBounds == MaxLog \in Nat /\ MaxBoots \in Nat /\ MaxCuts \in Nat

VARIABLES log,        \* log[s]: the epoch of the event with seq s
          boot,       \* how far the server process has come
          identity,   \* settings rows server.id.epoch and server.id.crc, 0 if absent
          sessionEpoch,  \* server_identity.epoch, the session store's own counter
          conn,       \* ConnectionContext.state of the client's socket
          up, down,   \* what is on that socket, either way
          client,     \* the FSM's state and the transport's cursor
          boots, cuts,   \* how often; for the bounds
          covered,    \* history: seqs handed to listeners or announced lost
          dropped,    \* history: seqs the firehose dropped under backpressure
          skipped     \* history: seqs a disruption made the cursor step over

server == <<log, boot, identity, sessionEpoch, boots>>
wire == <<conn, up, down>>
history == <<covered, dropped, skipped>>
vars == <<server, wire, client, cuts, history>>

Seqs == 1 .. Len(log)
Unknown == 0    \* lastSeenEpoch = null; epochs start at 1

Init ==
    /\ log = <<>> /\ boot = "down" /\ boots = 0 /\ cuts = 0
    /\ identity = [epoch |-> 0, crc |-> 0] /\ sessionEpoch = 0
    /\ conn = "none" /\ up = <<>> /\ down = <<>>
    /\ client = [state |-> "away", seq |-> 0, epoch |-> Unknown, ack |-> Unknown]
    /\ covered = {} /\ dropped = {} /\ skipped = {}

-----------------------------------------------------------------------------
(* Server start: two counters, three writes, then the log and the gateway. *)

Intact == identity.crc \in {0, identity.epoch}

BootEpoch ==
    /\ boot = "down" /\ boots < MaxBoots
    /\ boots' = boots + 1
    /\ IF Intact
         THEN /\ identity' = [identity EXCEPT
                   !.epoch = IF identity.crc = 0 THEN 1 ELSE @ + 1]
              /\ boot' = "epoch written"
         ELSE boot' = "refused" /\ UNCHANGED identity
    /\ UNCHANGED <<log, sessionEpoch, wire, client, cuts, history>>

BootCrc ==
    /\ boot = "epoch written" /\ boot' = "identified"
    /\ identity' = [identity EXCEPT !.crc = identity.epoch]
    /\ UNCHANGED <<log, sessionEpoch, boots, wire, client, cuts, history>>

BootSession ==
    /\ boot = "identified" /\ boot' = "up"
    /\ sessionEpoch' = sessionEpoch + 1
    /\ UNCHANGED <<log, identity, boots, wire, client, cuts, history>>

(* The remedy ServerIdentityCorruptedError prints: delete the three rows.  *)
ClearIdentity ==
    /\ boot = "refused" /\ boots < MaxBoots
    /\ boot' = "down"
    /\ identity' = [epoch |-> 0, crc |-> 0]
    /\ UNCHANGED <<log, sessionEpoch, boots, wire, client, cuts, history>>

-----------------------------------------------------------------------------
(* The socket: the client's attempt, its loss, and the server's death. *)

Missing == Seqs \ covered

Behind == {s \in Missing : s <= client.seq}

SocketGone ==
    /\ conn' = "none" /\ up' = <<>> /\ down' = <<>>
    /\ client' = [client EXCEPT !.state = "away"]

Connect ==
    /\ client.state = "away" /\ boot = "up"
    /\ conn' = "pending-hello" /\ up' = <<[type |-> "hello"]>> /\ down' = <<>>
    /\ client' = [client EXCEPT !.state = "connecting"]
    /\ UNCHANGED <<server, cuts, history>>

(* a close, an error, or a ping left unanswered *)
Cut ==
    /\ client.state # "away" /\ cuts < MaxCuts /\ cuts' = cuts + 1
    /\ SocketGone
    /\ skipped' = skipped \cup Behind
    /\ UNCHANGED <<server, covered, dropped>>

(* A client that never finished a recovery has no epoch to compare, so     *)
(* whatever it misses at a restart it will never ask for.                  *)
Crash ==
    /\ boot \in {"epoch written", "identified", "up"} /\ boots < MaxBoots
    /\ boot' = "down"
    /\ SocketGone
    /\ skipped' = skipped \cup (IF client.epoch = Unknown THEN Missing ELSE Behind)
    /\ UNCHANGED <<log, identity, sessionEpoch, boots, cuts, covered, dropped>>

-----------------------------------------------------------------------------
(* Server side of a socket. *)

(* Mutant: the broadcast carries the next seq, not the record's. *)
EventNext(s) == [type |-> "event", seq |-> s + 1]

Event(s) == [type |-> "event", seq |-> s]

(* The firehose skips a socket whose buffer is over the threshold: bytes   *)
(* it has not sent yet.                                                    *)
Broadcast(s) ==
    \/ conn # "ready" /\ UNCHANGED <<down, dropped>>
    \/ conn = "ready" /\ down' = Append(down, Event(s)) /\ UNCHANGED dropped
    \/ conn = "ready" /\ down # <<>>
       /\ dropped' = dropped \cup {s} /\ UNCHANGED down

Publish ==
    /\ boot = "up" /\ Len(log) < MaxLog
    /\ log' = Append(log, identity.epoch)
    /\ Broadcast(Len(log) + 1)
    /\ UNCHANGED <<boot, identity, sessionEpoch, boots, conn, up, client, cuts,
                   covered, skipped>>

Received(type) == up # <<>> /\ Head(up).type = type /\ up' = Tail(up)

ServerHello ==
    /\ Received("hello") /\ conn = "pending-hello"
    /\ conn' = "ready"
    /\ down' = Append(down, [type |-> "ack", epoch |-> sessionEpoch])
    /\ UNCHANGED <<server, client, cuts, history>>

(* Mutant: an off-by-one at the cursor. *)
RowsAfterSkipping(since) == {s \in Seqs : s > since + 1 /\ log[s] = identity.epoch}

(* The rows of the current epoch past a cursor; and their order. *)
RowsAfter(since) == {s \in Seqs : s > since /\ log[s] = identity.epoch}

Ascending(rows) ==
    {q \in [1 .. Cardinality(rows) -> rows] : \A i, j \in DOMAIN q : i < j => q[i] < q[j]}

Gone == <<[type |-> "gone"]>>

Listing(q) == [i \in DOMAIN q |-> Event(q[i])] \o <<[type |-> "complete"]>>

(* Mutant: a log with nothing to replay is taken for one too old. *)
ReplayOfTooOldIfEmpty(since, epoch) ==
    IF epoch # identity.epoch \/ RowsAfter(since) = {}
      THEN {Gone} ELSE {Listing(q) : q \in Ascending(RowsAfter(since))}

(* What the server answers; there is one such answer. *)
ReplayOf(since, epoch) ==
    IF epoch # identity.epoch
      THEN {Gone} ELSE {Listing(q) : q \in Ascending(RowsAfter(since))}

ServerReplay ==
    /\ Received("replay-from") /\ conn = "ready"
    /\ \E answer \in ReplayOf(Head(up).since, Head(up).epoch) : down' = down \o answer
    /\ UNCHANGED <<server, conn, client, cuts, history>>

-----------------------------------------------------------------------------
(* Client side: one action per envelope. *)

Delivered(type) == down # <<>> /\ Head(down).type = type /\ down' = Tail(down)

(* onFullResyncNeeded, then onReady: the transport forgets its cursor,     *)
(* announces the loss, and takes the acknowledged epoch.                   *)
FullResync(ack) ==
    /\ client' = [state |-> "connected", seq |-> 0, epoch |-> ack, ack |-> ack]
    /\ covered' = Seqs

(* Mutant: a new epoch goes unnoticed. *)
EpochChangedUnseen(ack) == FALSE

EpochChanged(ack) == client.epoch # Unknown /\ client.epoch # ack

ClientAck ==
    /\ Delivered("ack")
    /\ LET ack == Head(down).epoch
       IN \/ EpochChanged(ack) /\ FullResync(ack) /\ UNCHANGED up
          \/ /\ ~EpochChanged(ack)
             /\ up' = Append(up, [type |-> "replay-from", since |-> client.seq,
                                  epoch |-> ack])
             /\ client' = [client EXCEPT !.state = "recovering", !.ack = ack]
             /\ UNCHANGED covered
    /\ UNCHANGED <<server, conn, cuts, dropped, skipped>>

ClientEvent ==
    /\ Delivered("event")
    /\ client' = [client EXCEPT !.seq = IF Head(down).seq > @ THEN Head(down).seq ELSE @]
    /\ covered' = covered \cup {Head(down).seq}
    /\ UNCHANGED <<server, conn, up, cuts, dropped, skipped>>

ClientComplete ==
    /\ Delivered("complete") /\ client.state = "recovering"
    /\ client' = [client EXCEPT !.state = "connected", !.epoch = client.ack]
    /\ UNCHANGED <<server, conn, up, cuts, history>>

ClientGone ==
    /\ Delivered("gone") /\ client.state = "recovering"
    /\ FullResync(client.ack)
    /\ UNCHANGED <<server, conn, up, cuts, dropped, skipped>>

-----------------------------------------------------------------------------
BootStep == BootEpoch \/ BootCrc \/ BootSession
ServerStep == ServerHello \/ ServerReplay
ClientStep == ClientAck \/ ClientEvent \/ ClientComplete \/ ClientGone

Next == BootStep \/ ClearIdentity \/ Connect \/ Cut \/ Crash \/ Publish \/ ServerStep \/ ClientStep

(* Started servers finish starting and are started again; the backoff      *)
(* timer keeps dialling; a socket that stays up delivers.                  *)
Fairness == WF_vars(BootStep) /\ WF_vars(Connect)
            /\ WF_vars(ServerStep) /\ WF_vars(ClientStep)

Spec == Init /\ [][Next]_vars
FairSpec == Spec /\ Fairness
-----------------------------------------------------------------------------
(* Properties. *)

Requests == [type : {"hello"}]
            \cup [type : {"replay-from"}, since : Nat, epoch : Nat]
Envelopes == [type : {"event"}, seq : Nat] \cup [type : {"ack"}, epoch : Nat]
             \cup [type : {"complete", "gone"}]

(* Types of the state. *)
TypeOK ==
    /\ log \in Seq(Nat) /\ Len(log) <= MaxLog
    /\ boot \in {"down", "epoch written", "identified", "up", "refused"}
    /\ identity \in [epoch : Nat, crc : Nat] /\ sessionEpoch \in Nat
    /\ conn \in {"none", "pending-hello", "ready"}
    /\ up \in Seq(Requests) /\ down \in Seq(Envelopes)
    /\ client \in [state : {"away", "connecting", "recovering", "connected"},
                   seq : Nat, epoch : Nat, ack : Nat]
    /\ boots \in 0 .. MaxBoots /\ cuts \in 0 .. MaxCuts
    /\ covered \subseteq Seqs /\ dropped \subseteq Seqs /\ skipped \subseteq Seqs

Quiet == client.state = "connected" /\ up = <<>> /\ down = <<>>

(* Replay and the live firehose join without a seam: a connected client    *)
(* with nothing in flight has every event ever logged, was told of its     *)
(* loss, or lost it to backpressure or to a disruption in the middle of a  *)
(* recovery (ClientConnection.onHelloAck, Gateway.onReplayFrom, WsGateway  *)
(* onConnectionReady).                                                     *)
QuietIsCaughtUp == Quiet => Missing \subseteq dropped \cup skipped

(* A client throws its cursor away only across a restart of the server, or *)
(* because the server's own two counters disagree (onHelloAck's            *)
(* epochChanged, replayPage's epoch-mismatch).                             *)
ResyncNeedsRestart ==
    [][client.seq > 0 /\ client'.seq = 0
         => \/ client.epoch \notin {Unknown, sessionEpoch}
            \/ sessionEpoch # identity.epoch]_vars

(* An event that is logged reaches the client, is announced lost, or was   *)
(* dropped or stepped over, unless the server refuses to start.            *)
EventuallyAccounted ==
    \A s \in 1 .. MaxLog :
        s \in Seqs ~> \/ s \in covered \cup dropped \cup skipped
                      \/ [](boot = "refused")

(* The stream of ReliableStream, seen in the log, the client and the socket. *)
Stream == INSTANCE ReliableStream WITH
    published <- Len(log), accounted <- covered, lost <- dropped \cup skipped, resting <- Quiet

(* Whatever boots, cuts, replays and backpressure do, the client gets what  *)
(* ReliableStream promises; above all, a client at rest stays at rest and   *)
(* loses nothing until an event is published or its connection goes.        *)
ImplementsStream == Stream!Spec
=============================================================================
