------------------------------ MODULE ChatStream ------------------------------
(***************************************************************************)
(* What a chat view shows of one agent session: the view's subscription and *)
(* scoped replay (electron/preload/api.ts), the gateway that answers them,  *)
(* the resume cursor they share a socket with, and the store that drops a   *)
(* row at or below the last one applied (agent-store/dedup.ts).             *)
(*                                                                         *)
(* Every view of the session in one renderer listens to one channel, so it  *)
(* gets what another view's subscription, another view's replay or the      *)
(* client's own recovery brings.  Subscribing, a whole replay, and handling *)
(* one envelope are each one synchronous stretch of code.  Text deltas have *)
(* no sequence number and are left out.  Nothing in production prunes the   *)
(* log.                                                                    *)
(***************************************************************************)
EXTENDS Integers, Sequences, FiniteSets

CONSTANTS MaxLog,       \* bound: rows logged
          MaxViews,     \* bound: times the chat is mounted
          MaxPanes,     \* bound: views mounted at once
          MaxCuts,      \* bound: sockets lost
          MaxRestarts   \* bound: server restarts

ASSUME ChatBounds ==
    /\ MaxLog \in Nat /\ MaxViews \in Nat /\ MaxPanes \in Nat
    /\ MaxCuts \in Nat /\ MaxRestarts \in Nat

Views == 1 .. MaxViews
None == 0

VARIABLES own,        \* own[s]: is row s of this session?
          floor,      \* the last row of the boots before this one
          boot,       \* the epoch the session store acknowledges
          agree,      \* the log's own epoch is the same
          socket,     \* which socket this is: one more after each loss
          subs,       \* views the server has a subscription of, on this socket
          up, down,   \* what is on the socket, either way
          client,     \* the FSM's state and the transport's cursor
          pending,    \* ClientConnection.pendingSend
          view,       \* per mount: subscriptionId, replayUpToSeq, replayBuffer, the store
          cuts,       \* for the bound
          early,      \* history: views a row overtook their replay in
          leaked,     \* history: views disposed before their acknowledgement
          dropped,    \* history: rows lost to backpressure
          skipped     \* history: a socket was lost with the cursor ahead of a replay

log == <<own, floor, boot, agree>>
wire == <<socket, subs, up, down>>
history == <<early, leaked, dropped, skipped>>
vars == <<log, wire, client, pending, view, cuts, history>>

Rows == {s \in DOMAIN own : own[s]}
Mounted == {m \in Views : view[m].is = "mounted"}
Applied(v) == CHOOSE s \in v.shown \cup {0} : \A r \in v.shown : r <= s

Init ==
    /\ own = <<>> /\ floor = 0 /\ boot = 1 /\ agree = TRUE
    /\ socket = 1 /\ subs = {} /\ up = <<>> /\ down = <<>>
    /\ client = [state |-> "away", seq |-> 0, epoch |-> None, asked |-> 0]
    /\ pending = <<>>
    /\ view = [m \in Views |-> [is |-> "none", sub |-> None, upTo |-> None, replaying |-> FALSE,
                                buffer |-> {}, shown |-> {}, owed |-> 0]]
    /\ cuts = 0
    /\ early = {} /\ leaked = {} /\ dropped = {} /\ skipped = FALSE

-----------------------------------------------------------------------------
(* The server. *)

Row(s, via, m) == [type |-> IF own[s] THEN "row" ELSE "other", seq |-> s, via |-> via, view |-> m]

(* A row of this session goes to each of its subscriptions, one of another  *)
(* resource to the firehose.  A socket over its threshold gets neither.     *)
Publish(mine) ==
    LET s == Len(own) + 1
        n == IF mine THEN Cardinality(subs) ELSE IF client.state = "away" THEN 0 ELSE 1
        copy == [type |-> IF mine THEN "row" ELSE "other", seq |-> s, via |-> "live", view |-> None]
    IN /\ s <= MaxLog /\ own' = Append(own, mine)
       /\ \E k \in 0 .. n :
             /\ k < n => down # <<>> \/ k > 0
             /\ down' = down \o [i \in 1 .. k |-> copy]
             /\ dropped' = IF k = 0 /\ n > 0 THEN dropped \cup {s} ELSE dropped
       /\ UNCHANGED <<floor, boot, agree, socket, subs, up, client, pending, view, cuts, early,
                      leaked, skipped>>

Received(type) == up # <<>> /\ Head(up).type = type /\ up' = Tail(up)

(* A set of numbers, listed in their order; there is one such listing. *)
Ascending(S) ==
    {q \in [1 .. Cardinality(S) -> S] : \A i, j \in DOMAIN q : i < j => q[i] < q[j]}

(* The rows of this boot after a cursor, or none if the epoch is not the    *)
(* log's; in both cases an end.                                            *)
Later(since) == {s \in DOMAIN own : s > since /\ s > floor}

ServerReplay ==
    /\ Received("replay-from")
    /\ IF agree
       THEN \E page \in Ascending(Later(Head(up).since)) :
               down' = down \o [i \in DOMAIN page |-> Row(page[i], "replay", None)]
                            \o <<[type |-> "complete"]>>
       ELSE down' = Append(down, [type |-> "gone"])
    /\ UNCHANGED <<log, socket, subs, client, pending, view, cuts, history>>

(* A second subscribe with the same request id finds the first one's        *)
(* subscription, and is acknowledged all the same.                         *)
Subscribe ==
    LET m == Head(up).view
    IN /\ Received("subscribe")
       /\ subs' = subs \cup {m}
       /\ down' = Append(down, [type |-> "subscribed", view |-> m, seq |-> Len(own),
                                sub |-> socket])
       /\ UNCHANGED <<log, socket, client, pending, view, cuts, history>>

(* A subscription of a socket that is gone is not found. *)
Unsubscribe ==
    /\ Received("unsubscribe")
    /\ subs' = IF Head(up).sub = socket THEN subs \ {Head(up).view} ELSE subs
    /\ UNCHANGED <<log, socket, down, client, pending, view, cuts, history>>

(* With upToSeq the replay is of the log's epoch, also from a cursor of 0. *)
Scoped(upTo) == {s \in Rows : s > floor /\ s <= upTo /\ agree}

ReplayScoped ==
    LET m == Head(up).view
    IN /\ Received("replay-from-scoped")
       /\ \E page \in Ascending(Scoped(Head(up).upTo)) :
             down' = down \o [i \in DOMAIN page |-> Row(page[i], "scoped", m)]
                          \o <<[type |-> "done", view |-> m]>>
       /\ UNCHANGED <<log, socket, subs, client, pending, view, cuts, history>>

-----------------------------------------------------------------------------
(* The socket. *)

SocketGone ==
    /\ socket' = socket + 1 /\ subs' = {} /\ up' = <<>> /\ down' = <<>>
    /\ client' = [client EXCEPT !.state = "away"]
    /\ skipped' = (skipped \/ (client.state = "recovering" /\ client.seq > client.asked))

(* A new socket, up to the server's answer to hello; nothing of the two     *)
(* sides is read in between.                                               *)
Connect ==
    /\ client.state = "away"
    /\ client' = [client EXCEPT !.state = "connecting"]
    /\ down' = <<[type |-> "ack", epoch |-> boot]>>
    /\ UNCHANGED <<log, socket, subs, up, pending, view, cuts, history>>

Cut ==
    /\ client.state # "away" /\ cuts < MaxCuts /\ cuts' = cuts + 1
    /\ SocketGone
    /\ UNCHANGED <<log, pending, view, early, leaked, dropped>>

(* The next boot bumps two epochs; something may set them apart             *)
(* (EventStream).                                                          *)
Restart ==
    /\ boot <= MaxRestarts /\ boot' = boot + 1
    /\ floor' = Len(own) /\ agree' \in {agree, FALSE}
    /\ SocketGone
    /\ UNCHANGED <<own, pending, view, cuts, early, leaked, dropped>>

-----------------------------------------------------------------------------
(* The client: its recovery. *)

Delivered(type) == down # <<>> /\ Head(down).type = type /\ down' = Tail(down)

Request(type, m) == [type |-> type, view |-> m]

(* waitForReady resolves once, at the first connection. *)
EverReady == client.epoch # None

(* pendingSend goes out first; then every view forgets its subscription and *)
(* subscribes, and those that waited for the first connection do so twice.  *)
Greeting(mounted) ==
    LET subscribes == [i \in DOMAIN mounted |-> Request("subscribe", mounted[i])]
    IN pending \o subscribes \o (IF EverReady THEN <<>> ELSE subscribes)

Subscribes(sent, m) == {i \in DOMAIN sent : sent[i] = Request("subscribe", m)}

EnterReady(seq) ==
    \E mounted \in Ascending(Mounted) :
        LET sent == Greeting(mounted)
        IN /\ up' = up \o sent /\ pending' = <<>>
           /\ client' = [state |-> "connected", seq |-> seq, epoch |-> boot, asked |-> 0]
           /\ view' = [m \in Views |->
                         IF m \in Mounted
                         THEN [view[m] EXCEPT !.sub = None, !.upTo = None, !.replaying = FALSE,
                                              !.buffer = {},
                                              !.owed = Cardinality(Subscribes(sent, m))]
                         ELSE view[m]]

ClientAck ==
    /\ Delivered("ack")
    /\ IF client.epoch \in {None, Head(down).epoch}
       THEN /\ client' = [client EXCEPT !.state = "recovering", !.asked = client.seq]
            /\ up' = Append(up, [type |-> "replay-from", since |-> client.seq])
            /\ UNCHANGED <<pending, view>>
       ELSE EnterReady(0)
    /\ UNCHANGED <<log, socket, subs, cuts, history>>

ClientComplete ==
    /\ Delivered("complete") /\ EnterReady(client.seq)
    /\ UNCHANGED <<log, socket, subs, cuts, history>>

ClientGone ==
    /\ Delivered("gone") /\ EnterReady(0)
    /\ UNCHANGED <<log, socket, subs, cuts, history>>

Moved(s) == [client EXCEPT !.seq = IF s > @ THEN s ELSE @]

ClientOther ==
    /\ Delivered("other") /\ client' = Moved(Head(down).seq)
    /\ UNCHANGED <<log, socket, subs, up, pending, view, cuts, history>>

-----------------------------------------------------------------------------
(* The views. *)

(* ClientConnection.send. *)
Sends(frames) ==
    IF client.state = "connected"
    THEN up' = up \o frames /\ UNCHANGED pending
    ELSE pending' = pending \o frames /\ UNCHANGED up

(* A fresh store, so replayFromSeq is 0.  It subscribes at once, or when    *)
(* the first connection is made.                                           *)
Mount(m) ==
    /\ view[m].is = "none" /\ Cardinality(Mounted) < MaxPanes
    /\ \A k \in Views : k < m => view[k].is # "none"
    /\ view' = [view EXCEPT ![m].is = "mounted", ![m].owed = 1]
    /\ IF EverReady THEN Sends(<<Request("subscribe", m)>>) ELSE UNCHANGED <<up, pending>>
    /\ UNCHANGED <<log, socket, subs, down, client, cuts, history>>

(* Mutant: a disposed view leaves its subscription behind. *)
KeepsSubscription(m) == UNCHANGED <<up, pending>>

Withdraws(m) ==
    IF view[m].sub # None
    THEN Sends(<<[type |-> "unsubscribe", view |-> m, sub |-> view[m].sub]>>)
    ELSE UNCHANGED <<up, pending>>

Dispose(m) ==
    LET v == view[m]
    IN /\ v.is = "mounted"
       /\ view' = [view EXCEPT ![m].is = "disposed", ![m].buffer = {}, ![m].replaying = FALSE,
                               ![m].shown = {}, ![m].owed = 0]
       /\ Withdraws(m)
       /\ leaked' = IF v.owed > 0 /\ v.sub # socket THEN leaked \cup {m} ELSE leaked
       /\ UNCHANGED <<log, socket, subs, down, client, cuts, early, dropped, skipped>>

(* The acknowledgement starts a replay up to the snapshot it names. *)
Subscribed ==
    LET ack == Head(down) m == ack.view
    IN /\ Delivered("subscribed")
       /\ IF m \in Mounted
          THEN /\ view' = [view EXCEPT ![m].sub = ack.sub, ![m].upTo = ack.seq,
                                       ![m].replaying = TRUE, ![m].buffer = {}]
               /\ Sends(<<[type |-> "replay-from-scoped", view |-> m, upTo |-> ack.seq]>>)
          ELSE UNCHANGED <<view, up, pending>>
       /\ UNCHANGED <<log, socket, subs, client, cuts, history>>

(* Mutant: live rows are not held back. *)
HoldsNothing(v, s) == FALSE

Holds(v, s) == v.replaying /\ s > v.upTo

(* applyEnvelope: nothing at or below the last applied row. *)
Applies(v, S) == v.shown \cup {s \in S : s > Applied(v)}

(* A row of S is applied over rows of this boot that are not yet shown. *)
Jumps(v, S) == \E r \in S, s \in Rows : s > floor /\ Applied(v) < s /\ s < r

(* History: a row that is not of the view's own replay is applied before    *)
(* that replay has ended.                                                  *)
Overtakes(v, m, row) ==
    /\ v.owed > 0 /\ row.view # m /\ ~Holds(v, row.seq)
    /\ (row.via = "live" => ~v.replaying)
    /\ Jumps(v, {row.seq})

Listeners == Mounted

ClientRow ==
    LET row == Head(down)
    IN /\ Delivered("row") /\ client' = Moved(row.seq)
       /\ view' = [m \in Views |->
                     IF m \notin Listeners THEN view[m]
                     ELSE IF Holds(view[m], row.seq)
                     THEN [view[m] EXCEPT !.buffer = @ \cup {row.seq}]
                     ELSE [view[m] EXCEPT !.shown = Applies(view[m], {row.seq})]]
       /\ early' = early \cup {m \in Listeners : Overtakes(view[m], m, row)}
       /\ UNCHANGED <<log, socket, subs, up, pending, cuts, leaked, dropped, skipped>>

(* finishReplay, also if the replay was refused: the buffered rows, in the  *)
(* order of their numbers.                                                 *)
Done ==
    LET m == Head(down).view
    IN /\ Delivered("done")
       /\ view' = IF m \in Mounted
                  THEN [view EXCEPT ![m].shown = Applies(view[m], view[m].buffer), ![m].buffer = {},
                                    ![m].replaying = FALSE, ![m].upTo = None, ![m].owed = @ - 1]
                  ELSE view
       /\ early' = IF view[m].owed > 1 /\ Jumps(view[m], view[m].buffer)
                   THEN early \cup {m} ELSE early
       /\ UNCHANGED <<log, socket, subs, up, client, pending, cuts, leaked, dropped, skipped>>

-----------------------------------------------------------------------------
ServerStep ==
    ServerReplay \/ Subscribe \/ Unsubscribe \/ ReplayScoped

ClientStep ==
    ClientAck \/ ClientComplete \/ ClientGone \/ ClientOther \/ Subscribed \/ ClientRow \/ Done

Next ==
    \/ ServerStep \/ ClientStep \/ Connect \/ Cut \/ Restart
    \/ \E mine \in BOOLEAN : Publish(mine)
    \/ \E m \in Views : Mount(m) \/ Dispose(m)

Spec == Init /\ [][Next]_vars
-----------------------------------------------------------------------------
(* Properties. *)

(* Types of the state; a disposed view holds nothing. *)
TypeOK ==
    /\ own \in Seq(BOOLEAN) /\ Len(own) <= MaxLog /\ floor \in 0 .. Len(own)
    /\ boot \in 1 .. MaxRestarts + 1 /\ agree \in BOOLEAN
    /\ socket \in 1 .. MaxCuts + MaxRestarts + 1 /\ subs \subseteq Views
    /\ client \in [state : {"away", "connecting", "recovering", "connected"},
                   seq : 0 .. Len(own), epoch : 0 .. boot, asked : 0 .. Len(own)]
    /\ view \in [Views -> [is : {"none", "mounted", "disposed"}, sub : 0 .. socket,
                           upTo : 0 .. Len(own), replaying : BOOLEAN,
                           buffer : SUBSET DOMAIN own, shown : SUBSET Rows, owed : 0 .. 3]]
    /\ cuts \in 0 .. MaxCuts
    /\ early \subseteq Views /\ leaked \subseteq Views /\ dropped \subseteq DOMAIN own
    /\ skipped \in BOOLEAN
    /\ \A m \in Views \ Mounted : view[m].buffer = {} /\ view[m].shown = {}

(* The server keeps no subscription that no view wants: its view is         *)
(* mounted, or its unsubscribe is on the way, or the view was disposed      *)
(* before it was told the subscription's id (api.ts sends no unsubscribe    *)
(* then).                                                                  *)
SubscriptionsOwned ==
    \A m \in subs :
        \/ m \in Mounted \cup leaked
        \/ \E i \in DOMAIN up : up[i] = [type |-> "unsubscribe", view |-> m, sub |-> socket]

(* Nothing is on the way to the view, and nothing has cost it a row. *)
Settled(m) ==
    /\ m \in Mounted /\ client.state = "connected" /\ up = <<>> /\ down = <<>>
    /\ m \notin early /\ dropped = {} /\ ~skipped /\ agree

(* "the subscribe-first-then-replay handshake fuses into the store without  *)
(* gaps or duplicates" (dedup.ts): with nothing on its way, a view shows    *)
(* every row of this boot, unless rows were dropped under backpressure, a   *)
(* row overtook the view's replay, a socket was lost in the middle of a     *)
(* recovery, or the two epochs differ.                                     *)
QuietIsShown ==
    \A m \in Views : Settled(m) => {s \in Rows : s > floor} \subseteq view[m].shown

(* "Used on AgentSessionContainer mount so navigating away and back still   *)
(* shows the full turn history" (api.ts): what the log holds of a session   *)
(* is shown, whichever boot logged it.                                     *)
ShowsHistory == \A m \in Views : Settled(m) => Rows \subseteq view[m].shown
=============================================================================
