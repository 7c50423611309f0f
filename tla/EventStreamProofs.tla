------------------------- MODULE EventStreamProofs --------------------------
(***************************************************************************)
(* The seam between replay and firehose, for every bound on events, server *)
(* starts and lost sockets.                                                *)
(*                                                                         *)
(* A client that is connected and quiet has every event; to see that none  *)
(* was lost on the way one has to say where it was all the time.  The      *)
(* invariant says it of each event that is not accounted for, by how far   *)
(* the client has come: past its cursor while it is away; past the cursor  *)
(* of the replay it asked for; and from the end of the replay on, on the   *)
(* socket.  It also says why a replay finds it, which sends the rows of    *)
(* one epoch only: an event of an earlier epoch makes the client notice a  *)
(* new epoch and resynchronise.                                            *)
(***************************************************************************)
EXTENDS EventStream, SequenceTheorems, FiniteSetTheorems, TLAPS

Owed == Seqs \ (covered \cup dropped \cup skipped)

NoAck(q) == \A m \in Range(q) : m.type # "ack"

OnlyEvents(q) == \A m \in Range(q) : m.type = "event"

(* One socket: its two ends agree on how far the handshake has come, and   *)
(* it lives no longer than the server's process.                           *)
Handshake ==
    /\ client.state = "away" <=> conn = "none"
    /\ conn = "none" => up = <<>> /\ down = <<>>
    /\ conn # "none" => boot = "up"
    /\ conn = "pending-hello" =>
         client.state = "connecting" /\ up = <<[type |-> "hello"]>> /\ down = <<>>
    /\ conn = "ready" /\ client.state = "connecting" =>
         /\ up = <<>> /\ down # <<>> /\ OnlyEvents(Tail(down))
         /\ Head(down).type = "ack" /\ Head(down).epoch = sessionEpoch
    /\ client.state # "connecting" => NoAck(down)

(* What is on the socket is still true of the log and of the epochs. *)
Truthful ==
    /\ \A m \in Range(down) : /\ m.type = "event" => m.seq \in Seqs
                              /\ m.type = "gone" => sessionEpoch # identity.epoch
    /\ \A m \in Range(up) : m.type = "replay-from" => m.since <= Len(log) /\ m.epoch = sessionEpoch

(* The client is not ahead of the server, neither in events nor in epochs. *)
Behindhand ==
    /\ client.seq <= Len(log) /\ client.epoch <= sessionEpoch
    /\ client.state = "recovering" => client.ack = sessionEpoch
    /\ client.state \in {"recovering", "connected"} => client.epoch \in {Unknown, sessionEpoch}

(* What a client that has not got its replay yet is owed lies past its     *)
(* cursor, and past the cursor of its request.                             *)
Ahead ==
    \A s \in Owed :
        /\ client.state \in {"away", "connecting"} => s > client.seq
        /\ \A m \in Range(up) : m.type = "replay-from" => s > m.since

(* Once the end of the replay is under way, all that is owed is, too. *)
Coming ==
    (client.state = "connected" \/
     (client.state = "recovering" /\ \E m \in Range(down) : m.type = "complete"))
    => \A s \in Owed : Event(s) \in Range(down)

(* A replay for the current epoch finds what is owed, unless the client    *)
(* will notice that the epoch is another.                                  *)
Findable ==
    \A s \in Owed :
        /\ boot = "up" => \/ log[s] = identity.epoch
                          \/ sessionEpoch # identity.epoch
                          \/ client.epoch \notin {Unknown, sessionEpoch}
        /\ boot # "up" => client.epoch # Unknown

ClientRecord ==
    [state : {"away", "connecting", "recovering", "connected"}, seq : Nat, epoch : Nat, ack : Nat]

Sound == Handshake /\ Truthful /\ Behindhand
NothingLost == Ahead /\ Coming /\ Findable
IInv == TypeOK /\ Sound /\ NothingLost

-----------------------------------------------------------------------------
(* What is on a socket after a message was sent or received. *)

LEMMA RangeAppend ==
    ASSUME NEW S, NEW q \in Seq(S), NEW m \in S
    PROVE  Append(q, m) \in Seq(S) /\ Range(Append(q, m)) = Range(q) \cup {m}
<1>1. Append(q, m) = q \o <<m>> /\ <<m>> \in Seq(S) OBVIOUS
<1>2. Range(<<m>>) = {m} BY DEF Range
<1>3. Range(q \o <<m>>) = Range(q) \cup Range(<<m>>)
  <2>1. ASSUME NEW r \in Seq(S) PROVE Range(q \o r) = Range(q) \cup Range(r)
    BY RangeConcatenation
  <2> QED BY <1>1, <2>1
<1>4. Append(q, m) \in Seq(S) OBVIOUS
<1> QED BY <1>1, <1>2, <1>3, <1>4

LEMMA DownAppend ==
    ASSUME NEW q \in Seq(Envelopes), NEW m \in Envelopes
    PROVE  Append(q, m) \in Seq(Envelopes) /\ Range(Append(q, m)) = Range(q) \cup {m}
  BY RangeAppend

LEMMA DownConcat ==
    ASSUME NEW q \in Seq(Envelopes), NEW r \in Seq(Envelopes)
    PROVE  q \o r \in Seq(Envelopes) /\ Range(q \o r) = Range(q) \cup Range(r)
  BY RangeConcatenation

LEMMA RangeTail ==
    ASSUME NEW S, NEW q \in Seq(S), q # <<>>
    PROVE  /\ Tail(q) \in Seq(S) /\ Head(q) \in S
           /\ Range(q) = {Head(q)} \cup Range(Tail(q))
<1>1. DOMAIN q = 1 .. Len(q) /\ DOMAIN Tail(q) = 1 .. Len(q) - 1 /\ Len(q) \in Nat \ {0}
  OBVIOUS
<1>2. Head(q) = q[1] /\ \A i \in DOMAIN Tail(q) : Tail(q)[i] = q[i + 1] OBVIOUS
<1>3. \A i \in DOMAIN q : i = 1 \/ (i - 1 \in DOMAIN Tail(q) /\ q[i] = Tail(q)[i - 1])
  BY <1>1, <1>2
<1>4. \A x \in Range(q) : x \in {Head(q)} \cup Range(Tail(q)) BY <1>2, <1>3 DEF Range
<1>5. \A x \in Range(Tail(q)) : x \in Range(q) BY <1>1, <1>2 DEF Range
<1>6. Head(q) \in Range(q) BY <1>1, <1>2 DEF Range
<1> QED BY <1>4, <1>5, <1>6

LEMMA RangeEmpty == Range(<<>>) = {}
  BY DEF Range

LEMMA EmptyType == \A S : <<>> \in Seq(S)
  OBVIOUS

LEMMA EventType ==
    \A s \in Nat : Event(s) \in Envelopes /\ Event(s).type = "event" /\ Event(s).seq = s
  BY DEF Event, Envelopes

LEMMA AckType ==
    ASSUME NEW e \in Nat
    PROVE  [type |-> "ack", epoch |-> e] \in Envelopes
  BY DEF Envelopes

(* The rows of a replay are listed completely, and nothing else is. *)
LEMMA AscendingLists ==
    ASSUME NEW rows \in SUBSET Nat, IsFiniteSet(rows), NEW q \in Ascending(rows)
    PROVE  q \in Seq(rows) /\ Range(q) = rows
<1>1. Cardinality(rows) \in Nat BY FS_CardinalityType
<1>2. q \in Seq(rows) BY <1>1 DEF Ascending
<1>3. /\ IsFiniteSet(1 .. Cardinality(rows))
      /\ Cardinality(1 .. Cardinality(rows)) = Cardinality(rows)
  BY <1>1, FS_Interval
<1>4. \A i, j \in DOMAIN q : i # j => q[i] # q[j]
  <2> SUFFICES ASSUME NEW i \in DOMAIN q, NEW j \in DOMAIN q, i < j PROVE q[i] # q[j]
    BY <1>1 DEF Ascending
  <2>1. q[i] < q[j] /\ q[i] \in Nat /\ q[j] \in Nat BY DEF Ascending
  <2> QED BY <2>1
<1>5. q \in Injection(1 .. Cardinality(rows), rows)
  BY <1>4 DEF Ascending, Injection, IsInjective
<1>6. q \in Surjection(1 .. Cardinality(rows), rows) BY <1>3, <1>5, FS_Injection
<1>7. Range(q) = rows BY <1>6 DEF Surjection, Range, Ascending
<1> QED BY <1>2, <1>7

-----------------------------------------------------------------------------
(* Steps that leave no socket. *)

LEMMA Offline ==
    ASSUME IInv, boot # "up"
    PROVE  /\ conn = "none" /\ up = <<>> /\ down = <<>> /\ client.state = "away"
           /\ \A s \in Owed : s > client.seq /\ client.epoch # Unknown
  BY DEF IInv, Sound, Handshake, NothingLost, Ahead, Findable

LEMMA ClientType == IInv => client \in ClientRecord
  BY DEF IInv, TypeOK, ClientRecord

LEMMA AwayKeeps ==
    ASSUME TypeOK', Ahead', Findable',
           conn' = "none", up' = <<>>, down' = <<>>, client'.state = "away",
           client'.seq <= Len(log'), client'.epoch <= sessionEpoch'
    PROVE  IInv'
<1>1. Range(up') = {} /\ Range(down') = {} BY RangeEmpty
<1> QED BY <1>1 DEF IInv, Sound, NothingLost, Handshake, Truthful, Behindhand, Coming, NoAck

LEMMA Initially == Init => IInv
<1> SUFFICES ASSUME Init PROVE IInv OBVIOUS
<1>1. TypeOK BY StreamBounds DEF Init, TypeOK, Seqs, Unknown
<1>2. Owed = {} BY DEF Init, Owed, Seqs
<1>3. Range(up) = {} /\ Range(down) = {} BY RangeEmpty DEF Init
<1>4. Ahead /\ Coming /\ Findable BY <1>2 DEF Ahead, Coming, Findable
<1>5. Handshake /\ Truthful BY <1>3 DEF Init, Handshake, Truthful, NoAck
<1>6. Behindhand BY DEF Init, Behindhand, Unknown
<1> QED BY <1>1, <1>4, <1>5, <1>6 DEF IInv, Sound, NothingLost

LEMMA BootKeeps == IInv /\ (BootStep \/ ClearIdentity) => IInv'
<1> SUFFICES ASSUME IInv, BootStep \/ ClearIdentity PROVE IInv' OBVIOUS
<1>1. boot # "up" BY DEF BootStep, BootEpoch, BootCrc, BootSession, ClearIdentity
<1>2. /\ conn = "none" /\ up = <<>> /\ down = <<>> /\ client.state = "away"
      /\ \A s \in Owed : s > client.seq /\ client.epoch # Unknown
  BY <1>1, Offline
<1>3. /\ UNCHANGED <<log, wire, client, cuts, history>>
      /\ sessionEpoch' = sessionEpoch \/ (boot' = "up" /\ sessionEpoch' = sessionEpoch + 1)
      /\ boot' = "up" => sessionEpoch' = sessionEpoch + 1
  BY DEF BootStep, BootEpoch, BootCrc, BootSession, ClearIdentity
<1>4. /\ log' = log /\ conn' = conn /\ up' = up /\ down' = down /\ client' = client
      /\ covered' = covered /\ dropped' = dropped /\ skipped' = skipped
  BY <1>3 DEF wire, history
<1>5. TypeOK'
  <2>1. /\ boot' \in {"down", "epoch written", "identified", "up", "refused"}
        /\ identity' \in [epoch : Nat, crc : Nat] /\ sessionEpoch' \in Nat
        /\ boots' \in 0 .. MaxBoots
    <3>1. identity \in [epoch : Nat, crc : Nat] /\ sessionEpoch \in Nat /\ boots \in 0 .. MaxBoots
      BY DEF IInv, TypeOK
    <3>2. CASE BootEpoch
      <4>1. boots < MaxBoots /\ boots' = boots + 1 BY <3>2 DEF BootEpoch
      <4>2. boots' \in 0 .. MaxBoots BY <3>1, <4>1, StreamBounds
      <4>3. \/ identity' = [identity EXCEPT !.epoch = IF identity.crc = 0 THEN 1 ELSE @ + 1]
            \/ identity' = identity
        BY <3>2 DEF BootEpoch
      <4>4. identity' \in [epoch : Nat, crc : Nat] BY <3>1, <4>3
      <4>5. boot' \in {"epoch written", "refused"} /\ sessionEpoch' = sessionEpoch
        BY <3>2 DEF BootEpoch
      <4> QED BY <3>1, <4>2, <4>4, <4>5
    <3>3. CASE BootCrc BY <3>1, <3>3 DEF BootCrc
    <3>4. CASE BootSession BY <3>1, <3>4 DEF BootSession
    <3>5. CASE ClearIdentity BY <3>1, <3>5 DEF ClearIdentity
    <3> QED BY <3>2, <3>3, <3>4, <3>5 DEF BootStep
  <2> QED BY <1>3, <1>4, <2>1 DEF IInv, TypeOK, Seqs
<1>6. Owed' = Owed BY <1>4 DEF Owed, Seqs
<1>7. Ahead' BY <1>2, <1>4, <1>6, RangeEmpty DEF Ahead
<1>8. client.epoch <= sessionEpoch /\ client.epoch \in Nat /\ sessionEpoch \in Nat
      /\ client.seq <= Len(log)
  BY DEF IInv, TypeOK, Sound, Behindhand
<1>9. boot' = "up" => client'.epoch # sessionEpoch' BY <1>3, <1>4, <1>8
<1>10. Findable' BY <1>2, <1>4, <1>6, <1>9 DEF Findable
<1>11. client'.epoch <= sessionEpoch' BY <1>3, <1>4, <1>8
<1> QED BY <1>2, <1>4, <1>5, <1>7, <1>8, <1>10, <1>11, AwayKeeps

(* A lost socket leaves the client with a cursor it knows nothing about    *)
(* below; what was owed there is the history's skipped.                    *)
LEMMA CutKeeps == IInv /\ Cut => IInv'
<1> SUFFICES ASSUME IInv, Cut PROVE IInv' OBVIOUS
<1>1. /\ log' = log /\ boot' = boot /\ identity' = identity /\ sessionEpoch' = sessionEpoch
      /\ conn' = "none" /\ up' = <<>> /\ down' = <<>> /\ client' = [client EXCEPT !.state = "away"]
      /\ covered' = covered /\ dropped' = dropped /\ skipped' = skipped \cup Behind
      /\ boots' = boots /\ cuts' = cuts + 1 /\ cuts < MaxCuts
  BY DEF Cut, SocketGone, server
<1>2. Behind \subseteq Seqs BY DEF Behind, Missing
<1>3. /\ client' \in ClientRecord
      /\ client'.state = "away" /\ client'.seq = client.seq /\ client'.epoch = client.epoch
      /\ client.seq \in Nat /\ \A s \in Seqs : s \in Nat
  BY <1>1, ClientType DEF ClientRecord, Seqs
<1>4. cuts \in 0 .. MaxCuts BY DEF IInv, TypeOK
<1>5. cuts' \in 0 .. MaxCuts BY <1>1, <1>4, StreamBounds
<1>6. TypeOK' BY <1>1, <1>2, <1>3, <1>5, EmptyType DEF IInv, TypeOK, ClientRecord, Seqs
<1>7. \A s \in Owed' : s \in Owed /\ s > client.seq
  BY <1>1, <1>3 DEF Owed, Seqs, Behind, Missing
<1>8. Ahead' BY <1>1, <1>3, <1>7, RangeEmpty DEF Ahead
<1>9. Findable' BY <1>1, <1>3, <1>7 DEF IInv, NothingLost, Findable
<1>10. client.seq <= Len(log) /\ client.epoch <= sessionEpoch BY DEF IInv, Sound, Behindhand
<1> QED BY <1>1, <1>6, <1>3, <1>8, <1>9, <1>10, AwayKeeps

LEMMA CrashKeeps == IInv /\ Crash => IInv'
<1> SUFFICES ASSUME IInv, Crash PROVE IInv' OBVIOUS
<1>1. /\ log' = log /\ boot' = "down" /\ identity' = identity /\ sessionEpoch' = sessionEpoch
      /\ conn' = "none" /\ up' = <<>> /\ down' = <<>> /\ client' = [client EXCEPT !.state = "away"]
      /\ covered' = covered /\ dropped' = dropped
      /\ skipped' = skipped \cup (IF client.epoch = Unknown THEN Missing ELSE Behind)
      /\ boots' = boots /\ cuts' = cuts
  BY DEF Crash, SocketGone
<1>2. Behind \subseteq Seqs /\ Missing \subseteq Seqs BY DEF Behind, Missing
<1>3. /\ client' \in ClientRecord
      /\ client'.state = "away" /\ client'.seq = client.seq /\ client'.epoch = client.epoch
      /\ client.seq \in Nat /\ \A s \in Seqs : s \in Nat
  BY <1>1, ClientType DEF ClientRecord, Seqs
<1>4. TypeOK' BY <1>1, <1>2, <1>3, EmptyType DEF IInv, TypeOK, ClientRecord, Seqs
<1>5. \A s \in Owed' : s > client.seq /\ client.epoch # Unknown
  BY <1>1, <1>3 DEF Owed, Seqs, Behind, Missing
<1>6. Ahead' BY <1>1, <1>3, <1>5, RangeEmpty DEF Ahead
<1>7. Findable' BY <1>1, <1>3, <1>5 DEF Findable
<1>8. client.seq <= Len(log) /\ client.epoch <= sessionEpoch BY DEF IInv, Sound, Behindhand
<1> QED BY <1>1, <1>4, <1>3, <1>6, <1>7, <1>8, AwayKeeps

-----------------------------------------------------------------------------
(* Steps on a socket. *)

LEMMA Parts ==
    ASSUME IInv
    PROVE  /\ log \in Seq(Nat) /\ Len(log) <= MaxLog /\ Len(log) \in Nat
           /\ \A s \in Seqs : s \in Nat
           /\ boot \in {"down", "epoch written", "identified", "up", "refused"}
           /\ identity \in [epoch : Nat, crc : Nat] /\ sessionEpoch \in Nat
           /\ up \in Seq(Requests) /\ down \in Seq(Envelopes) /\ client \in ClientRecord
           /\ covered \subseteq Seqs /\ dropped \subseteq Seqs /\ skipped \subseteq Seqs
<1>1. TypeOK BY DEF IInv
<1>2. log \in Seq(Nat) BY <1>1 DEF TypeOK
<1>3. Len(log) \in Nat BY <1>2
<1>4. \A s \in Seqs : s \in Nat BY <1>3 DEF Seqs
<1> QED BY <1>1, <1>3, <1>4 DEF TypeOK, ClientRecord

(* Past its handshake a client has a socket that is ready, and the server  *)
(* is up.                                                                  *)
LEMMA Online ==
    ASSUME IInv
    PROVE  /\ client.state \in {"recovering", "connected"} => conn = "ready" /\ boot = "up"
           /\ down # <<>> => conn = "ready" /\ boot = "up" /\ client.state # "away"
           /\ client.state = "connecting" /\ down # <<>> => Head(down).type = "ack"
  BY DEF IInv, TypeOK, Sound, Handshake

LEMMA ConnectKeeps == IInv /\ Connect => IInv'
<1> SUFFICES ASSUME IInv, Connect PROVE IInv' OBVIOUS
<1> DEFINE hello == [type |-> "hello"]
<1>1. /\ client.state = "away" /\ boot = "up" /\ conn' = "pending-hello"
      /\ up' = <<hello>> /\ down' = <<>> /\ client' = [client EXCEPT !.state = "connecting"]
      /\ log' = log /\ boot' = boot /\ identity' = identity /\ sessionEpoch' = sessionEpoch
      /\ boots' = boots /\ cuts' = cuts
      /\ covered' = covered /\ dropped' = dropped /\ skipped' = skipped
  BY DEF Connect, server, history
<1>2. /\ client' \in ClientRecord /\ client'.state = "connecting"
      /\ client'.seq = client.seq /\ client'.epoch = client.epoch
  BY <1>1, ClientType DEF ClientRecord
<1>3. hello \in Requests BY DEF Requests
<1>4. <<hello>> \in Seq(Requests) /\ Range(up') = {hello} BY <1>1, <1>3 DEF Range
<1>5. TypeOK' BY <1>1, <1>2, <1>4, EmptyType DEF IInv, TypeOK, ClientRecord, Seqs
<1>6. Range(down') = {} BY <1>1, RangeEmpty
<1>7. Handshake' BY <1>1, <1>2, <1>6 DEF Handshake
<1>8. Truthful' BY <1>4, <1>6 DEF Truthful
<1>9. Behindhand' BY <1>1, <1>2 DEF IInv, Sound, Behindhand
<1>10. Owed' = Owed BY <1>1 DEF Owed, Seqs
<1>11. Ahead' BY <1>1, <1>2, <1>4, <1>10 DEF IInv, NothingLost, Ahead
<1>12. Coming' BY <1>2 DEF Coming
<1>13. Findable' BY <1>1, <1>2, <1>10 DEF IInv, NothingLost, Findable
<1> QED BY <1>5, <1>7, <1>8, <1>9, <1>11, <1>12, <1>13 DEF IInv, Sound, NothingLost

(* A published event is dropped, sent, or nobody is ready for it yet. *)
LEMMA PublishKeeps == IInv /\ Publish => IInv'
<1> SUFFICES ASSUME IInv, Publish PROVE IInv' OBVIOUS
<1> DEFINE n == Len(log) + 1
<1>1. /\ boot = "up" /\ Len(log) < MaxLog /\ log' = Append(log, identity.epoch)
      /\ boot' = boot /\ identity' = identity /\ sessionEpoch' = sessionEpoch /\ boots' = boots
      /\ conn' = conn /\ up' = up /\ client' = client /\ cuts' = cuts
      /\ covered' = covered /\ skipped' = skipped
  BY DEF Publish
<1>2. /\ down' = down \/ (conn = "ready" /\ down' = Append(down, Event(n)))
      /\ dropped' = dropped \/ dropped' = dropped \cup {n}
      /\ conn # "ready" \/ n \in dropped' \/ down' = Append(down, Event(n))
  BY DEF Publish, Broadcast
<1>3. /\ log \in Seq(Nat) /\ Len(log) \in Nat /\ down \in Seq(Envelopes)
       /\ client \in ClientRecord /\ \A s \in Seqs : s \in Nat
  BY Parts
<1>4. n \in Nat BY <1>3
<1>5. client.seq \in Nat BY <1>3 DEF ClientRecord
<1>6. n \in Nat /\ Event(n) \in Envelopes /\ Event(n).type = "event" /\ Event(n).seq = n
  BY <1>3, <1>4, EventType
<1>7. /\ log' \in Seq(Nat) /\ Len(log') = n /\ Len(log') <= MaxLog /\ Seqs' = Seqs \cup {n}
      /\ log'[n] = identity.epoch /\ \A s \in Seqs : log'[s] = log[s] /\ s < n
  <2>1. identity.epoch \in Nat BY Parts
  <2> QED BY <1>1, <2>1, Parts, StreamBounds DEF Seqs
<1>8. /\ down' \in Seq(Envelopes) /\ Range(down) \subseteq Range(down')
      /\ Range(down') \subseteq Range(down) \cup {Event(n)}
      /\ down' # down => Range(down') = Range(down) \cup {Event(n)}
  BY <1>2, <1>6, <1>3, <1>4, DownAppend
<1>9. TypeOK' BY <1>1, <1>2, <1>7, <1>8 DEF IInv, TypeOK, Requests
<1>10. conn = "ready" /\ client.state = "connecting" =>
         OnlyEvents(Tail(down')) /\ Head(down') = Head(down) /\ down' # <<>>
  <2> SUFFICES ASSUME conn = "ready", client.state = "connecting"
               PROVE OnlyEvents(Tail(down')) /\ Head(down') = Head(down) /\ down' # <<>>
    OBVIOUS
  <2>1. down # <<>> /\ OnlyEvents(Tail(down)) BY DEF IInv, Sound, Handshake
  <2>2. CASE down' = down BY <2>1, <2>2
  <2>3. CASE down' = Append(down, Event(n))
    <3>1. Tail(down') = Append(Tail(down), Event(n)) /\ Head(down') = Head(down)
          /\ Tail(down) \in Seq(Envelopes) /\ down' # <<>>
      BY <1>6, <2>1, <2>3, <1>3, <1>4
    <3>2. Range(Tail(down')) = Range(Tail(down)) \cup {Event(n)} BY <1>6, <3>1, DownAppend
    <3> QED BY <1>6, <2>1, <3>1, <3>2 DEF OnlyEvents
  <2> QED BY <1>2, <2>2, <2>3
<1>11. conn # "ready" => down' = down BY <1>2
<1>12. Handshake'
  <2>1. client.state # "connecting" => NoAck(down)
    BY DEF IInv, Sound, Handshake
  <2>2. client.state # "connecting" => NoAck(down') BY <1>6, <1>8, <2>1 DEF NoAck
  <2>3. Handshake BY DEF IInv, Sound
  <2> QED BY <1>1, <1>10, <1>11, <2>2, <2>3 DEF Handshake
<1>13. Truthful'
  <2>1. Truthful /\ Len(log) <= Len(log') BY <1>6, <1>7, <1>3, <1>4 DEF IInv, Sound
  <2>2. \A m \in Range(down') : (m.type = "event" => m.seq \in Seqs')
                                /\ (m.type = "gone" => sessionEpoch # identity.epoch)
    BY <1>6, <1>7, <1>8, <2>1 DEF Truthful
  <2>3. \A m \in Range(up) :
          m.type = "replay-from" => m.since <= Len(log') /\ m.epoch = sessionEpoch
    <3> SUFFICES ASSUME NEW m \in Range(up), m.type = "replay-from" PROVE m.since <= Len(log')
      BY <2>1 DEF Truthful
    <3>1. m \in Requests BY Parts, RangeOfSeq
    <3>2. m.since \in Nat BY <3>1 DEF Requests
    <3>3. m.since <= Len(log) BY <2>1 DEF Truthful
    <3> QED BY <1>6, <1>7, <1>3, <1>4, <3>2, <3>3
  <2> QED BY <1>1, <2>2, <2>3 DEF Truthful
<1>14. client.seq \in Nat /\ client.seq <= Len(log) /\ client.seq < n
  BY <1>3, <1>4, <1>5 DEF IInv, Sound, Behindhand
<1>15. Behindhand' BY <1>1, <1>7, <1>14, Parts DEF IInv, Sound, Behindhand
<1>16. \A s \in Owed' : s \in Owed \/ s = n BY <1>1, <1>2, <1>7 DEF Owed
<1>17. Ahead'
  <2>1. \A m \in Range(up) : m.type = "replay-from" => n > m.since
    <3> SUFFICES ASSUME NEW m \in Range(up), m.type = "replay-from" PROVE n > m.since
      OBVIOUS
    <3>1. m \in Requests BY Parts, RangeOfSeq
    <3>2. m.since \in Nat BY <3>1 DEF Requests
    <3>3. m.since <= Len(log) BY DEF IInv, Sound, Truthful
    <3> QED BY <1>3, <1>4, <3>2, <3>3
  <2> QED BY <1>1, <1>14, <1>16, <2>1 DEF IInv, NothingLost, Ahead
<1>18. Coming'
  <2> SUFFICES ASSUME \/ client.state = "connected"
                      \/ client.state = "recovering" /\ \E m \in Range(down') : m.type = "complete",
                      NEW s \in Owed'
               PROVE  Event(s) \in Range(down')
    BY <1>1 DEF Coming
  <2>1. client.state = "recovering" => \E m \in Range(down) : m.type = "complete"
    BY <1>6, <1>8
  <2>2. conn = "ready" BY Online
  <2>3. CASE s \in Owed BY <1>8, <2>1, <2>3 DEF IInv, NothingLost, Coming
  <2>4. CASE s \notin Owed
    <3>1. s = n /\ n \notin dropped' BY <1>16, <2>4 DEF Owed
    <3>2. down' = Append(down, Event(n)) BY <1>2, <2>2, <3>1
    <3> QED BY <1>6, <3>1, <3>2, <1>3, <1>4, DownAppend
  <2> QED BY <2>3, <2>4
<1>19. Findable' BY <1>1, <1>7, <1>16 DEF IInv, NothingLost, Findable, Owed
<1> QED BY <1>9, <1>12, <1>13, <1>15, <1>17, <1>18, <1>19 DEF IInv, Sound, NothingLost

LEMMA ServerHelloKeeps == IInv /\ ServerHello => IInv'
<1> SUFFICES ASSUME IInv, ServerHello PROVE IInv' OBVIOUS
<1> DEFINE ack == [type |-> "ack", epoch |-> sessionEpoch]
<1>1. /\ conn = "pending-hello" /\ conn' = "ready" /\ up' = Tail(up) /\ down' = Append(down, ack)
      /\ log' = log /\ boot' = boot /\ identity' = identity /\ sessionEpoch' = sessionEpoch
      /\ boots' = boots /\ cuts' = cuts /\ client' = client
      /\ covered' = covered /\ dropped' = dropped /\ skipped' = skipped
  BY DEF ServerHello, Received, server, history
<1>2. client.state = "connecting" /\ up = <<[type |-> "hello"]>> /\ down = <<>> /\ boot = "up"
  BY <1>1 DEF IInv, Sound, Handshake
<1>3. up' = <<>> BY <1>1, <1>2
<1>4. ack \in Envelopes BY Parts DEF Envelopes
<1>5. down' = <<ack>> /\ <<ack>> \in Seq(Envelopes) /\ Tail(<<ack>>) = <<>>
  BY <1>1, <1>2, <1>4
<1>6. Range(down') = {ack} BY <1>5 DEF Range
<1>7. TypeOK' BY <1>1, <1>3, <1>5, EmptyType DEF IInv, TypeOK, Seqs
<1>8. Handshake'
  <2>1. OnlyEvents(Tail(down')) BY <1>5, RangeEmpty DEF OnlyEvents
  <2>2. down' # <<>> /\ Head(down').type = "ack" /\ Head(down').epoch = sessionEpoch BY <1>5
  <2> QED BY <1>1, <1>2, <1>3, <2>1, <2>2 DEF Handshake
<1>9. Range(up') = {} BY <1>3, RangeEmpty
<1>10. Truthful' BY <1>6, <1>9 DEF Truthful
<1>11. Behindhand' BY <1>1 DEF IInv, Sound, Behindhand
<1>12. Owed' = Owed BY <1>1 DEF Owed, Seqs
<1>13. Ahead' BY <1>1, <1>9, <1>12 DEF IInv, NothingLost, Ahead
<1>14. Coming' BY <1>1, <1>2 DEF Coming
<1>15. Findable' BY <1>1, <1>12 DEF IInv, NothingLost, Findable
<1> QED BY <1>7, <1>8, <1>10, <1>11, <1>13, <1>14, <1>15 DEF IInv, Sound, NothingLost

(* A replay is refused, or lists the rows of the current epoch after the   *)
(* cursor that was sent.                                                   *)
LEMMA Answers ==
    ASSUME IInv, NEW since \in Nat, NEW epoch \in Nat, NEW answer \in ReplayOf(since, epoch)
    PROVE  /\ answer \in Seq(Envelopes)
           /\ \/ epoch # identity.epoch /\ Range(answer) = {[type |-> "gone"]}
              \/ /\ epoch = identity.epoch
                 /\ Range(answer) = {Event(s) : s \in RowsAfter(since)} \cup {[type |-> "complete"]}
<1>1. CASE epoch # identity.epoch
  <2>1. answer = <<[type |-> "gone"]>> BY <1>1 DEF ReplayOf, Gone
  <2>2. [type |-> "gone"] \in Envelopes BY DEF Envelopes
  <2> QED BY <1>1, <2>1, <2>2 DEF Range
<1>2. CASE epoch = identity.epoch
  <2>1. PICK q \in Ascending(RowsAfter(since)) : answer = Listing(q) BY <1>2 DEF ReplayOf
  <2>2. RowsAfter(since) \in SUBSET Nat /\ RowsAfter(since) \subseteq 1 .. Len(log)
    BY Parts DEF RowsAfter, Seqs
  <2>3. Len(log) \in Nat BY Parts
  <2>4. IsFiniteSet(1 .. Len(log)) BY <2>3, FS_Interval
  <2>5. IsFiniteSet(RowsAfter(since)) BY <2>2, <2>4, FS_Subset
  <2>6. q \in Seq(RowsAfter(since)) /\ Range(q) = RowsAfter(since)
    BY <2>2, <2>5, AscendingLists
  <2> DEFINE events == [i \in DOMAIN q |-> Event(q[i])]
             end == <<[type |-> "complete"]>>
  <2>7. \A i \in DOMAIN q : q[i] \in RowsAfter(since) BY <2>6
  <2>8. \A i \in DOMAIN q : Event(q[i]) \in Envelopes BY <2>2, <2>7, EventType
  <2>9. DOMAIN q = 1 .. Len(q) /\ Len(q) \in Nat BY <2>6
  <2>10. events \in Seq(Envelopes) BY <2>8, <2>9
  <2>11. [type |-> "complete"] \in Envelopes BY DEF Envelopes
  <2>12. end \in Seq(Envelopes) /\ Range(end) = {[type |-> "complete"]} BY <2>11 DEF Range
  <2>13. Range(events) = {Event(s) : s \in RowsAfter(since)} BY <2>6 DEF Range
  <2>14. answer = events \o end BY <2>1 DEF Listing
  <2>15. Range(events \o end) = Range(events) \cup Range(end)
    BY <2>10, <2>12, DownConcat
  <2>16. events \o end \in Seq(Envelopes) BY <2>10, <2>12
  <2> QED BY <1>2, <2>12, <2>13, <2>14, <2>15, <2>16
<1> QED BY <1>1, <1>2

LEMMA ServerReplayKeeps == IInv /\ ServerReplay => IInv'
<1> SUFFICES ASSUME IInv, ServerReplay PROVE IInv' OBVIOUS
<1>1. /\ up # <<>> /\ Head(up).type = "replay-from" /\ up' = Tail(up) /\ conn = "ready"
      /\ log' = log /\ boot' = boot /\ identity' = identity /\ sessionEpoch' = sessionEpoch
      /\ boots' = boots /\ cuts' = cuts /\ client' = client /\ conn' = conn
      /\ covered' = covered /\ dropped' = dropped /\ skipped' = skipped
  BY DEF ServerReplay, Received, server, history
<1>2. PICK answer \in ReplayOf(Head(up).since, Head(up).epoch) : down' = down \o answer
  BY DEF ServerReplay
<1>3. up \in Seq(Requests) /\ down \in Seq(Envelopes) BY Parts
<1>4. /\ up' \in Seq(Requests) /\ Head(up) \in Requests
      /\ Head(up) \in Range(up) /\ Range(up') \subseteq Range(up)
  BY <1>1, <1>3, RangeTail
<1>5. /\ Head(up).since \in Nat /\ Head(up).epoch \in Nat
      /\ Head(up).epoch = sessionEpoch
      /\ \A s \in Owed : s > Head(up).since
  BY <1>1, <1>4 DEF Requests, IInv, Sound, Truthful, NothingLost, Ahead
<1>6. /\ answer \in Seq(Envelopes)
      /\ \/ sessionEpoch # identity.epoch /\ Range(answer) = {[type |-> "gone"]}
         \/ /\ sessionEpoch = identity.epoch
            /\ Range(answer) = {Event(s) : s \in RowsAfter(Head(up).since)}
                                  \cup {[type |-> "complete"]}
  BY <1>5, Answers
<1>7. down' \in Seq(Envelopes) /\ Range(down') = Range(down) \cup Range(answer)
  BY <1>2, <1>3, <1>6, DownConcat
<1>8. client.state \in {"recovering", "connected"} /\ boot = "up"
  BY <1>1 DEF IInv, TypeOK, Sound, Handshake
<1>9. \A m \in Range(answer) :
        /\ m.type # "ack"
        /\ m.type = "event" => m.seq \in Seqs
        /\ m.type = "gone" => sessionEpoch # identity.epoch
  <2>1. \A s \in RowsAfter(Head(up).since) : s \in Seqs /\ s \in Nat BY Parts DEF RowsAfter
  <2>2. \A s \in RowsAfter(Head(up).since) : Event(s).type = "event" /\ Event(s).seq = s
    BY <2>1, EventType
  <2> QED BY <1>6, <2>1, <2>2
<1>10. TypeOK' BY <1>1, <1>4, <1>7 DEF IInv, TypeOK, Seqs
<1>11. Handshake'
  <2>1. NoAck(down') BY <1>7, <1>8, <1>9 DEF NoAck, IInv, Sound, Handshake
  <2> QED BY <1>1, <1>8, <2>1 DEF IInv, Sound, Handshake
<1>12. Truthful' BY <1>1, <1>4, <1>7, <1>9 DEF IInv, Sound, Truthful, Seqs
<1>13. Behindhand' BY <1>1 DEF IInv, Sound, Behindhand
<1>14. Owed' = Owed BY <1>1 DEF Owed, Seqs
<1>15. Ahead' BY <1>1, <1>4, <1>14 DEF IInv, NothingLost, Ahead
<1>16. Coming'
  <2>1. CASE sessionEpoch # identity.epoch
    <3>1. Range(answer) = {[type |-> "gone"]} BY <1>6, <2>1
    <3>2. (\E m \in Range(down') : m.type = "complete")
            => \E m \in Range(down) : m.type = "complete"
      BY <1>7, <3>1
    <3> QED BY <1>1, <1>7, <1>14, <3>2 DEF IInv, NothingLost, Coming
  <2>2. CASE sessionEpoch = identity.epoch
    <3>1. \A s \in Owed : log[s] = identity.epoch /\ s \in Seqs
      BY <1>8, <2>2 DEF IInv, Sound, Behindhand, NothingLost, Findable, Owed
    <3>2. \A s \in Owed : s \in RowsAfter(Head(up).since) BY <1>5, <3>1 DEF RowsAfter
    <3>3. \A s \in Owed : Event(s) \in Range(answer) BY <1>6, <2>2, <3>2
    <3> QED BY <1>7, <1>14, <3>3 DEF Coming
  <2> QED BY <2>1, <2>2
<1>17. Findable' BY <1>1, <1>14 DEF IInv, NothingLost, Findable
<1> QED BY <1>10, <1>11, <1>12, <1>13, <1>15, <1>16, <1>17 DEF IInv, Sound, NothingLost

(* What the step of a client takes off its socket. *)
LEMMA Taken ==
    ASSUME IInv, down # <<>>
    PROVE  /\ Tail(down) \in Seq(Envelopes) /\ Head(down) \in Envelopes
           /\ Head(down) \in Range(down) /\ Range(down) = {Head(down)} \cup Range(Tail(down))
           /\ conn = "ready" /\ boot = "up" /\ client.state # "away"
<1>1. down \in Seq(Envelopes) BY Parts
<1> QED BY <1>1, RangeTail, Online

(* A resynchronised client is owed nothing. *)
LEMMA ResyncKeeps ==
    ASSUME IInv, down # <<>>, FullResync(sessionEpoch), NoAck(Tail(down)),
           conn' = conn, up' = up, down' = Tail(down), cuts' = cuts, UNCHANGED server,
           dropped' = dropped, skipped' = skipped
    PROVE  IInv'
<1>1. /\ log' = log /\ boot' = boot /\ identity' = identity /\ sessionEpoch' = sessionEpoch
      /\ boots' = boots
  BY DEF server
<1>2. /\ client' = [state |-> "connected", seq |-> 0, epoch |-> sessionEpoch, ack |-> sessionEpoch]
      /\ covered' = Seqs
  BY DEF FullResync
<1>3. /\ down' \in Seq(Envelopes) /\ Range(down') \subseteq Range(down)
      /\ conn = "ready" /\ boot = "up"
  BY Taken
<1>4. client' \in ClientRecord BY <1>2, Parts DEF ClientRecord
<1>5. TypeOK' BY <1>1, <1>2, <1>3, <1>4 DEF IInv, TypeOK, ClientRecord, Seqs
<1>6. Handshake' BY <1>1, <1>2, <1>3 DEF Handshake
<1>7. Truthful' BY <1>1, <1>3 DEF IInv, Sound, Truthful, Seqs
<1>8. sessionEpoch \in Nat /\ Len(log) \in Nat BY Parts
<1>9. 0 <= Len(log) /\ sessionEpoch <= sessionEpoch BY <1>8
<1>10. Behindhand' BY <1>1, <1>2, <1>9 DEF Behindhand
<1>11. Owed' = {} BY <1>1, <1>2 DEF Owed, Seqs
<1> QED BY <1>5, <1>6, <1>7, <1>10, <1>11 DEF IInv, Sound, NothingLost, Ahead, Coming, Findable

LEMMA ClientAckKeeps == IInv /\ ClientAck => IInv'
<1> SUFFICES ASSUME IInv, ClientAck PROVE IInv' OBVIOUS
<1>1. /\ down # <<>> /\ Head(down).type = "ack" /\ down' = Tail(down)
      /\ log' = log /\ boot' = boot /\ identity' = identity /\ sessionEpoch' = sessionEpoch
      /\ boots' = boots /\ cuts' = cuts /\ conn' = conn
      /\ dropped' = dropped /\ skipped' = skipped /\ UNCHANGED server
  BY DEF ClientAck, Delivered, server
<1>2. /\ Tail(down) \in Seq(Envelopes) /\ Head(down) \in Range(down)
      /\ Range(down) = {Head(down)} \cup Range(Tail(down))
      /\ conn = "ready" /\ boot = "up"
  BY <1>1, Taken
<1>3. client.state = "connecting" BY <1>1, <1>2 DEF IInv, Sound, Handshake, NoAck
<1>4. up = <<>> /\ OnlyEvents(Tail(down)) /\ Head(down).epoch = sessionEpoch
  BY <1>1, <1>2, <1>3 DEF IInv, Sound, Handshake
<1>5. NoAck(Tail(down)) BY <1>4 DEF NoAck, OnlyEvents
<1>6. CASE EpochChanged(sessionEpoch) /\ FullResync(sessionEpoch) /\ UNCHANGED up
  BY <1>1, <1>5, <1>6, ResyncKeeps
<1>7. CASE /\ ~EpochChanged(sessionEpoch) /\ covered' = covered
           /\ up' = Append(up, [type |-> "replay-from", since |-> client.seq,
                                epoch |-> sessionEpoch])
           /\ client' = [client EXCEPT !.state = "recovering", !.ack = sessionEpoch]
  <2> DEFINE request == [type |-> "replay-from", since |-> client.seq, epoch |-> sessionEpoch]
  <2>1. client \in ClientRecord /\ sessionEpoch \in Nat /\ client.seq \in Nat
    BY Parts DEF ClientRecord
  <2>2. request \in Requests BY <2>1 DEF Requests
  <2>3. up' = <<request>> /\ up' \in Seq(Requests) /\ Range(up') = {request}
    BY <1>4, <1>7, <2>2 DEF Range
  <2>4. /\ client' \in ClientRecord /\ client'.state = "recovering" /\ client'.ack = sessionEpoch
        /\ client'.seq = client.seq /\ client'.epoch = client.epoch
    BY <1>7, <2>1 DEF ClientRecord
  <2>5. client.epoch \in {Unknown, sessionEpoch} BY <1>7 DEF EpochChanged
  <2>6. TypeOK' BY <1>1, <1>2, <1>7, <2>3, <2>4 DEF IInv, TypeOK, ClientRecord, Seqs
  <2>7. Handshake' BY <1>1, <1>2, <1>5, <2>4 DEF Handshake
  <2>8. client.seq <= Len(log) BY DEF IInv, Sound, Behindhand
  <2>9. Truthful' BY <1>1, <1>2, <2>3, <2>8 DEF IInv, Sound, Truthful, Seqs
  <2>10. Behindhand' BY <1>1, <2>4, <2>5 DEF IInv, Sound, Behindhand
  <2>11. Owed' = Owed BY <1>1, <1>7 DEF Owed, Seqs
  <2>12. \A s \in Owed : s > client.seq BY <1>3 DEF IInv, NothingLost, Ahead
  <2>13. Ahead' BY <2>3, <2>4, <2>11, <2>12 DEF Ahead
  <2>14. Coming' BY <1>1, <1>4, <2>4 DEF Coming, OnlyEvents
  <2>15. Findable' BY <1>1, <2>4, <2>11 DEF IInv, NothingLost, Findable
  <2> QED BY <2>6, <2>7, <2>9, <2>10, <2>13, <2>14, <2>15 DEF IInv, Sound, NothingLost
<1> QED BY <1>4, <1>6, <1>7 DEF ClientAck

LEMMA ClientEventKeeps == IInv /\ ClientEvent => IInv'
<1> SUFFICES ASSUME IInv, ClientEvent PROVE IInv' OBVIOUS
<1> DEFINE n == Head(down).seq
<1>1. /\ down # <<>> /\ Head(down).type = "event" /\ down' = Tail(down)
      /\ client' = [client EXCEPT !.seq = IF n > @ THEN n ELSE @] /\ covered' = covered \cup {n}
      /\ log' = log /\ boot' = boot /\ identity' = identity /\ sessionEpoch' = sessionEpoch
      /\ boots' = boots /\ cuts' = cuts /\ conn' = conn /\ up' = up
      /\ dropped' = dropped /\ skipped' = skipped
  BY DEF ClientEvent, Delivered, server
<1>2. /\ Tail(down) \in Seq(Envelopes) /\ Head(down) \in Range(down)
      /\ Range(down) = {Head(down)} \cup Range(Tail(down))
      /\ conn = "ready" /\ boot = "up" /\ client.state # "away"
  BY <1>1, Taken
<1>3. client.state \in {"recovering", "connected"}
  BY <1>1, <1>2, Online, Parts DEF ClientRecord
<1>4. n \in Seqs /\ n \in Nat /\ n <= Len(log) /\ Len(log) \in Nat
  BY <1>1, <1>2, Parts DEF IInv, Sound, Truthful, Seqs
<1>5. /\ client' \in ClientRecord /\ client'.state = client.state /\ client'.ack = client.ack
      /\ client'.epoch = client.epoch /\ client'.seq \in {client.seq, n}
  BY <1>1, <1>4, Parts DEF ClientRecord
<1>6. TypeOK' BY <1>1, <1>2, <1>4, <1>5 DEF IInv, TypeOK, ClientRecord, Seqs
<1>7. Handshake'
  <2>1. NoAck(down') BY <1>1, <1>2, <1>3 DEF IInv, Sound, Handshake, NoAck
  <2> QED BY <1>1, <1>2, <1>3, <1>5, <2>1 DEF Handshake
<1>8. Truthful' BY <1>1, <1>2 DEF IInv, Sound, Truthful, Seqs
<1>9. Behindhand' BY <1>1, <1>4, <1>5 DEF IInv, Sound, Behindhand
<1>10. Owed' \subseteq Owed \ {n} BY <1>1 DEF Owed, Seqs
<1>11. Ahead' BY <1>1, <1>3, <1>5, <1>10 DEF IInv, NothingLost, Ahead
<1>12. Coming'
  <2> SUFFICES ASSUME \/ client.state = "connected"
                      \/ client.state = "recovering" /\ \E m \in Range(down') : m.type = "complete",
                      NEW s \in Owed'
               PROVE  Event(s) \in Range(down')
    BY <1>5 DEF Coming
  <2>1. s \in Owed /\ s # n BY <1>10
  <2>2. Event(s) \in Range(down) BY <1>1, <1>2, <2>1 DEF IInv, NothingLost, Coming
  <2>3. Event(s) # Head(down) BY <2>1 DEF Event
  <2> QED BY <1>1, <1>2, <2>2, <2>3
<1>13. Findable' BY <1>1, <1>5, <1>10 DEF IInv, NothingLost, Findable
<1> QED BY <1>6, <1>7, <1>8, <1>9, <1>11, <1>12, <1>13 DEF IInv, Sound, NothingLost

(* The end of a replay: what is owed follows on the socket. *)
LEMMA ClientCompleteKeeps == IInv /\ ClientComplete => IInv'
<1> SUFFICES ASSUME IInv, ClientComplete PROVE IInv' OBVIOUS
<1>1. /\ down # <<>> /\ Head(down).type = "complete" /\ down' = Tail(down)
      /\ client.state = "recovering"
      /\ client' = [client EXCEPT !.state = "connected", !.epoch = client.ack]
      /\ log' = log /\ boot' = boot /\ identity' = identity /\ sessionEpoch' = sessionEpoch
      /\ boots' = boots /\ cuts' = cuts /\ conn' = conn /\ up' = up
      /\ covered' = covered /\ dropped' = dropped /\ skipped' = skipped
  BY DEF ClientComplete, Delivered, server, history
<1>2. /\ Tail(down) \in Seq(Envelopes) /\ Head(down) \in Range(down)
      /\ Range(down) = {Head(down)} \cup Range(Tail(down))
      /\ conn = "ready" /\ boot = "up"
  BY <1>1, Taken
<1>3. client.ack = sessionEpoch /\ client.epoch \in {Unknown, sessionEpoch}
  BY <1>1 DEF IInv, Sound, Behindhand
<1>4. /\ client' \in ClientRecord /\ client'.state = "connected"
      /\ client'.epoch = sessionEpoch /\ client'.seq = client.seq
  BY <1>1, <1>3, Parts DEF ClientRecord
<1>5. TypeOK' BY <1>1, <1>2, <1>4 DEF IInv, TypeOK, ClientRecord, Seqs
<1>6. Handshake'
  <2>1. NoAck(down') BY <1>1, <1>2 DEF IInv, Sound, Handshake, NoAck
  <2> QED BY <1>1, <1>2, <1>4, <2>1 DEF Handshake
<1>7. Truthful' BY <1>1, <1>2 DEF IInv, Sound, Truthful, Seqs
<1>8. sessionEpoch \in Nat BY Parts
<1>9. sessionEpoch <= sessionEpoch /\ client.seq <= Len(log)
  BY <1>8 DEF IInv, Sound, Behindhand
<1>10. Behindhand' BY <1>1, <1>4, <1>9 DEF Behindhand
<1>11. Owed' = Owed BY <1>1 DEF Owed, Seqs
<1>12. Ahead' BY <1>1, <1>4, <1>11 DEF IInv, NothingLost, Ahead
<1>13. Coming'
  <2> SUFFICES ASSUME NEW s \in Owed PROVE Event(s) \in Range(down')
    BY <1>11 DEF Coming
  <2>1. Event(s) \in Range(down) BY <1>1, <1>2 DEF IInv, NothingLost, Coming
  <2>2. Event(s) # Head(down) BY <1>1 DEF Event
  <2> QED BY <1>1, <1>2, <2>1, <2>2
<1>14. Findable' BY <1>1, <1>2, <1>3, <1>4, <1>11 DEF IInv, NothingLost, Findable
<1> QED BY <1>5, <1>6, <1>7, <1>10, <1>12, <1>13, <1>14 DEF IInv, Sound, NothingLost

LEMMA ClientGoneKeeps == IInv /\ ClientGone => IInv'
<1> SUFFICES ASSUME IInv, ClientGone PROVE IInv' OBVIOUS
<1>1. /\ down # <<>> /\ down' = Tail(down) /\ client.state = "recovering"
      /\ FullResync(client.ack) /\ UNCHANGED server
      /\ cuts' = cuts /\ conn' = conn /\ up' = up /\ dropped' = dropped /\ skipped' = skipped
  BY DEF ClientGone, Delivered
<1>2. client.ack = sessionEpoch BY <1>1 DEF IInv, Sound, Behindhand
<1>3. NoAck(Tail(down)) BY <1>1, Taken DEF IInv, Sound, Handshake, NoAck
<1> QED BY <1>1, <1>2, <1>3, ResyncKeeps

-----------------------------------------------------------------------------
LEMMA Keeps == IInv /\ [Next]_vars => IInv'
<1> SUFFICES ASSUME IInv, [Next]_vars PROVE IInv' OBVIOUS
<1>1. CASE UNCHANGED vars
  BY <1>1 DEF vars, server, wire, history, IInv, Sound, NothingLost, TypeOK, Handshake, Truthful,
              Behindhand, Ahead, Coming, Findable, Owed, Seqs, NoAck, OnlyEvents
<1> QED
  BY <1>1, BootKeeps, ConnectKeeps, CutKeeps, CrashKeeps, PublishKeeps, ServerHelloKeeps,
     ServerReplayKeeps, ClientAckKeeps, ClientEventKeeps, ClientCompleteKeeps, ClientGoneKeeps
  DEF Next, ServerStep, ClientStep

THEOREM Invariance == Spec => []IInv
  BY Initially, Keeps, PTL DEF Spec

(* Types of the state. *)
THEOREM TypeCorrect == Spec => []TypeOK
<1>1. IInv => TypeOK BY DEF IInv
<1> QED BY <1>1, Invariance, PTL

LEMMA QuietHasAll == IInv => QuietIsCaughtUp
  BY RangeEmpty DEF IInv, NothingLost, Coming, QuietIsCaughtUp, Quiet, Missing, Owed

(* Replay and the live firehose join without a seam: a connected client    *)
(* with nothing in flight has every event ever logged, was told of its     *)
(* loss, or lost it to backpressure or to a disruption in the middle of a  *)
(* recovery.                                                               *)
THEOREM QuietIsCaughtUpAlways == Spec => []QuietIsCaughtUp
  BY QuietHasAll, Invariance, PTL

(* A client throws its cursor away only across a restart of the server, or *)
(* because the server's own two counters disagree.                         *)
THEOREM ResyncNeedsRestartAlways == Spec => ResyncNeedsRestart
<1> DEFINE Excused == \/ client.epoch \notin {Unknown, sessionEpoch}
                      \/ sessionEpoch # identity.epoch
<1>1. IInv /\ [Next]_vars => [client.seq > 0 /\ client'.seq = 0 => Excused]_vars
  <2> SUFFICES ASSUME IInv, Next, client.seq > 0, client'.seq = 0 PROVE Excused
    OBVIOUS
  <2>1. client \in ClientRecord /\ client.seq \in Nat BY Parts DEF ClientRecord
  <2>2. CASE ClientAck
    <3>1. down # <<>> /\ Head(down).type = "ack" BY <2>2 DEF ClientAck, Delivered
    <3>2. Head(down).epoch = sessionEpoch
      BY <3>1, Taken DEF IInv, Sound, Handshake, NoAck
    <3>3. \/ EpochChanged(sessionEpoch)
          \/ client' = [client EXCEPT !.state = "recovering", !.ack = sessionEpoch]
      BY <2>2, <3>2 DEF ClientAck
    <3>4. CASE EpochChanged(sessionEpoch) BY <3>4 DEF EpochChanged
    <3>5. CASE client' = [client EXCEPT !.state = "recovering", !.ack = sessionEpoch]
      <4>1. client'.seq = client.seq BY <2>1, <3>5 DEF ClientRecord
      <4> QED BY <2>1, <4>1
    <3> QED BY <3>3, <3>4, <3>5
  <2>3. CASE ClientGone
    <3>1. down # <<>> /\ Head(down).type = "gone" BY <2>3 DEF ClientGone, Delivered
    <3> QED BY <3>1, Taken DEF IInv, Sound, Truthful
  <2>4. CASE ClientEvent
    <3>1. down # <<>> /\ Head(down).type = "event"
          /\ client' = [client EXCEPT !.seq = IF Head(down).seq > @ THEN Head(down).seq ELSE @]
      BY <2>4 DEF ClientEvent, Delivered
    <3>2. Head(down).seq \in Nat BY <3>1, Taken, Parts DEF IInv, Sound, Truthful
    <3>3. client'.seq = IF Head(down).seq > client.seq THEN Head(down).seq ELSE client.seq
      BY <2>1, <3>1 DEF ClientRecord
    <3> QED BY <2>1, <3>2, <3>3
  <2>5. CASE ~(ClientAck \/ ClientGone \/ ClientEvent)
    <3>1. client'.seq = client.seq
      BY <2>1, <2>5
      DEF Next, BootStep, BootEpoch, BootCrc, BootSession, ClearIdentity, Connect, Cut, Crash,
          SocketGone, Publish, ServerStep, ServerHello, ServerReplay, ClientStep, ClientComplete,
          ClientRecord
    <3> QED BY <2>1, <3>1
  <2> QED BY <2>2, <2>3, <2>4, <2>5
<1> QED BY <1>1, Invariance, PTL DEF Spec, ResyncNeedsRestart

-----------------------------------------------------------------------------
(***************************************************************************)
(* The reliable stream.  What keeps a client at rest is that nothing is on *)
(* its socket; what makes its rest an honest one is QuietIsCaughtUp.       *)
(***************************************************************************)
Lost == dropped \cup skipped

LEMMA RestIsHonest ==
    ASSUME IInv
    PROVE  Quiet \in BOOLEAN /\ (Quiet => Missing \subseteq Lost)
  BY QuietHasAll DEF QuietIsCaughtUp, Quiet, Lost

LEMMA MappedRests == ASSUME IInv' PROVE Stream!Rests
<1>1. Quiet' \in BOOLEAN BY DEF Quiet
<1>2. Quiet' => Missing' \subseteq Lost'
  BY RangeEmpty DEF IInv, NothingLost, Coming, Quiet, Missing, Owed, Lost
<1> QED BY <1>1, <1>2 DEF Stream!Rests, Stream!Missing, Missing, Seqs, Lost

LEMMA PublishMaps == ASSUME IInv, Publish PROVE Stream!Publish
<1>1. /\ log' = Append(log, identity.epoch) /\ Broadcast(Len(log) + 1) /\ boot = "up"
      /\ UNCHANGED <<conn, up, client, covered, skipped>>
  BY DEF Publish
<1>2. log \in Seq(Nat) /\ identity.epoch \in Nat /\ Handshake BY DEF IInv, TypeOK, Sound
<1>3. Len(log') = Len(log) + 1 BY <1>1, <1>2
<1>4. client.state = "connected" => conn = "ready" BY Online
<1>5. Quiet' = FALSE
  <2>1. ASSUME Quiet' PROVE FALSE
    <3>1. client.state = "connected" /\ down' = <<>> BY <1>1, <2>1 DEF Quiet
    <3>2. conn = "ready" BY <1>4, <3>1
    <3>3. down' = Append(down, Event(Len(log) + 1)) \/ (down # <<>> /\ down' = down)
      BY <1>1, <3>2 DEF Broadcast
    <3>4. down \in Seq(Envelopes) BY DEF IInv, TypeOK
    <3> QED BY <3>1, <3>3, <3>4
  <2> QED BY <2>1, RestIsHonest DEF Quiet
<1>6. \/ Lost' = Lost
      \/ ~Quiet /\ Lost' = Lost \cup {Len(log')}
  BY <1>1, <1>3 DEF Broadcast, Lost, Quiet
<1> QED BY <1>1, <1>3, <1>5, <1>6 DEF Stream!Publish, Lost

LEMMA DisruptMaps == ASSUME IInv, Cut \/ Crash PROVE Stream!Disrupt
<1>1. /\ UNCHANGED <<log, covered, dropped>> /\ client' = [client EXCEPT !.state = "away"]
      /\ \E S \in SUBSET Missing : skipped' = skipped \cup S
  BY DEF Cut, Crash, SocketGone, server, Behind
<1>2. Quiet' = FALSE
  <2>1. client'.state = "away" BY <1>1, Parts DEF ClientRecord
  <2> QED BY <2>1 DEF Quiet
<1>3. Lost \subseteq Lost' /\ Lost' \ Lost \subseteq Missing BY <1>1 DEF Lost
<1>4. Quiet => Lost' = Lost BY <1>1, RestIsHonest DEF Lost
<1> QED BY <1>1, <1>2, <1>3, <1>4 DEF Stream!Disrupt, Stream!Missing, Missing, Seqs, Lost

(* Envelopes that change nothing the stream shows, while none has come yet  *)
(* that could bring the client to rest.                                    *)
LEMMA QuietlyBusy ==
    ASSUME IInv, IInv', ~Quiet, UNCHANGED <<log, covered, dropped, skipped>>
    PROVE  Stream!Next
<1>1. Stream!Settle BY MappedRests DEF Stream!Settle
<1> QED BY <1>1 DEF Stream!Next

LEMMA ClientEventMaps ==
    ASSUME IInv, IInv', ClientEvent
    PROVE  \E e \in 1 .. Len(log) : Stream!HandOver(e)
<1>1. /\ down # <<>> /\ Head(down).type = "event" /\ covered' = covered \cup {Head(down).seq}
      /\ UNCHANGED <<log, dropped, skipped>>
  BY DEF ClientEvent, Delivered, server
<1>2. Head(down).seq \in Seqs BY <1>1, Taken, Parts DEF IInv, Sound, Truthful
<1>3. ~Quiet BY <1>1 DEF Quiet
<1> QED BY <1>1, <1>2, <1>3, MappedRests DEF Stream!HandOver, Seqs

LEMMA ResyncMaps ==
    ASSUME IInv, IInv', ClientAck \/ ClientGone, covered' = Seqs
    PROVE  Stream!Announce
<1>1. down # <<>> /\ UNCHANGED <<log, dropped, skipped>>
  BY DEF ClientAck, ClientGone, Delivered, server
<1>2. ~Quiet BY <1>1 DEF Quiet
<1> QED BY <1>1, <1>2, MappedRests DEF Stream!Announce, Seqs

(* Every behaviour of boots, sockets, replays and the firehose is one of   *)
(* the reliable stream.                                                    *)
THEOREM StreamIsImplemented == Spec => ImplementsStream
<1>1. Init => Stream!Init BY DEF Init, Stream!Init, Quiet
<1>2. IInv /\ IInv' /\ [Next]_vars => [Stream!Next]_(Stream!vars)
  <2> SUFFICES ASSUME IInv, IInv', [Next]_vars
               PROVE  Stream!Next \/ UNCHANGED <<Len(log), covered, Lost, Quiet>>
    BY DEF Stream!vars, Lost
  <2>1. CASE BootStep \/ ClearIdentity
    BY <2>1 DEF BootStep, BootEpoch, BootCrc, BootSession, ClearIdentity, wire, history, Lost, Quiet
  <2>2. CASE Connect \/ ServerHello \/ ServerReplay
    <3>1. UNCHANGED <<log, covered, dropped, skipped>>
      BY <2>2 DEF Connect, ServerHello, ServerReplay, server, history
    <3>2. ~Quiet
      BY <2>2 DEF Connect, ServerHello, ServerReplay, Received, Quiet
    <3> QED BY <3>1, <3>2, QuietlyBusy
  <2>3. CASE Cut \/ Crash BY <2>3, DisruptMaps DEF Stream!Next
  <2>4. CASE Publish BY <2>4, PublishMaps DEF Stream!Next
  <2>5. CASE ClientEvent BY <2>5, ClientEventMaps DEF Stream!Next
  <2>6. CASE (ClientAck \/ ClientGone) /\ covered' = Seqs
    BY <2>6, ResyncMaps DEF Stream!Next
  <2>7. CASE ClientComplete \/ ((ClientAck \/ ClientGone) /\ covered' = covered)
    <3>1. UNCHANGED <<log, covered, dropped, skipped>> /\ ~Quiet
      BY <2>7 DEF ClientComplete, ClientAck, ClientGone, Delivered, server, history, Quiet
    <3> QED BY <3>1, QuietlyBusy
  <2>8. CASE UNCHANGED vars
    BY <2>8 DEF vars, server, wire, history, Lost, Quiet
  <2>9. ClientAck \/ ClientGone => covered' \in {Seqs, covered}
    BY DEF ClientAck, ClientGone, FullResync
  <2> QED BY <2>1, <2>2, <2>3, <2>4, <2>5, <2>6, <2>7, <2>8, <2>9 DEF Next, ServerStep, ClientStep
<1> QED BY <1>1, <1>2, Invariance, PTL DEF Spec, ImplementsStream, Stream!Spec
=============================================================================
