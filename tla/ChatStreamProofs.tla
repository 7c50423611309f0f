--------------------------- MODULE ChatStreamProofs ---------------------------
(***************************************************************************)
(* A quiet view shows every row, and no subscription is left behind, for    *)
(* any number of rows, views, lost sockets and restarts; and, at the end,   *)
(* the connection below them, as an instance of ClientConnection.          *)
(*                                                                         *)
(* What a connected view has not shown is on the way: as a subscribe that   *)
(* is still to be answered, an acknowledgement or a scoped replay that      *)
(* reaches as far, or the row itself (Coming).  What comes ahead of it is   *)
(* mended by a replay that is still to end (Owing), so a view drops no row  *)
(* for good: no replay of its own brings rows out of order, and an          *)
(* acknowledgement is ahead of all replays of the view that it overtakes    *)
(* (Numbered).  While the client is not connected, what is missing lies     *)
(* beyond the cursor its replay starts from (Recoverable).                  *)
(***************************************************************************)
EXTENDS ChatStream, FiniteSetTheorems, TLAPS

(* What goes over the socket, either way. *)
Asks ==
    [type : {"replay-from"}, since : Nat]
      \cup [type : {"subscribe"}, view : Views]
      \cup [type : {"unsubscribe"}, view : Views, sub : Nat]
      \cup [type : {"replay-from-scoped"}, view : Views, upTo : Nat]

Copies == [type : {"row", "other"}, seq : Nat, via : {"live", "replay", "scoped"},
           view : Views \cup {None}]

Tells ==
    Copies \cup [type : {"ack"}, epoch : Nat] \cup [type : {"complete", "gone"}]
      \cup [type : {"subscribed"}, view : Views, seq : Nat, sub : Nat]
      \cup [type : {"done"}, view : Views]

Mounts == [is : {"none", "mounted", "disposed"}, sub : Nat, upTo : Nat, replaying : BOOLEAN,
           buffer : SUBSET Nat, shown : SUBSET Nat, owed : Nat]

(* A frame of a view is on the wire s; the row r comes before place j. *)
In(s, type, m) == \E i \in DOMAIN s : s[i].type = type /\ s[i].view = m

Before(d, r, j) == \E i \in DOMAIN d : i < j /\ d[i].type = "row" /\ d[i].seq = r

IsLive(f) == f.type = "row" /\ f.via = "live"
IsOwn(f, m) == f.type = "row" /\ f.view = m
IsAck(f, m) == f.type = "subscribed" /\ f.view = m
IsScoped(f, m) == f.type = "replay-from-scoped" /\ f.view = m

(* A replay of the view is still to be asked for or answered, or the row   *)
(* comes before the end of one.                                            *)
Owing(m, u, d, r) ==
    \/ In(u, "subscribe", m) \/ In(u, "replay-from-scoped", m) \/ In(d, "subscribed", m)
    \/ \E i \in DOMAIN d : d[i].type = "done" /\ d[i].view = m /\ Before(d, r, i)

(* The row will reach the view. *)
Coming(m, u, d, r) ==
    \/ In(u, "subscribe", m)
    \/ \E i \in DOMAIN d : IsAck(d[i], m) /\ r <= d[i].seq
    \/ \E i \in DOMAIN u : IsScoped(u[i], m) /\ r <= u[i].upTo
    \/ \E i \in DOMAIN d : d[i].type = "row" /\ d[i].seq = r

(* A connected view that holds back the rows B and misses the rows M: they  *)
(* come, and what comes or has come ahead of them will be mended by a       *)
(* replay; the view's own replay brings nothing ahead of them.              *)
Complete(m, M, B, u, d, seq) ==
    /\ \A j \in DOMAIN d, r \in M : IsOwn(d[j], m) /\ r < d[j].seq => Before(d, r, j)
    /\ \A j \in DOMAIN d, r \in M : d[j].type \in {"row", "other"} /\ r < d[j].seq =>
          r \in B \/ Before(d, r, j) \/ Owing(m, u, d, r)
    /\ \A r \in M : r <= seq => r \in B \/ Owing(m, u, d, r)
    /\ \A r \in M : r \in B \/ Coming(m, u, d, r)

(* An acknowledgement is ahead of what it comes after and behind what       *)
(* comes after it, and ahead of all replays of the view.                    *)
AckAhead(m, B, u, d) ==
    \A i \in DOMAIN d : IsAck(d[i], m) =>
        /\ \A k \in DOMAIN u : IsScoped(u[k], m) => u[k].upTo <= d[i].seq
        /\ \A k \in DOMAIN d : IsOwn(d[k], m) => d[k].seq <= d[i].seq
        /\ \A k \in DOMAIN d : k < i /\ IsAck(d[k], m) => d[k].seq <= d[i].seq
        /\ \A k \in DOMAIN d : k < i /\ d[k].type = "row" => d[k].seq <= d[i].seq
        /\ \A k \in DOMAIN d : i < k /\ IsLive(d[k]) => d[k].seq > d[i].seq
        /\ \A s \in B : s <= d[i].seq

(* So is the acknowledgement of the replay that runs. *)
ReplayAhead(m, upTo, u, d) ==
    /\ \A k \in DOMAIN u : IsScoped(u[k], m) => u[k].upTo <= upTo
    /\ \A k \in DOMAIN d : IsOwn(d[k], m) => d[k].seq <= upTo
    /\ \A k \in DOMAIN d : IsLive(d[k]) => d[k].seq > upTo

(* Before the connection: what is missing lies beyond the cursor. *)
Recoverable(M, d, cursor) ==
    \A r \in M : /\ r > cursor
                 /\ \A j \in DOMAIN d : d[j].type = "row" /\ r < d[j].seq => Before(d, r, j)

Hits(s, T) == {i \in DOMAIN s : s[i] \in T}
AskTokens(m) == {f \in Asks : f.type \in {"subscribe", "replay-from-scoped"} /\ f.view = m}
TellTokens(m) == {f \in Tells : f.type \in {"subscribed", "done"} /\ f.view = m}

-----------------------------------------------------------------------------
(* The invariant. *)

IsMounted(m) == view[m].is = "mounted"
Online == client.state = "connected"
Cursor == IF client.state = "recovering" THEN client.asked ELSE client.seq

ChatTyped ==
    /\ own \in Seq(BOOLEAN) /\ floor \in Nat /\ boot \in Nat \ {0} /\ agree \in BOOLEAN
    /\ socket \in Nat \ {0} /\ subs \subseteq Views /\ up \in Seq(Asks) /\ down \in Seq(Tells)
    /\ client \in [state : {"away", "connecting", "recovering", "connected"},
                   seq : Nat, epoch : Nat, asked : Nat]
    /\ pending \in Seq(Asks) /\ view \in [Views -> Mounts] /\ cuts \in Nat
    /\ early \subseteq Views /\ leaked \subseteq Views /\ dropped \subseteq Nat
    /\ skipped \in BOOLEAN

(* No number is ahead of the log, and no subscription of the socket. *)
Bounded ==
    /\ floor <= Len(own) /\ client.seq <= Len(own)
    /\ \A i \in DOMAIN up : /\ up[i].type = "replay-from-scoped" => up[i].upTo <= Len(own)
                            /\ up[i].type = "replay-from" => up[i].since = client.asked
    /\ \A i \in DOMAIN down :
          /\ down[i].type \in {"row", "other", "subscribed"} => down[i].seq <= Len(own)
          /\ down[i].type \in {"row", "other"} => down[i].seq \in DOMAIN own
          /\ down[i].type = "other" => ~own[down[i].seq]
    /\ \A m \in Views : /\ view[m].shown \subseteq 1 .. Len(own) /\ view[m].upTo <= Len(own)
                        /\ \A s \in view[m].buffer : s <= client.seq

(* One answer at a time is due before the connection is made, and nothing  *)
(* of a view is on the socket until then.                                  *)
Shake == {"ack", "complete", "gone"}

Handshake ==
    /\ client.state \in {"away", "connecting"} => up = <<>>
    /\ client.state = "away" => down = <<>>
    /\ client.state = "connecting" => down # <<>> /\ Head(down).type = "ack"
    /\ client.state = "recovering" => client.asked <= client.seq
    /\ ~Online =>
          /\ subs = {}
          /\ \A i \in DOMAIN up : up[i].type = "replay-from" /\ Len(up) = 1
          /\ \A i \in DOMAIN down :
                /\ down[i].type \notin {"subscribed", "done"}
                /\ down[i].type = "row" => down[i].via = "replay" /\ down[i].view = None
    /\ \A i \in DOMAIN up : up[i].type = "replay-from" =>
          /\ client.state = "recovering"
          /\ \A j \in DOMAIN down : down[j].type \notin Shake
    /\ \A i \in DOMAIN down : down[i].type \in Shake =>
          /\ client.state \in {"connecting", "recovering"}
          /\ down[i].type = "ack" => client.state = "connecting"
          /\ \A j \in DOMAIN down : down[j].type \in Shake => i = j
    /\ Online => pending = <<>> /\ EverReady
    /\ \A i \in DOMAIN pending : pending[i].type \in {"subscribe", "unsubscribe"}

(* A view not yet mounted is on no wire; one that is withdrawn is disposed. *)
Unheard ==
    \A m \in Views :
        /\ view[m].is = "none" =>
              /\ m \notin subs
              /\ \A i \in DOMAIN up : up[i].type # "replay-from" => up[i].view # m
              /\ \A i \in DOMAIN pending : pending[i].view # m
              /\ \A i \in DOMAIN down : down[i].type \in {"subscribed", "done", "row"} =>
                    down[i].view # m
        /\ In(up, "unsubscribe", m) \/ In(pending, "unsubscribe", m) => view[m].is = "disposed"
        /\ ~IsMounted(m) =>
              view[m].buffer = {} /\ view[m].shown = {} /\ ~view[m].replaying

(* What is known of a subscription is of this socket; a view that knows of  *)
(* none but is to have one waits for a replay.                              *)
Acquainted ==
    /\ \A i \in DOMAIN down : down[i].type = "subscribed" => down[i].sub = socket
    /\ \A m \in Views :
          /\ view[m].sub <= socket
          /\ view[m].sub = socket => Online
          /\ IsMounted(m) /\ view[m].sub # socket =>
                /\ ~In(up, "replay-from-scoped", m) /\ ~In(down, "done", m)
                /\ m \in subs \/ In(up, "subscribe", m) \/ In(pending, "subscribe", m)
                      => view[m].owed > 0
          /\ Online /\ IsMounted(m) => m \in subs \/ In(up, "subscribe", m)

(* A subscription of a view that is gone is being withdrawn. *)
Farewell(m) == [type |-> "unsubscribe", view |-> m, sub |-> socket]

Withdrawn ==
    \A m \in Views : ~IsMounted(m) /\ m \notin leaked =>
        /\ m \in subs => \E i \in DOMAIN up : up[i] = Farewell(m)
        /\ \A i \in DOMAIN up : up[i].type = "subscribe" /\ up[i].view = m =>
              \E j \in DOMAIN up : i < j /\ up[j] = Farewell(m)
        /\ ~In(pending, "subscribe", m)

(* A replay that is still to end is counted. *)
Counted ==
    \A m \in Views : IsMounted(m) =>
        /\ Online => view[m].owed >= Cardinality(Hits(up, AskTokens(m)))
                                       + Cardinality(Hits(down, TellTokens(m)))
        /\ view[m].replaying => view[m].owed > 0
        /\ view[m].replaying /\ Online => In(up, "replay-from-scoped", m) \/ In(down, "done", m)
        /\ ~view[m].replaying => view[m].buffer = {}

Numbered ==
    \A m \in Views : /\ AckAhead(m, view[m].buffer, up, down)
                     /\ view[m].replaying => ReplayAhead(m, view[m].upTo, up, down)

(* What a view does not show, and nothing shown is later than that. *)
Fine(m) == IsMounted(m) /\ m \notin early /\ dropped = {} /\ ~skipped /\ agree

Missing(m) == {r \in Rows : r > floor /\ r \notin view[m].shown}

Mended(m) ==
    /\ \A r \in Missing(m), s \in view[m].shown : s < r
    /\ Online => Complete(m, Missing(m), view[m].buffer, up, down, client.seq)
    /\ ~Online /\ view[m].owed = 0 => Recoverable(Missing(m), down, Cursor)

Fused == \A m \in Views : Fine(m) => Mended(m)

ChatIInv ==
    /\ ChatTyped /\ Bounded /\ Handshake /\ Unheard /\ Acquainted /\ Withdrawn /\ Counted
    /\ Numbered /\ Fused

-----------------------------------------------------------------------------
(* Sequences. *)

LEMMA TailOf ==
    ASSUME NEW S, NEW s \in Seq(S), s # <<>>
    PROVE  /\ Tail(s) \in Seq(S) /\ Head(s) \in S /\ Head(s) = s[1] /\ 1 \in DOMAIN s
           /\ DOMAIN s \subseteq Nat \ {0}
           /\ \A i \in DOMAIN Tail(s) : i + 1 \in DOMAIN s /\ Tail(s)[i] = s[i + 1]
           /\ \A i \in DOMAIN s : i # 1 => i - 1 \in DOMAIN Tail(s) /\ Tail(s)[i - 1] = s[i]
           /\ DOMAIN Tail(s) \subseteq Nat \ {0}
<1>1. /\ DOMAIN s = 1 .. Len(s) /\ DOMAIN Tail(s) = 1 .. Len(s) - 1 /\ Len(s) \in Nat \ {0}
      /\ Tail(s) \in Seq(S) /\ Head(s) \in S /\ Head(s) = s[1]
      /\ \A i \in 1 .. Len(s) - 1 : Tail(s)[i] = s[i + 1]
  OBVIOUS
<1>2. \A i \in 1 .. Len(s) : i # 1 => i - 1 \in 1 .. Len(s) - 1 /\ (i - 1) + 1 = i
  BY <1>1
<1> QED BY <1>1, <1>2

LEMMA ConcatOf ==
    ASSUME NEW S, NEW s \in Seq(S), NEW t \in Seq(S)
    PROVE  /\ s \o t \in Seq(S) /\ Len(s) \in Nat
           /\ DOMAIN s = 1 .. Len(s) /\ DOMAIN t \subseteq Nat \ {0}
           /\ \A i \in DOMAIN s : i \in DOMAIN (s \o t) /\ (s \o t)[i] = s[i]
           /\ \A i \in DOMAIN t : Len(s) + i \in DOMAIN (s \o t) /\ (s \o t)[Len(s) + i] = t[i]
           /\ \A i \in DOMAIN (s \o t) :
                 i \in DOMAIN s \/ (i > Len(s) /\ i \in Nat /\ i - Len(s) \in DOMAIN t
                                      /\ (s \o t)[i] = t[i - Len(s)])
<1>1. /\ DOMAIN s = 1 .. Len(s) /\ DOMAIN t = 1 .. Len(t) /\ Len(s) \in Nat /\ Len(t) \in Nat
      /\ s \o t \in Seq(S) /\ DOMAIN (s \o t) = 1 .. Len(s) + Len(t)
  OBVIOUS
<1>2. \A i \in 1 .. Len(s) + Len(t) :
         (s \o t)[i] = IF i <= Len(s) THEN s[i] ELSE t[i - Len(s)]
  BY <1>1
<1>3. ASSUME NEW i \in DOMAIN s PROVE i \in DOMAIN (s \o t) /\ (s \o t)[i] = s[i]
  BY <1>1, <1>2
<1>4. ASSUME NEW i \in DOMAIN t
      PROVE  Len(s) + i \in DOMAIN (s \o t) /\ (s \o t)[Len(s) + i] = t[i]
  <2>1. Len(s) + i \in 1 .. Len(s) + Len(t) /\ ~(Len(s) + i <= Len(s))
          /\ (Len(s) + i) - Len(s) = i
    BY <1>1
  <2> QED BY <1>1, <1>2, <2>1
<1>5. ASSUME NEW i \in DOMAIN (s \o t)
      PROVE  i \in DOMAIN s \/ (i > Len(s) /\ i \in Nat /\ i - Len(s) \in DOMAIN t
                                  /\ (s \o t)[i] = t[i - Len(s)])
  BY <1>1, <1>2
<1> QED BY <1>1, <1>3, <1>4, <1>5

LEMMA AppendOf ==
    ASSUME NEW S, NEW s \in Seq(S), NEW f \in S
    PROVE  /\ Append(s, f) = s \o <<f>> /\ <<f>> \in Seq(S)
           /\ DOMAIN <<f>> = {1} /\ <<f>>[1] = f
<1>1. /\ DOMAIN s = 1 .. Len(s) /\ Len(s) \in Nat /\ <<f>> \in Seq(S) /\ Len(<<f>>) = 1
      /\ <<f>>[1] = f
  OBVIOUS
<1>2. DOMAIN <<f>> = {1} BY <1>1
<1>3. Append(s, f) \in Seq(S) /\ s \o <<f>> \in Seq(S) BY <1>1
<1>4. Len(Append(s, f)) = Len(s) + 1 /\ Len(s \o <<f>>) = Len(s) + 1 BY <1>1
<1>5. \A i \in 1 .. Len(s) + 1 : Append(s, f)[i] = (s \o <<f>>)[i] BY <1>1
<1> QED BY <1>1, <1>2, <1>3, <1>4, <1>5

LEMMA SeqHas ==
    ASSUME NEW S, NEW s \in Seq(S)
    PROVE  \A i \in DOMAIN s : s[i] \in S
OBVIOUS

LEMMA InTail ==
    ASSUME NEW S, NEW s \in Seq(S), s # <<>>, NEW type, NEW m
    PROVE  /\ In(Tail(s), type, m) => In(s, type, m)
           /\ In(s, type, m) => (Head(s).type = type /\ Head(s).view = m) \/ In(Tail(s), type, m)
<1>1. ASSUME NEW i \in DOMAIN Tail(s), Tail(s)[i].type = type, Tail(s)[i].view = m
      PROVE  In(s, type, m)
  <2>1. i + 1 \in DOMAIN s /\ s[i + 1] = Tail(s)[i] BY TailOf
  <2> QED BY <1>1, <2>1 DEF In
<1>2. ASSUME NEW i \in DOMAIN s, s[i].type = type, s[i].view = m
      PROVE  (Head(s).type = type /\ Head(s).view = m) \/ In(Tail(s), type, m)
  <2>1. CASE i = 1 BY <1>2, <2>1, TailOf
  <2>2. CASE i # 1
    <3>1. i - 1 \in DOMAIN Tail(s) /\ Tail(s)[i - 1] = s[i] BY <2>2, TailOf
    <3> QED BY <1>2, <3>1 DEF In
  <2> QED BY <2>1, <2>2
<1> QED BY <1>1, <1>2 DEF In

LEMMA InConcat ==
    ASSUME NEW S, NEW s \in Seq(S), NEW t \in Seq(S), NEW type, NEW m
    PROVE  In(s \o t, type, m) <=> In(s, type, m) \/ In(t, type, m)
<1>1. In(s, type, m) => In(s \o t, type, m) BY ConcatOf DEF In
<1>2. In(t, type, m) => In(s \o t, type, m)
  <2> SUFFICES ASSUME NEW i \in DOMAIN t, t[i].type = type, t[i].view = m
               PROVE  In(s \o t, type, m)
    BY DEF In
  <2>1. Len(s) + i \in DOMAIN (s \o t) /\ (s \o t)[Len(s) + i] = t[i] BY ConcatOf
  <2> QED BY <2>1 DEF In
<1>3. In(s \o t, type, m) => In(s, type, m) \/ In(t, type, m)
  <2> SUFFICES ASSUME NEW i \in DOMAIN (s \o t), (s \o t)[i].type = type, (s \o t)[i].view = m
               PROVE  In(s, type, m) \/ In(t, type, m)
    BY DEF In
  <2>1. CASE i \in DOMAIN s BY <2>1, ConcatOf DEF In
  <2>2. CASE i - Len(s) \in DOMAIN t /\ (s \o t)[i] = t[i - Len(s)] BY <2>2 DEF In
  <2> QED BY <2>1, <2>2, ConcatOf
<1> QED BY <1>1, <1>2, <1>3

LEMMA InOne ==
    ASSUME NEW S, NEW s \in Seq(S), NEW f \in S
    PROVE  /\ \A type, m : In(s \o <<f>>, type, m) <=>
                 In(s, type, m) \/ (f.type = type /\ f.view = m)
           /\ s \o <<f>> \in Seq(S)
           /\ \A i \in DOMAIN (s \o <<f>>) :
                 \/ i \in DOMAIN s /\ (s \o <<f>>)[i] = s[i]
                 \/ i = Len(s) + 1 /\ (s \o <<f>>)[i] = f
           /\ \A i \in DOMAIN s :
                 i \in DOMAIN (s \o <<f>>) /\ (s \o <<f>>)[i] = s[i] /\ i < Len(s) + 1
           /\ Len(s) + 1 \in DOMAIN (s \o <<f>>) /\ (s \o <<f>>)[Len(s) + 1] = f
<1>1. <<f>> \in Seq(S) /\ DOMAIN <<f>> = {1} /\ <<f>>[1] = f BY AppendOf
<1>2. \A type, m : In(<<f>>, type, m) <=> f.type = type /\ f.view = m BY <1>1 DEF In
<1>3. \A type, m : In(s \o <<f>>, type, m) <=>
                      In(s, type, m) \/ (f.type = type /\ f.view = m)
  BY <1>1, <1>2, InConcat
<1>4. /\ s \o <<f>> \in Seq(S)
      /\ Len(s) + 1 \in DOMAIN (s \o <<f>>) /\ (s \o <<f>>)[Len(s) + 1] = f
      /\ \A i \in DOMAIN s : i \in DOMAIN (s \o <<f>>) /\ (s \o <<f>>)[i] = s[i]
  BY <1>1, ConcatOf
<1>6. \A i \in DOMAIN (s \o <<f>>) :
         \/ i \in DOMAIN s /\ (s \o <<f>>)[i] = s[i]
         \/ i = Len(s) + 1 /\ (s \o <<f>>)[i] = f
  <2>1. \A i \in DOMAIN (s \o <<f>>) :
           \/ i \in DOMAIN s /\ (s \o <<f>>)[i] = s[i]
           \/ i \in Nat /\ i - Len(s) \in {1} /\ (s \o <<f>>)[i] = <<f>>[i - Len(s)]
    BY <1>1, ConcatOf
  <2>2. Len(s) \in Nat OBVIOUS
  <2>3. \A i \in Nat : i - Len(s) \in {1} => i = Len(s) + 1 BY <2>2
  <2> QED BY <1>1, <2>1, <2>3
<1>5. \A i \in DOMAIN s : i < Len(s) + 1 BY ConcatOf
<1> QED BY <1>3, <1>4, <1>5, <1>6

LEMMA BeforeTail ==
    ASSUME NEW d \in Seq(Tells), d # <<>>, NEW r, NEW j \in DOMAIN Tail(d),
           Before(d, r, j + 1), ~(Head(d).type = "row" /\ Head(d).seq = r)
    PROVE  Before(Tail(d), r, j)
<1>1. PICK i \in DOMAIN d : i < j + 1 /\ d[i].type = "row" /\ d[i].seq = r BY DEF Before
<1>2. i # 1 BY <1>1, TailOf
<1>3. i - 1 \in DOMAIN Tail(d) /\ Tail(d)[i - 1] = d[i] /\ i - 1 < j BY <1>1, <1>2, TailOf
<1> QED BY <1>1, <1>3 DEF Before

LEMMA NothingBeforeHead ==
    ASSUME NEW d \in Seq(Tells), d # <<>>, NEW r
    PROVE  ~Before(d, r, 1)
BY TailOf DEF Before

LEMMA BeforeConcat ==
    ASSUME NEW d \in Seq(Tells), NEW t \in Seq(Tells), NEW r
    PROVE  /\ \A j \in DOMAIN d : Before(d, r, j) => Before(d \o t, r, j)
           /\ \A j \in DOMAIN t : Before(t, r, j) => Before(d \o t, r, Len(d) + j)
           /\ \A i \in DOMAIN d, j \in DOMAIN t :
                 d[i].type = "row" /\ d[i].seq = r => Before(d \o t, r, Len(d) + j)
<1>1. ASSUME NEW j \in DOMAIN d, Before(d, r, j) PROVE Before(d \o t, r, j)
  BY <1>1, ConcatOf DEF Before
<1>2. ASSUME NEW j \in DOMAIN t, Before(t, r, j) PROVE Before(d \o t, r, Len(d) + j)
  <2>1. PICK i \in DOMAIN t : i < j /\ t[i].type = "row" /\ t[i].seq = r BY <1>2 DEF Before
  <2>2. Len(d) + i \in DOMAIN (d \o t) /\ (d \o t)[Len(d) + i] = t[i] BY ConcatOf
  <2>3. Len(d) + i < Len(d) + j BY <2>1, ConcatOf
  <2> QED BY <2>1, <2>2, <2>3 DEF Before
<1>3. ASSUME NEW i \in DOMAIN d, NEW j \in DOMAIN t, d[i].type = "row", d[i].seq = r
      PROVE  Before(d \o t, r, Len(d) + j)
  <2>1. i \in DOMAIN (d \o t) /\ (d \o t)[i] = d[i] BY ConcatOf
  <2>2. i < Len(d) + j BY ConcatOf
  <2> QED BY <1>3, <2>1, <2>2 DEF Before
<1> QED BY <1>1, <1>2, <1>3

LEMMA TellFields ==
    ASSUME NEW f \in Tells
    PROVE  /\ f.type \in {"row", "other"} => f.seq \in Nat /\ f.view \in Views \cup {None}
           /\ f.type = "subscribed" => f.seq \in Nat /\ f.view \in Views /\ f.sub \in Nat
           /\ f.type = "done" => f.view \in Views
           /\ f.type \in {"row", "other", "ack", "complete", "gone", "subscribed", "done"}
BY DEF Tells, Copies

LEMMA AskFields ==
    ASSUME NEW f \in Asks
    PROVE  /\ f.type = "subscribe" => f.view \in Views
           /\ f.type = "unsubscribe" => f.view \in Views /\ f.sub \in Nat
           /\ f.type = "replay-from-scoped" => f.view \in Views /\ f.upTo \in Nat
           /\ f.type = "replay-from" => f.since \in Nat
           /\ f.type \in {"replay-from", "subscribe", "unsubscribe", "replay-from-scoped"}
BY DEF Asks

-----------------------------------------------------------------------------
(* Rows on the way to one view. *)

LEMMA OwingStays ==
    ASSUME NEW u \in Seq(Asks), NEW a \in Seq(Asks), NEW d \in Seq(Tells), NEW t \in Seq(Tells),
           NEW m, NEW r, Owing(m, u, d, r)
    PROVE  Owing(m, u \o a, d, r) /\ Owing(m, u, d \o t, r)
<1>1. Owing(m, u \o a, d, r) BY InConcat DEF Owing
<1>2. ASSUME NEW i \in DOMAIN d, d[i].type = "done", d[i].view = m, Before(d, r, i)
      PROVE  Owing(m, u, d \o t, r)
  <2>1. i \in DOMAIN (d \o t) /\ (d \o t)[i] = d[i] BY ConcatOf
  <2>2. Before(d \o t, r, i) BY <1>2, BeforeConcat
  <2> QED BY <1>2, <2>1, <2>2 DEF Owing
<1> QED BY <1>1, <1>2, InConcat DEF Owing

LEMMA ComingStays ==
    ASSUME NEW u \in Seq(Asks), NEW a \in Seq(Asks), NEW d \in Seq(Tells), NEW t \in Seq(Tells),
           NEW m, NEW r, Coming(m, u, d, r)
    PROVE  Coming(m, u \o a, d, r) /\ Coming(m, u, d \o t, r)
<1>1. CASE In(u, "subscribe", m) BY <1>1, InConcat DEF Coming
<1>2. ASSUME NEW i \in DOMAIN d, IsAck(d[i], m), r <= d[i].seq
      PROVE  Coming(m, u \o a, d, r) /\ Coming(m, u, d \o t, r)
  BY <1>2, ConcatOf DEF Coming
<1>3. ASSUME NEW i \in DOMAIN u, IsScoped(u[i], m), r <= u[i].upTo
      PROVE  Coming(m, u \o a, d, r) /\ Coming(m, u, d \o t, r)
  BY <1>3, ConcatOf DEF Coming
<1>4. ASSUME NEW i \in DOMAIN d, d[i].type = "row", d[i].seq = r
      PROVE  Coming(m, u \o a, d, r) /\ Coming(m, u, d \o t, r)
  BY <1>4, ConcatOf DEF Coming
<1> QED BY <1>1, <1>2, <1>3, <1>4 DEF Coming

LEMMA ComingOrOwing ==
    ASSUME NEW m, NEW u, NEW d, NEW r, Coming(m, u, d, r)
    PROVE  Owing(m, u, d, r) \/ \E i \in DOMAIN d : d[i].type = "row" /\ d[i].seq = r
BY DEF Coming, Owing, In, IsAck, IsScoped

LEMMA AddTells ==
    ASSUME NEW m, NEW M \in SUBSET Nat, NEW B, NEW seq, NEW u \in Seq(Asks),
           NEW d \in Seq(Tells), NEW t \in Seq(Tells), Complete(m, M, B, u, d, seq),
           \A j \in DOMAIN t, r \in M : IsOwn(t[j], m) /\ r < t[j].seq => Before(t, r, j)
    PROVE  Complete(m, M, B, u, d \o t, seq)
<1> DEFINE e == d \o t
<1>1. ASSUME NEW j \in DOMAIN e, NEW r \in M, IsOwn(e[j], m), r < e[j].seq
      PROVE  Before(e, r, j)
  <2>1. CASE j \in DOMAIN d
    <3>1. e[j] = d[j] BY <2>1, ConcatOf
    <3>2. Before(d, r, j) BY <1>1, <2>1, <3>1 DEF Complete
    <3> QED BY <2>1, <3>2, BeforeConcat
  <2>2. CASE j - Len(d) \in DOMAIN t /\ e[j] = t[j - Len(d)] /\ j \in Nat
    <3>1. Before(t, r, j - Len(d)) BY <1>1, <2>2
    <3>2. Before(e, r, Len(d) + (j - Len(d))) BY <2>2, <3>1, BeforeConcat
    <3>3. Len(d) + (j - Len(d)) = j BY <2>2, ConcatOf
    <3> QED BY <3>2, <3>3
  <2> QED BY <2>1, <2>2, ConcatOf
<1>2. ASSUME NEW j \in DOMAIN e, NEW r \in M, e[j].type \in {"row", "other"}, r < e[j].seq
      PROVE  r \in B \/ Before(e, r, j) \/ Owing(m, u, e, r)
  <2>1. CASE j \in DOMAIN d
    <3>1. e[j] = d[j] BY <2>1, ConcatOf
    <3>2. r \in B \/ Before(d, r, j) \/ Owing(m, u, d, r) BY <1>2, <2>1, <3>1 DEF Complete
    <3> QED BY <2>1, <3>2, BeforeConcat, OwingStays
  <2>2. CASE j - Len(d) \in DOMAIN t /\ e[j] = t[j - Len(d)] /\ j \in Nat
    <3>1. r \in B \/ Coming(m, u, d, r) BY DEF Complete
    <3>2. \/ r \in B \/ Owing(m, u, d, r)
          \/ \E i \in DOMAIN d : d[i].type = "row" /\ d[i].seq = r
      BY <3>1, ComingOrOwing
    <3>3. ASSUME NEW i \in DOMAIN d, d[i].type = "row", d[i].seq = r PROVE Before(e, r, j)
      <4>1. Before(e, r, Len(d) + (j - Len(d))) BY <2>2, <3>3, BeforeConcat
      <4>2. Len(d) + (j - Len(d)) = j BY <2>2, ConcatOf
      <4> QED BY <4>1, <4>2
    <3> QED BY <3>2, <3>3, OwingStays
  <2> QED BY <2>1, <2>2, ConcatOf
<1>3. \A r \in M : r <= seq => r \in B \/ Owing(m, u, e, r) BY OwingStays DEF Complete
<1>4. \A r \in M : r \in B \/ Coming(m, u, e, r) BY ComingStays DEF Complete
<1> QED BY <1>1, <1>2, <1>3, <1>4 DEF Complete

LEMMA AddTell ==
    ASSUME NEW m, NEW M \in SUBSET Nat, NEW B, NEW seq, NEW u \in Seq(Asks),
           NEW d \in Seq(Tells), NEW f \in Tells, Complete(m, M, B, u, d, seq), ~IsOwn(f, m)
    PROVE  Complete(m, M, B, u, d \o <<f>>, seq)
<1>1. <<f>> \in Seq(Tells) /\ DOMAIN <<f>> = {1} /\ <<f>>[1] = f BY AppendOf
<1>2. \A j \in DOMAIN <<f>> : ~IsOwn(<<f>>[j], m) BY <1>1
<1> QED BY <1>1, <1>2, AddTells

LEMMA AddAsks ==
    ASSUME NEW m, NEW M \in SUBSET Nat, NEW B, NEW seq, NEW u \in Seq(Asks),
           NEW a \in Seq(Asks), NEW d \in Seq(Tells), Complete(m, M, B, u, d, seq)
    PROVE  Complete(m, M, B, u \o a, d, seq)
BY OwingStays, ComingStays DEF Complete

(* A row is logged that is beyond all that went before. *)
LEMMA AddRow ==
    ASSUME NEW m, NEW M \in SUBSET Nat, NEW B, NEW seq \in Nat, NEW u \in Seq(Asks),
           NEW d \in Seq(Tells), NEW n \in Nat, Complete(m, M, B, u, d, seq), seq < n,
           \A j \in DOMAIN d : d[j].type \in {"row", "other"} => d[j].seq <= n,
           Coming(m, u, d, n)
    PROVE  Complete(m, M \cup {n}, B, u, d, seq)
<1>1. \A j \in DOMAIN d : d[j].type \in {"row", "other"} => d[j].seq \in Nat
  BY TellFields
<1>2. \A j \in DOMAIN d : d[j].type \in {"row", "other"} => ~(n < d[j].seq) BY <1>1
<1>3. \A j \in DOMAIN d, r \in M \cup {n} : IsOwn(d[j], m) /\ r < d[j].seq => Before(d, r, j)
  BY <1>2 DEF Complete, IsOwn
<1>4. \A j \in DOMAIN d, r \in M \cup {n} : d[j].type \in {"row", "other"} /\ r < d[j].seq =>
          r \in B \/ Before(d, r, j) \/ Owing(m, u, d, r)
  BY <1>2 DEF Complete
<1>5. ASSUME NEW r \in M \cup {n}, r <= seq PROVE r \in B \/ Owing(m, u, d, r)
  <2>1. r # n BY <1>5
  <2> QED BY <1>5, <2>1 DEF Complete
<1> QED BY <1>3, <1>4, <1>5 DEF Complete

(* The server takes a request that is not about a replay of the view. *)
LEMMA TakeAsk ==
    ASSUME NEW m, NEW M \in SUBSET Nat, NEW B, NEW seq, NEW u \in Seq(Asks), u # <<>>,
           NEW d \in Seq(Tells), Complete(m, M, B, u, d, seq),
           Head(u).type \in {"subscribe", "replay-from-scoped"} => Head(u).view # m
    PROVE  Complete(m, M, B, Tail(u), d, seq)
<1>1. \A r : Owing(m, u, d, r) => Owing(m, Tail(u), d, r) BY InTail DEF Owing
<1>2. \A r : Coming(m, u, d, r) => Coming(m, Tail(u), d, r)
  <2>1. In(u, "subscribe", m) => In(Tail(u), "subscribe", m) BY InTail
  <2>2. ASSUME NEW r, NEW i \in DOMAIN u, IsScoped(u[i], m), r <= u[i].upTo
        PROVE  \E k \in DOMAIN Tail(u) : IsScoped(Tail(u)[k], m) /\ r <= Tail(u)[k].upTo
    <3>1. i # 1 BY <2>2, TailOf DEF IsScoped
    <3>2. i - 1 \in DOMAIN Tail(u) /\ Tail(u)[i - 1] = u[i] BY <3>1, TailOf
    <3> QED BY <2>2, <3>2
  <2> QED BY <2>1, <2>2 DEF Coming
<1> QED BY <1>1, <1>2 DEF Complete

(* It acknowledges a subscription of the view. *)
LEMMA AckMade ==
    ASSUME NEW m, NEW M \in SUBSET Nat, NEW B, NEW seq, NEW u \in Seq(Asks),
           NEW d \in Seq(Tells), Complete(m, M, B, u, d, seq), NEW w \in Seq(Asks),
           NEW f \in Tells, IsAck(f, m), \A r \in M : r <= f.seq
    PROVE  Complete(m, M, B, w, d \o <<f>>, seq)
<1> DEFINE e == d \o <<f>>
<1>1. /\ \A i \in DOMAIN d : i \in DOMAIN e /\ e[i] = d[i]
      /\ \A i \in DOMAIN e : i \in DOMAIN d \/ e[i] = f
      /\ Len(d) + 1 \in DOMAIN e /\ e[Len(d) + 1] = f
  BY AppendOf, ConcatOf
<1>2. \A r : Owing(m, w, e, r) BY <1>1 DEF Owing, In, IsAck
<1>3. \A r \in M : Coming(m, w, e, r) BY <1>1 DEF Coming
<1>4. ASSUME NEW j \in DOMAIN e, NEW r \in M, IsOwn(e[j], m), r < e[j].seq
      PROVE  Before(e, r, j)
  <2>1. j \in DOMAIN d /\ e[j] = d[j] BY <1>1, <1>4 DEF IsOwn, IsAck
  <2>2. Before(d, r, j) BY <1>4, <2>1 DEF Complete
  <2> QED BY <1>1, <2>2 DEF Before
<1> QED BY <1>2, <1>3, <1>4 DEF Complete

(* It answers the view's replay with a page and its end. *)
LEMMA ReplayMade ==
    ASSUME NEW m, NEW M \in SUBSET Nat, NEW B, NEW seq, NEW u \in Seq(Asks), u # <<>>,
           NEW d \in Seq(Tells), Complete(m, M, B, u, d, seq), IsScoped(Head(u), m),
           NEW t \in Seq(Tells), NEW z \in DOMAIN t, t[z].type = "done", t[z].view = m,
           \A r \in M : r <= Head(u).upTo => Before(t, r, z),
           \A j \in DOMAIN t, r \in M : IsOwn(t[j], m) /\ r < t[j].seq => Before(t, r, j)
    PROVE  Complete(m, M, B, Tail(u), d \o t, seq)
<1> DEFINE e == d \o t
<1>0. Complete(m, M, B, u, e, seq) BY AddTells
<1>1. Len(d) + z \in DOMAIN e /\ e[Len(d) + z] = t[z] BY ConcatOf
<1>2. ASSUME NEW r \in M, r \notin B
      PROVE  Owing(m, Tail(u), e, r) /\ Coming(m, Tail(u), e, r)
  <2>0. ASSUME NEW i \in DOMAIN e, e[i].type = "row", e[i].seq = r
        PROVE  Coming(m, Tail(u), e, r)
    BY <2>0 DEF Coming
  <2>1. CASE In(u, "subscribe", m)
    <3>1. In(Tail(u), "subscribe", m) BY <2>1, InTail DEF IsScoped
    <3> QED BY <3>1 DEF Owing, Coming
  <2>2. ASSUME NEW i \in DOMAIN d, IsAck(d[i], m), r <= d[i].seq
        PROVE  Owing(m, Tail(u), e, r) /\ Coming(m, Tail(u), e, r)
    <3>1. i \in DOMAIN e /\ e[i] = d[i] BY ConcatOf
    <3> QED BY <2>2, <3>1 DEF Owing, Coming, In, IsAck
  <2>3. ASSUME NEW i \in DOMAIN u, IsScoped(u[i], m), r <= u[i].upTo
        PROVE  Owing(m, Tail(u), e, r) /\ Coming(m, Tail(u), e, r)
    <3>1. CASE i # 1
      <4>1. i - 1 \in DOMAIN Tail(u) /\ Tail(u)[i - 1] = u[i] BY <3>1, TailOf
      <4> QED BY <2>3, <4>1 DEF Owing, Coming, In, IsScoped
    <3>2. CASE i = 1
      <4>1. Before(t, r, z) BY <2>3, <3>2, TailOf
      <4>2. Before(e, r, Len(d) + z) BY <4>1, BeforeConcat
      <4>3. Owing(m, Tail(u), e, r) BY <1>1, <4>2 DEF Owing
      <4>4. Coming(m, Tail(u), e, r) BY <2>0, <4>2 DEF Before
      <4> QED BY <4>3, <4>4
    <3> QED BY <3>1, <3>2
  <2>4. ASSUME NEW i \in DOMAIN d, d[i].type = "row", d[i].seq = r
        PROVE  Owing(m, Tail(u), e, r) /\ Coming(m, Tail(u), e, r)
    <3>1. i \in DOMAIN e /\ e[i] = d[i] BY ConcatOf
    <3>2. Before(e, r, Len(d) + z) BY <2>4, BeforeConcat
    <3> QED BY <1>1, <2>0, <2>4, <3>1, <3>2 DEF Owing
  <2>5. Coming(m, u, d, r) BY <1>2 DEF Complete
  <2> QED BY <2>1, <2>2, <2>3, <2>4, <2>5 DEF Coming
<1>3. \A j \in DOMAIN e, r \in M : IsOwn(e[j], m) /\ r < e[j].seq => Before(e, r, j)
  BY <1>0 DEF Complete
<1> QED BY <1>2, <1>3 DEF Complete

(* The client takes what is neither the start nor the end of a replay of   *)
(* the view; a row among it is shown or held back, and what is held back is *)
(* ahead of the view's own replay.                                          *)
LEMMA TakeTell ==
    ASSUME NEW m, NEW M \in SUBSET Nat, NEW B, NEW seq \in Nat, NEW u \in Seq(Asks),
           NEW d \in Seq(Tells), d # <<>>, Complete(m, M, B, u, d, seq),
           Head(d).type \in {"subscribed", "done"} => Head(d).view # m,
           NEW N \in SUBSET M, NEW C, B \subseteq C, NEW after \in Nat,
           after # seq => Head(d).type \in {"row", "other"} /\ after = Head(d).seq,
           Head(d).type \in {"row", "other"} => Head(d).seq \notin N \/ Head(d).seq \in C,
           \A j \in DOMAIN d : IsOwn(d[j], m) /\ Head(d).type = "row" =>
              Head(d).seq \notin N \/ d[j].seq <= Head(d).seq
    PROVE  Complete(m, N, C, u, Tail(d), after)
<1> DEFINE e == Tail(d)
           h == Head(d)
<1>0. /\ \A i \in DOMAIN e : i + 1 \in DOMAIN d /\ e[i] = d[i + 1] /\ i \in Nat
      /\ \A i \in DOMAIN d : i # 1 => i - 1 \in DOMAIN e /\ e[i - 1] = d[i] /\ i \in Nat
      /\ h = d[1] /\ 1 \in DOMAIN d
  BY TailOf
<1>1. ASSUME NEW r \in N, r \notin C, NEW j \in DOMAIN e, Before(d, r, j + 1)
      PROVE  Before(e, r, j)
  BY <1>1, BeforeTail
<1>2. ASSUME NEW r \in N, r \notin C, Owing(m, u, d, r) PROVE Owing(m, u, e, r)
  <2>1. CASE In(u, "subscribe", m) \/ In(u, "replay-from-scoped", m)
    BY <2>1 DEF Owing
  <2>2. CASE In(d, "subscribed", m)
    <3>1. In(e, "subscribed", m) BY <2>2, InTail
    <3> QED BY <3>1 DEF Owing
  <2>3. ASSUME NEW i \in DOMAIN d, d[i].type = "done", d[i].view = m, Before(d, r, i)
        PROVE  Owing(m, u, e, r)
    <3>1. i # 1 BY <2>3, <1>0
    <3>2. i - 1 \in DOMAIN e /\ e[i - 1] = d[i] /\ (i - 1) + 1 = i BY <1>0, <3>1
    <3>3. Before(e, r, i - 1) BY <1>1, <1>2, <2>3, <3>2
    <3> QED BY <2>3, <3>2, <3>3 DEF Owing
  <2> QED BY <1>2, <2>1, <2>2, <2>3 DEF Owing
<1>3. ASSUME NEW r \in N, r \notin C, Coming(m, u, d, r) PROVE Coming(m, u, e, r)
  <2>1. CASE In(u, "subscribe", m) BY <2>1 DEF Coming
  <2>2. ASSUME NEW i \in DOMAIN d, IsAck(d[i], m), r <= d[i].seq PROVE Coming(m, u, e, r)
    <3>1. i # 1 BY <2>2, <1>0 DEF IsAck
    <3> QED BY <1>0, <2>2, <3>1 DEF Coming
  <2>3. ASSUME NEW i \in DOMAIN u, IsScoped(u[i], m), r <= u[i].upTo PROVE Coming(m, u, e, r)
    BY <2>3 DEF Coming
  <2>4. ASSUME NEW i \in DOMAIN d, d[i].type = "row", d[i].seq = r PROVE Coming(m, u, e, r)
    <3>1. i # 1 BY <1>0, <1>3, <2>4
    <3>2. i - 1 \in DOMAIN e /\ e[i - 1] = d[i] BY <1>0, <3>1
    <3> QED BY <2>4, <3>2 DEF Coming
  <2> QED BY <1>3, <2>1, <2>2, <2>3, <2>4 DEF Coming
<1>4. ASSUME NEW j \in DOMAIN e, NEW r \in N, IsOwn(e[j], m), r < e[j].seq PROVE Before(e, r, j)
  <2>1. j + 1 \in DOMAIN d /\ e[j] = d[j + 1] BY <1>0
  <2>2. Before(d, r, j + 1) BY <1>4, <2>1 DEF Complete
  <2>3. PICK i \in DOMAIN d : i < j + 1 /\ d[i].type = "row" /\ d[i].seq = r
    BY <2>2 DEF Before
  <2>4. CASE i # 1
    <3>1. i - 1 \in DOMAIN e /\ e[i - 1] = d[i] /\ i - 1 < j BY <1>0, <2>3, <2>4
    <3> QED BY <2>3, <3>1 DEF Before
  <2>5. CASE i = 1
    <3>1. h.type = "row" /\ h.seq = r BY <1>0, <2>3, <2>5
    <3>2. d[j + 1].seq <= r /\ d[j + 1].seq \in Nat BY <1>4, <2>1, <3>1, TellFields, SeqHas
      DEF IsOwn
    <3> QED BY <1>4, <2>1, <3>2
  <2> QED BY <2>4, <2>5
<1>5. ASSUME NEW j \in DOMAIN e, NEW r \in N, e[j].type \in {"row", "other"}, r < e[j].seq
      PROVE  r \in C \/ Before(e, r, j) \/ Owing(m, u, e, r)
  <2>1. j + 1 \in DOMAIN d /\ e[j] = d[j + 1] BY <1>0
  <2>2. r \in B \/ Before(d, r, j + 1) \/ Owing(m, u, d, r) BY <1>5, <2>1 DEF Complete
  <2> QED BY <1>1, <1>2, <2>2
<1>6. ASSUME NEW r \in N, r <= after PROVE r \in C \/ Owing(m, u, e, r)
  <2>1. CASE after = seq
    <3>1. r \in B \/ Owing(m, u, d, r) BY <1>6, <2>1 DEF Complete
    <3> QED BY <1>2, <3>1
  <2>2. CASE after # seq
    <3>1. h.type \in {"row", "other"} /\ after = h.seq BY <2>2
    <3>2. CASE r = after BY <3>1, <3>2
    <3>3. CASE r # after
      <4>1. r < d[1].seq /\ d[1].type \in {"row", "other"} BY <1>0, <1>6, <3>1, <3>3
      <4>2. r \in B \/ Before(d, r, 1) \/ Owing(m, u, d, r) BY <1>0, <4>1 DEF Complete
      <4> QED BY <1>2, <4>2, NothingBeforeHead
    <3> QED BY <3>2, <3>3
  <2> QED BY <2>1, <2>2
<1>7. \A r \in N : r \in C \/ Coming(m, u, e, r) BY <1>3 DEF Complete
<1> QED BY <1>4, <1>5, <1>6, <1>7 DEF Complete

(* The end of the view's replay: what was held back is no longer missing.   *)
LEMMA TakeDone ==
    ASSUME NEW m, NEW M \in SUBSET Nat, NEW B, NEW seq, NEW u \in Seq(Asks),
           NEW d \in Seq(Tells), d # <<>>, Complete(m, M, B, u, d, seq),
           Head(d).type = "done", NEW N \in SUBSET M, N \cap B = {}
    PROVE  Complete(m, N, {}, u, Tail(d), seq)
<1> DEFINE e == Tail(d)
<1>0. /\ \A i \in DOMAIN e : i + 1 \in DOMAIN d /\ e[i] = d[i + 1] /\ i \in Nat
      /\ \A i \in DOMAIN d : i # 1 => i - 1 \in DOMAIN e /\ e[i - 1] = d[i] /\ i \in Nat
      /\ Head(d) = d[1] /\ 1 \in DOMAIN d
  BY TailOf
<1>1. ASSUME NEW r \in N, NEW j \in DOMAIN e, Before(d, r, j + 1) PROVE Before(e, r, j)
  BY <1>1, BeforeTail
<1>2. ASSUME NEW r \in N, Owing(m, u, d, r) PROVE Owing(m, u, e, r)
  <2>1. CASE In(u, "subscribe", m) \/ In(u, "replay-from-scoped", m)
    BY <2>1 DEF Owing
  <2>2. CASE In(d, "subscribed", m)
    <3>1. In(e, "subscribed", m) BY <2>2, InTail
    <3> QED BY <3>1 DEF Owing
  <2>3. ASSUME NEW i \in DOMAIN d, d[i].type = "done", d[i].view = m, Before(d, r, i)
        PROVE  Owing(m, u, e, r)
    <3>1. i # 1 BY <2>3, NothingBeforeHead
    <3>2. i - 1 \in DOMAIN e /\ e[i - 1] = d[i] /\ (i - 1) + 1 = i BY <1>0, <3>1
    <3>3. Before(e, r, i - 1) BY <1>1, <2>3, <3>2
    <3> QED BY <2>3, <3>2, <3>3 DEF Owing
  <2> QED BY <1>2, <2>1, <2>2, <2>3 DEF Owing
<1>3. ASSUME NEW r \in N, Coming(m, u, d, r) PROVE Coming(m, u, e, r)
  <2>1. CASE In(u, "subscribe", m) BY <2>1 DEF Coming
  <2>2. ASSUME NEW i \in DOMAIN d, IsAck(d[i], m), r <= d[i].seq PROVE Coming(m, u, e, r)
    <3>1. i # 1 BY <2>2, <1>0 DEF IsAck
    <3> QED BY <1>0, <2>2, <3>1 DEF Coming
  <2>3. ASSUME NEW i \in DOMAIN u, IsScoped(u[i], m), r <= u[i].upTo PROVE Coming(m, u, e, r)
    BY <2>3 DEF Coming
  <2>4. ASSUME NEW i \in DOMAIN d, d[i].type = "row", d[i].seq = r PROVE Coming(m, u, e, r)
    <3>1. i # 1 BY <1>0, <2>4
    <3> QED BY <1>0, <2>4, <3>1 DEF Coming
  <2> QED BY <1>3, <2>1, <2>2, <2>3, <2>4 DEF Coming
<1>4. ASSUME NEW j \in DOMAIN e, NEW r \in N, IsOwn(e[j], m), r < e[j].seq PROVE Before(e, r, j)
  <2>1. j + 1 \in DOMAIN d /\ e[j] = d[j + 1] BY <1>0
  <2>2. Before(d, r, j + 1) BY <1>4, <2>1 DEF Complete
  <2> QED BY <1>1, <2>2
<1>5. ASSUME NEW j \in DOMAIN e, NEW r \in N, e[j].type \in {"row", "other"}, r < e[j].seq
      PROVE  Before(e, r, j) \/ Owing(m, u, e, r)
  <2>1. j + 1 \in DOMAIN d /\ e[j] = d[j + 1] BY <1>0
  <2>2. r \in B \/ Before(d, r, j + 1) \/ Owing(m, u, d, r) BY <1>5, <2>1 DEF Complete
  <2> QED BY <1>1, <1>2, <2>2
<1>6. \A r \in N : r <= seq => Owing(m, u, e, r) BY <1>2 DEF Complete
<1>7. \A r \in N : Coming(m, u, e, r) BY <1>3 DEF Complete
<1> QED BY <1>4, <1>5, <1>6, <1>7 DEF Complete

(* The acknowledgement empties the buffer and asks for a replay of it all.  *)
LEMMA TakeAck ==
    ASSUME NEW m, NEW M \in SUBSET Nat, NEW B, NEW seq, NEW u \in Seq(Asks),
           NEW d \in Seq(Tells), d # <<>>, Complete(m, M, B, u, d, seq),
           IsAck(Head(d), m), \A r \in M \cap B : r <= Head(d).seq,
           NEW f \in Asks, IsScoped(f, m), f.upTo = Head(d).seq
    PROVE  Complete(m, M, {}, u \o <<f>>, Tail(d), seq)
<1> DEFINE e == Tail(d)
           w == u \o <<f>>
<1>0. /\ \A i \in DOMAIN e : i + 1 \in DOMAIN d /\ e[i] = d[i + 1] /\ i \in Nat
      /\ \A i \in DOMAIN d : i # 1 => i - 1 \in DOMAIN e /\ e[i - 1] = d[i] /\ i \in Nat
      /\ Head(d) = d[1] /\ 1 \in DOMAIN d
  BY TailOf
<1>1. /\ \A i \in DOMAIN u : i \in DOMAIN w /\ w[i] = u[i]
      /\ Len(u) + 1 \in DOMAIN w /\ w[Len(u) + 1] = f
  BY AppendOf, ConcatOf
<1>2. \A r : Owing(m, w, e, r) BY <1>1 DEF Owing, In, IsScoped
<1>3. ASSUME NEW r \in M PROVE Coming(m, w, e, r)
  <2>1. CASE r \in B \/ r <= Head(d).seq BY <1>1, <2>1 DEF Coming
  <2>2. CASE In(u, "subscribe", m) BY <1>1, <2>2 DEF Coming, In
  <2>3. ASSUME NEW i \in DOMAIN d, IsAck(d[i], m), r <= d[i].seq PROVE Coming(m, w, e, r)
    <3>1. CASE i = 1 BY <1>0, <2>1, <2>3, <3>1
    <3>2. CASE i # 1 BY <1>0, <2>3, <3>2 DEF Coming
    <3> QED BY <3>1, <3>2
  <2>4. ASSUME NEW i \in DOMAIN u, IsScoped(u[i], m), r <= u[i].upTo PROVE Coming(m, w, e, r)
    BY <1>1, <2>4 DEF Coming
  <2>5. ASSUME NEW i \in DOMAIN d, d[i].type = "row", d[i].seq = r PROVE Coming(m, w, e, r)
    <3>1. i # 1 BY <1>0, <2>5 DEF IsAck
    <3>2. i - 1 \in DOMAIN e /\ e[i - 1] = d[i] BY <1>0, <3>1
    <3> QED BY <2>5, <3>2 DEF Coming
  <2>6. r \in B \/ Coming(m, u, d, r) BY DEF Complete
  <2> QED BY <2>1, <2>2, <2>3, <2>4, <2>5, <2>6 DEF Coming
<1>4. ASSUME NEW j \in DOMAIN e, NEW r \in M, IsOwn(e[j], m), r < e[j].seq PROVE Before(e, r, j)
  <2>1. j + 1 \in DOMAIN d /\ e[j] = d[j + 1] BY <1>0
  <2>2. Before(d, r, j + 1) BY <1>4, <2>1 DEF Complete
  <2>3. Head(d).type # "row" BY DEF IsAck
  <2> QED BY <2>2, <2>3, BeforeTail
<1> QED BY <1>2, <1>3, <1>4 DEF Complete

(* With the view's subscribe on the way nothing can be amiss.               *)
LEMMA Asking ==
    ASSUME NEW m, NEW M, NEW B, NEW seq, NEW u, NEW d, In(u, "subscribe", m),
           \A j \in DOMAIN d : ~IsOwn(d[j], m)
    PROVE  Complete(m, M, B, u, d, seq)
BY DEF Complete, Owing, Coming

(* What the head of the wire is not ahead of.                               *)
LEMMA HeadInOrder ==
    ASSUME NEW m, NEW M, NEW B, NEW seq, NEW u, NEW d \in Seq(Tells), d # <<>>,
           Complete(m, M, B, u, d, seq), NEW r \in M, r < Head(d).seq
    PROVE  /\ ~IsOwn(Head(d), m)
           /\ Head(d).type = "row" => r \in B \/ Owing(m, u, d, r)
<1>1. Head(d) = d[1] /\ 1 \in DOMAIN d BY TailOf
<1> QED BY <1>1, NothingBeforeHead DEF Complete

-----------------------------------------------------------------------------
(* Rows on the way before the connection is made. *)

LEMMA RecoverTakes ==
    ASSUME NEW M \in SUBSET Nat, NEW c, NEW d \in Seq(Tells), d # <<>>, Recoverable(M, d, c),
           NEW N \in SUBSET M, Head(d).type = "row" => Head(d).seq \notin N
    PROVE  Recoverable(N, Tail(d), c)
<1>1. ASSUME NEW r \in N, NEW j \in DOMAIN Tail(d), Tail(d)[j].type = "row", r < Tail(d)[j].seq
      PROVE  Before(Tail(d), r, j)
  <2>1. j + 1 \in DOMAIN d /\ d[j + 1] = Tail(d)[j] BY TailOf
  <2>2. Before(d, r, j + 1) BY <1>1, <2>1 DEF Recoverable
  <2> QED BY <2>2, BeforeTail
<1> QED BY <1>1 DEF Recoverable

LEMMA RecoverAdds ==
    ASSUME NEW M \in SUBSET Nat, NEW c, NEW d \in Seq(Tells), Recoverable(M, d, c),
           NEW t \in Seq(Tells),
           \A j \in DOMAIN t, r \in M : t[j].type = "row" /\ r < t[j].seq => Before(t, r, j)
    PROVE  Recoverable(M, d \o t, c)
<1>1. ASSUME NEW r \in M, NEW j \in DOMAIN (d \o t), (d \o t)[j].type = "row",
             r < (d \o t)[j].seq
      PROVE  Before(d \o t, r, j)
  <2>1. CASE j \in DOMAIN d
    <3>1. (d \o t)[j] = d[j] BY <2>1, ConcatOf
    <3>2. Before(d, r, j) BY <1>1, <2>1, <3>1 DEF Recoverable
    <3> QED BY <2>1, <3>2, BeforeConcat
  <2>2. CASE j - Len(d) \in DOMAIN t /\ (d \o t)[j] = t[j - Len(d)] /\ j \in Nat
    <3>1. Before(t, r, j - Len(d)) BY <1>1, <2>2
    <3>2. Before(d \o t, r, Len(d) + (j - Len(d))) BY <2>2, <3>1, BeforeConcat
    <3>3. Len(d) + (j - Len(d)) = j BY <2>2, ConcatOf
    <3> QED BY <3>2, <3>3
  <2> QED BY <2>1, <2>2, ConcatOf
<1> QED BY <1>1 DEF Recoverable

LEMMA RecoverGrows ==
    ASSUME NEW M \in SUBSET Nat, NEW c \in Nat, NEW d \in Seq(Tells), Recoverable(M, d, c),
           NEW n \in Nat, c < n, \A j \in DOMAIN d : d[j].type = "row" => d[j].seq <= n
    PROVE  Recoverable(M \cup {n}, d, c)
<1>1. \A j \in DOMAIN d : d[j].type = "row" => d[j].seq \in Nat /\ d[j].seq <= n
  BY TellFields, SeqHas
<1>2. \A j \in DOMAIN d : d[j].type = "row" => ~(n < d[j].seq) BY <1>1
<1>3. \A r \in M \cup {n} : r \in M \/ r = n OBVIOUS
<1>4. \A r \in M \cup {n} : r > c BY <1>3 DEF Recoverable
<1>5. ASSUME NEW r \in M \cup {n}, NEW j \in DOMAIN d, d[j].type = "row", r < d[j].seq
      PROVE  Before(d, r, j)
  <2>1. r \in M BY <1>2, <1>3, <1>5
  <2> QED BY <1>5, <2>1 DEF Recoverable
<1> QED BY <1>4, <1>5 DEF Recoverable

LEMMA RecoverHead ==
    ASSUME NEW M, NEW c, NEW d \in Seq(Tells), d # <<>>, Recoverable(M, d, c),
           Head(d).type = "row", NEW r \in M
    PROVE  ~(r < Head(d).seq)
<1>1. Head(d) = d[1] /\ 1 \in DOMAIN d BY TailOf
<1> QED BY <1>1, NothingBeforeHead DEF Recoverable

-----------------------------------------------------------------------------
(* The numbers on the wires. *)

LEMMA NumbersTakeAsk ==
    ASSUME NEW m, NEW B, NEW u \in Seq(Asks), u # <<>>, NEW d, NEW upTo
    PROVE  /\ AckAhead(m, B, u, d) => AckAhead(m, B, Tail(u), d)
           /\ ReplayAhead(m, upTo, u, d) => ReplayAhead(m, upTo, Tail(u), d)
<1>1. \A k \in DOMAIN Tail(u) : k + 1 \in DOMAIN u /\ Tail(u)[k] = u[k + 1] BY TailOf
<1> QED BY <1>1 DEF AckAhead, ReplayAhead

LEMMA NumbersAddAsk ==
    ASSUME NEW m, NEW B, NEW u \in Seq(Asks), NEW a \in Seq(Asks), NEW d, NEW upTo,
           \A i \in DOMAIN a : ~IsScoped(a[i], m)
    PROVE  /\ AckAhead(m, B, u, d) => AckAhead(m, B, u \o a, d)
           /\ ReplayAhead(m, upTo, u, d) => ReplayAhead(m, upTo, u \o a, d)
<1>1. \A k \in DOMAIN (u \o a) : IsScoped((u \o a)[k], m) =>
         k \in DOMAIN u /\ (u \o a)[k] = u[k]
  BY ConcatOf
<1> QED BY <1>1 DEF AckAhead, ReplayAhead

LEMMA NumbersTakeTell ==
    ASSUME NEW m, NEW B, NEW u, NEW d \in Seq(Tells), d # <<>>, NEW upTo, NEW C,
           \A s \in C : s \in B \/ (Head(d).type = "row" /\ s = Head(d).seq)
    PROVE  /\ AckAhead(m, B, u, d) => AckAhead(m, C, u, Tail(d))
           /\ ReplayAhead(m, upTo, u, d) => ReplayAhead(m, upTo, u, Tail(d))
<1>1. /\ \A k \in DOMAIN Tail(d) : k + 1 \in DOMAIN d /\ Tail(d)[k] = d[k + 1] /\ k \in Nat \ {0}
      /\ Head(d) = d[1] /\ 1 \in DOMAIN d
  BY TailOf
<1>2. \A i, k \in DOMAIN Tail(d) : i < k => i + 1 < k + 1 BY <1>1
<1>3. \A i \in DOMAIN Tail(d) : 1 < i + 1 BY <1>1
<1>4. ASSUME AckAhead(m, B, u, d) PROVE AckAhead(m, C, u, Tail(d))
  <2> SUFFICES ASSUME NEW i \in DOMAIN Tail(d), IsAck(Tail(d)[i], m)
               PROVE  /\ \A k \in DOMAIN u : IsScoped(u[k], m) => u[k].upTo <= Tail(d)[i].seq
                      /\ \A k \in DOMAIN Tail(d) : IsOwn(Tail(d)[k], m) =>
                            Tail(d)[k].seq <= Tail(d)[i].seq
                      /\ \A k \in DOMAIN Tail(d) : k < i /\ IsAck(Tail(d)[k], m) =>
                            Tail(d)[k].seq <= Tail(d)[i].seq
                      /\ \A k \in DOMAIN Tail(d) : k < i /\ Tail(d)[k].type = "row" =>
                            Tail(d)[k].seq <= Tail(d)[i].seq
                      /\ \A k \in DOMAIN Tail(d) : i < k /\ IsLive(Tail(d)[k]) =>
                            Tail(d)[k].seq > Tail(d)[i].seq
                      /\ \A s \in C : s <= Tail(d)[i].seq
    BY DEF AckAhead
  <2>1. i + 1 \in DOMAIN d /\ IsAck(d[i + 1], m) /\ d[i + 1] = Tail(d)[i] BY <1>1
  <2>2. \A s \in C : s <= d[i + 1].seq BY <1>1, <1>3, <1>4, <2>1 DEF AckAhead
  <2> QED BY <1>1, <1>2, <1>4, <2>1, <2>2 DEF AckAhead
<1>5. ReplayAhead(m, upTo, u, d) => ReplayAhead(m, upTo, u, Tail(d))
  BY <1>1 DEF ReplayAhead
<1> QED BY <1>4, <1>5

LEMMA NumbersAddTells ==
    ASSUME NEW m, NEW B, NEW u, NEW d \in Seq(Tells), NEW t \in Seq(Tells), NEW upTo
    PROVE  /\ AckAhead(m, B, u, d)
              /\ (\A j \in DOMAIN t : ~IsAck(t[j], m))
              /\ (\A j \in DOMAIN t, i \in DOMAIN d : IsAck(d[i], m) =>
                    /\ IsOwn(t[j], m) => t[j].seq <= d[i].seq
                    /\ IsLive(t[j]) => t[j].seq > d[i].seq)
                 => AckAhead(m, B, u, d \o t)
           /\ ReplayAhead(m, upTo, u, d)
              /\ (\A j \in DOMAIN t : /\ IsOwn(t[j], m) => t[j].seq <= upTo
                                      /\ IsLive(t[j]) => t[j].seq > upTo)
                 => ReplayAhead(m, upTo, u, d \o t)
<1> DEFINE e == d \o t
<1>1. /\ \A k \in DOMAIN e : \/ k \in DOMAIN d /\ e[k] = d[k]
                             \/ /\ k > Len(d) /\ k - Len(d) \in DOMAIN t
                                /\ e[k] = t[k - Len(d)] /\ k \in Nat
      /\ \A i \in DOMAIN d : i \in Nat /\ i <= Len(d)
      /\ Len(d) \in Nat
  BY ConcatOf
<1>2. ASSUME AckAhead(m, B, u, d), \A j \in DOMAIN t : ~IsAck(t[j], m),
             \A j \in DOMAIN t, i \in DOMAIN d : IsAck(d[i], m) =>
                /\ IsOwn(t[j], m) => t[j].seq <= d[i].seq
                /\ IsLive(t[j]) => t[j].seq > d[i].seq
      PROVE  AckAhead(m, B, u, e)
  <2> SUFFICES ASSUME NEW i \in DOMAIN e, IsAck(e[i], m)
               PROVE  /\ \A k \in DOMAIN u : IsScoped(u[k], m) => u[k].upTo <= e[i].seq
                      /\ \A k \in DOMAIN e : IsOwn(e[k], m) => e[k].seq <= e[i].seq
                      /\ \A k \in DOMAIN e : k < i /\ IsAck(e[k], m) => e[k].seq <= e[i].seq
                      /\ \A k \in DOMAIN e : k < i /\ e[k].type = "row" => e[k].seq <= e[i].seq
                      /\ \A k \in DOMAIN e : i < k /\ IsLive(e[k]) => e[k].seq > e[i].seq
                      /\ \A s \in B : s <= e[i].seq
    BY DEF AckAhead
  <2>1. i \in DOMAIN d /\ e[i] = d[i] /\ IsAck(d[i], m) BY <1>1, <1>2
  <2>2. \A k \in DOMAIN e : k < i => k \in DOMAIN d /\ e[k] = d[k] BY <1>1, <2>1
  <2>3. \A k \in DOMAIN u : IsScoped(u[k], m) => u[k].upTo <= e[i].seq
    BY <1>2, <2>1 DEF AckAhead
  <2>4. ASSUME NEW k \in DOMAIN e, IsOwn(e[k], m) PROVE e[k].seq <= e[i].seq
    <3>1. CASE k \in DOMAIN d /\ e[k] = d[k] BY <1>2, <2>1, <2>4, <3>1 DEF AckAhead
    <3>2. CASE k - Len(d) \in DOMAIN t /\ e[k] = t[k - Len(d)] BY <1>2, <2>1, <2>4, <3>2
    <3> QED BY <1>1, <3>1, <3>2
  <2>5. ASSUME NEW k \in DOMAIN e, i < k, IsLive(e[k]) PROVE e[k].seq > e[i].seq
    <3>1. CASE k \in DOMAIN d /\ e[k] = d[k] BY <1>2, <2>1, <2>5, <3>1 DEF AckAhead
    <3>2. CASE k - Len(d) \in DOMAIN t /\ e[k] = t[k - Len(d)] BY <1>2, <2>1, <2>5, <3>2
    <3> QED BY <1>1, <3>1, <3>2
  <2>6. /\ \A k \in DOMAIN e : k < i /\ IsAck(e[k], m) => e[k].seq <= e[i].seq
        /\ \A k \in DOMAIN e : k < i /\ e[k].type = "row" => e[k].seq <= e[i].seq
        /\ \A s \in B : s <= e[i].seq
    BY <1>2, <2>1, <2>2 DEF AckAhead
  <2> QED BY <2>3, <2>4, <2>5, <2>6
<1>3. ASSUME ReplayAhead(m, upTo, u, d),
             \A j \in DOMAIN t : /\ IsOwn(t[j], m) => t[j].seq <= upTo
                                 /\ IsLive(t[j]) => t[j].seq > upTo
      PROVE  ReplayAhead(m, upTo, u, e)
  <2>1. \A k \in DOMAIN e : /\ IsOwn(e[k], m) => e[k].seq <= upTo
                            /\ IsLive(e[k]) => e[k].seq > upTo
    BY <1>1, <1>3 DEF ReplayAhead
  <2> QED BY <1>3, <2>1 DEF ReplayAhead
<1> QED BY <1>2, <1>3

LEMMA NumbersAddTell ==
    ASSUME NEW m, NEW B, NEW u, NEW d \in Seq(Tells), NEW f \in Tells, NEW upTo,
           f.type # "row"
    PROVE  /\ AckAhead(m, B, u, d) /\ ~IsAck(f, m) => AckAhead(m, B, u, d \o <<f>>)
           /\ ReplayAhead(m, upTo, u, d) => ReplayAhead(m, upTo, u, d \o <<f>>)
<1>1. <<f>> \in Seq(Tells) /\ DOMAIN <<f>> = {1} /\ <<f>>[1] = f BY AppendOf
<1>2. \A j \in DOMAIN <<f>> : ~IsOwn(<<f>>[j], m) /\ ~IsLive(<<f>>[j])
  BY <1>1 DEF IsOwn, IsLive
<1>3. ~IsAck(f, m) => \A j \in DOMAIN <<f>> : ~IsAck(<<f>>[j], m) BY <1>1
<1>4. AckAhead(m, B, u, d) /\ ~IsAck(f, m) => AckAhead(m, B, u, d \o <<f>>)
  BY <1>1, <1>2, <1>3, NumbersAddTells
<1>5. ReplayAhead(m, upTo, u, d) => ReplayAhead(m, upTo, u, d \o <<f>>)
  BY <1>1, <1>2, NumbersAddTells
<1> QED BY <1>4, <1>5

(* An acknowledgement of the log's end is made. *)
LEMMA NumbersAckMade ==
    ASSUME NEW m, NEW B, NEW u, NEW d \in Seq(Tells), NEW f \in Tells, IsAck(f, m),
           AckAhead(m, B, u, d), \A s \in B : s <= f.seq,
           \A k \in DOMAIN u : IsScoped(u[k], m) => u[k].upTo <= f.seq,
           \A k \in DOMAIN d : d[k].type \in {"row", "subscribed"} => d[k].seq <= f.seq
    PROVE  AckAhead(m, B, u, d \o <<f>>)
<1> DEFINE e == d \o <<f>>
<1>1. /\ \A k \in DOMAIN e : (k \in DOMAIN d /\ e[k] = d[k]) \/ (k = Len(d) + 1 /\ e[k] = f)
      /\ \A i \in DOMAIN d : i \in Nat /\ i <= Len(d)
      /\ Len(d) \in Nat
  <2>1. <<f>> \in Seq(Tells) /\ DOMAIN <<f>> = {1} /\ <<f>>[1] = f BY AppendOf
  <2>2. \A i \in DOMAIN e :
                 i \in DOMAIN d \/ (i > Len(d) /\ i \in Nat /\ i - Len(d) \in DOMAIN <<f>>
                                      /\ e[i] = <<f>>[i - Len(d)])
    BY <2>1, ConcatOf
  <2>3. \A i \in DOMAIN d : e[i] = d[i] /\ i \in Nat /\ i <= Len(d) BY <2>1, ConcatOf
  <2>4. Len(d) \in Nat OBVIOUS
  <2>5. \A i \in DOMAIN e : i \in DOMAIN d \/ (i = Len(d) + 1 /\ e[i] = f) BY <2>1, <2>2, <2>4
  <2> QED BY <2>3, <2>4, <2>5
<1> SUFFICES ASSUME NEW i \in DOMAIN e, IsAck(e[i], m)
             PROVE  /\ \A k \in DOMAIN u : IsScoped(u[k], m) => u[k].upTo <= e[i].seq
                    /\ \A k \in DOMAIN e : IsOwn(e[k], m) => e[k].seq <= e[i].seq
                    /\ \A k \in DOMAIN e : k < i /\ IsAck(e[k], m) => e[k].seq <= e[i].seq
                    /\ \A k \in DOMAIN e : k < i /\ e[k].type = "row" => e[k].seq <= e[i].seq
                    /\ \A k \in DOMAIN e : i < k /\ IsLive(e[k]) => e[k].seq > e[i].seq
                    /\ \A s \in B : s <= e[i].seq
  BY DEF AckAhead
<1>2. ~IsOwn(f, m) /\ ~IsLive(f) BY DEF IsAck, IsOwn, IsLive
<1>3. CASE i \in DOMAIN d /\ e[i] = d[i]
  <2>1. \A k \in DOMAIN e : k < i => k \in DOMAIN d /\ e[k] = d[k] BY <1>1, <1>3
  <2>2. \A k \in DOMAIN e : IsOwn(e[k], m) \/ IsLive(e[k]) => k \in DOMAIN d /\ e[k] = d[k]
    BY <1>1, <1>2
  <2> QED BY <1>3, <2>1, <2>2 DEF AckAhead
<1>4. CASE i = Len(d) + 1 /\ e[i] = f
  <2>1. \A k \in DOMAIN e : k < i => k \in DOMAIN d /\ e[k] = d[k] BY <1>1, <1>4
  <2>2. \A k \in DOMAIN e : IsOwn(e[k], m) => k \in DOMAIN d /\ e[k] = d[k] BY <1>1, <1>2
  <2>3. \A k \in DOMAIN e : ~(i < k) BY <1>1, <1>4
  <2> QED BY <1>4, <2>1, <2>2, <2>3 DEF IsOwn, IsAck
<1> QED BY <1>1, <1>3, <1>4

(* It is taken: the view asks for a replay up to it. *)
LEMMA NumbersTakeAck ==
    ASSUME NEW m, NEW B, NEW u \in Seq(Asks), NEW d \in Seq(Tells), d # <<>>,
           IsAck(Head(d), m), AckAhead(m, B, u, d),
           NEW f \in Asks, IsScoped(f, m), f.upTo = Head(d).seq
    PROVE  /\ AckAhead(m, {}, u \o <<f>>, Tail(d))
           /\ ReplayAhead(m, Head(d).seq, u \o <<f>>, Tail(d))
           /\ \A s \in B : s <= Head(d).seq
<1> DEFINE e == Tail(d)
           w == u \o <<f>>
<1>1. /\ \A k \in DOMAIN e : k + 1 \in DOMAIN d /\ e[k] = d[k + 1] /\ k \in Nat \ {0}
      /\ Head(d) = d[1] /\ 1 \in DOMAIN d /\ e \in Seq(Tells) /\ Head(d) \in Tells
  BY TailOf
<1>2. \A k \in DOMAIN w : (k \in DOMAIN u /\ w[k] = u[k]) \/ w[k] = f BY AppendOf, ConcatOf
<1>3. AckAhead(m, {}, u, e) BY NumbersTakeTell
<1>4. \A i \in DOMAIN e : IsAck(e[i], m) => f.upTo <= e[i].seq
  BY <1>1 DEF AckAhead
<1>5. AckAhead(m, {}, w, e) BY <1>2, <1>3, <1>4 DEF AckAhead
<1>6. /\ \A k \in DOMAIN u : IsScoped(u[k], m) => u[k].upTo <= Head(d).seq
      /\ \A k \in DOMAIN d : IsOwn(d[k], m) => d[k].seq <= Head(d).seq
      /\ \A k \in DOMAIN d : 1 < k /\ IsLive(d[k]) => d[k].seq > Head(d).seq
      /\ \A s \in B : s <= Head(d).seq
  BY <1>1 DEF AckAhead
<1>7. Head(d).seq \in Nat BY <1>1, TellFields DEF IsAck
<1>8. \A k \in DOMAIN e : 1 < k + 1 BY <1>1
<1>9. ReplayAhead(m, Head(d).seq, w, e) BY <1>1, <1>2, <1>6, <1>7, <1>8 DEF ReplayAhead
<1> QED BY <1>5, <1>6, <1>9

-----------------------------------------------------------------------------
(* Counting frames. *)

LEMMA HitsFinite ==
    ASSUME NEW S, NEW s \in Seq(S), NEW T
    PROVE  /\ IsFiniteSet(Hits(s, T)) /\ Cardinality(Hits(s, T)) \in Nat
           /\ Hits(s, T) # {} => Cardinality(Hits(s, T)) > 0
<1>1. DOMAIN s = 1 .. Len(s) /\ Len(s) \in Nat OBVIOUS
<1>2. Hits(s, T) \in SUBSET (1 .. Len(s)) BY <1>1 DEF Hits
<1>3. IsFiniteSet(1 .. Len(s)) BY <1>1, FS_Interval
<1>4. IsFiniteSet(Hits(s, T)) BY <1>2, <1>3, FS_Subset
<1>5. Cardinality(Hits(s, T)) \in Nat BY <1>4, FS_CardinalityType
<1>6. Hits(s, T) # {} => Cardinality(Hits(s, T)) # 0 BY <1>4, FS_EmptySet
<1> QED BY <1>4, <1>5, <1>6

LEMMA HitsTail ==
    ASSUME NEW S, NEW s \in Seq(S), s # <<>>, NEW T
    PROVE  Cardinality(Hits(s, T))
              = Cardinality(Hits(Tail(s), T)) + (IF Head(s) \in T THEN 1 ELSE 0)
<1> DEFINE H == Hits(s, T)
           R == Hits(Tail(s), T)
           f == [i \in H \ {1} |-> i - 1]
<1>1. Tail(s) \in Seq(S) /\ Head(s) = s[1] /\ 1 \in DOMAIN s BY TailOf
<1>2. IsFiniteSet(H) /\ IsFiniteSet(R) /\ Cardinality(R) \in Nat /\ Cardinality(H) \in Nat
  BY <1>1, HitsFinite
<1>3. \A i \in H \ {1} : i \in Nat /\ i - 1 \in R /\ i \in DOMAIN s BY TailOf DEF Hits
<1>4. \A k \in R : k \in Nat \ {0} /\ k + 1 \in H BY TailOf DEF Hits
<1>5. f \in [H \ {1} -> R] BY <1>3
<1>6. \A k \in R : k + 1 \in H \ {1} /\ f[k + 1] = k
  <2> TAKE k \in R
  <2>1. k \in Nat \ {0} /\ k + 1 \in H /\ k + 1 # 1 /\ (k + 1) - 1 = k BY <1>4
  <2> QED BY <2>1
<1>7. f \in Surjection(H \ {1}, R) BY <1>5, <1>6 DEF Surjection
<1>8. \A i, k \in H \ {1} : f[i] = f[k] => i = k
  <2> SUFFICES ASSUME NEW i \in H \ {1}, NEW k \in H \ {1}, f[i] = f[k] PROVE i = k
    OBVIOUS
  <2>1. i \in Nat /\ k \in Nat /\ i - 1 = k - 1 BY <1>3
  <2> QED BY <2>1
<1>9. f \in Bijection(H \ {1}, R) BY <1>5, <1>7, <1>8 DEF Bijection, Injection, IsInjective
<1>10. IsFiniteSet(H \ {1}) /\ Cardinality(H \ {1}) =
            IF 1 \in H THEN Cardinality(H) - 1 ELSE Cardinality(H)
  BY <1>2, FS_RemoveElement
<1>11. ExistsBijection(H \ {1}, R) BY <1>9 DEF ExistsBijection
<1>12. Cardinality(R) = Cardinality(H \ {1}) BY <1>10, <1>11, FS_Bijection
<1>13. 1 \in H <=> Head(s) \in T BY <1>1 DEF Hits
<1>14. CASE Head(s) \in T BY <1>2, <1>10, <1>12, <1>13, <1>14
<1>15. CASE Head(s) \notin T BY <1>2, <1>10, <1>12, <1>13, <1>15
<1> QED BY <1>14, <1>15

LEMMA HitsNone ==
    ASSUME NEW S, NEW s \in Seq(S), NEW t \in Seq(S), NEW T, \A j \in DOMAIN t : t[j] \notin T
    PROVE  Hits(s \o t, T) = Hits(s, T)
BY ConcatOf DEF Hits

LEMMA HitsOne ==
    ASSUME NEW S, NEW s \in Seq(S), NEW f \in S, NEW T
    PROVE  Cardinality(Hits(s \o <<f>>, T))
              = Cardinality(Hits(s, T)) + (IF f \in T THEN 1 ELSE 0)
<1>1. <<f>> \in Seq(S) /\ DOMAIN <<f>> = {1} /\ <<f>>[1] = f BY AppendOf
<1>2. IsFiniteSet(Hits(s, T)) /\ Cardinality(Hits(s, T)) \in Nat BY HitsFinite
<1>3. CASE f \notin T
  <2>1. Hits(s \o <<f>>, T) = Hits(s, T) BY <1>1, <1>3, HitsNone
  <2> QED BY <1>2, <1>3, <2>1
<1>4. CASE f \in T
  <2>1. /\ Len(s) \in Nat /\ DOMAIN s = 1 .. Len(s)
        /\ \A i \in DOMAIN s : i \in DOMAIN (s \o <<f>>) /\ (s \o <<f>>)[i] = s[i]
        /\ Len(s) + 1 \in DOMAIN (s \o <<f>>) /\ (s \o <<f>>)[Len(s) + 1] = f
    BY <1>1, ConcatOf
  <2>2. \A i \in DOMAIN (s \o <<f>>) : i \in DOMAIN s \/ i = Len(s) + 1
    <3>1. \A i \in DOMAIN (s \o <<f>>) :
             i \in DOMAIN s \/ (i \in Nat /\ i - Len(s) \in DOMAIN <<f>>)
      BY <1>1, ConcatOf
    <3> QED BY <1>1, <2>1, <3>1
  <2>3. Hits(s \o <<f>>, T) = Hits(s, T) \cup {Len(s) + 1} BY <1>4, <2>1, <2>2 DEF Hits
  <2>4. Len(s) + 1 \notin Hits(s, T) BY <2>1 DEF Hits
  <2>5. Cardinality(Hits(s, T) \cup {Len(s) + 1}) = Cardinality(Hits(s, T)) + 1
    BY <1>2, <2>4, FS_AddElement
  <2> QED BY <1>4, <2>3, <2>5
<1> QED BY <1>3, <1>4

LEMMA TokenFrames ==
    ASSUME NEW m
    PROVE  /\ \A f \in Asks : f \in AskTokens(m) <=>
                 f.type \in {"subscribe", "replay-from-scoped"} /\ f.view = m
           /\ \A f \in Tells : f \in TellTokens(m) <=>
                 f.type \in {"subscribed", "done"} /\ f.view = m
BY DEF AskTokens, TellTokens

(* Without a token nothing is owed. *)
LEMMA NoTokens ==
    ASSUME NEW m, NEW u \in Seq(Asks), NEW d \in Seq(Tells),
           Cardinality(Hits(u, AskTokens(m))) + Cardinality(Hits(d, TellTokens(m))) <= 0
    PROVE  /\ ~In(u, "subscribe", m) /\ ~In(u, "replay-from-scoped", m)
           /\ ~In(d, "subscribed", m) /\ ~In(d, "done", m)
           /\ \A r : ~Owing(m, u, d, r)
<1>1. /\ Cardinality(Hits(u, AskTokens(m))) \in Nat /\ Cardinality(Hits(d, TellTokens(m))) \in Nat
      /\ Hits(u, AskTokens(m)) # {} => Cardinality(Hits(u, AskTokens(m))) > 0
      /\ Hits(d, TellTokens(m)) # {} => Cardinality(Hits(d, TellTokens(m))) > 0
  BY HitsFinite
<1>2. Hits(u, AskTokens(m)) = {} /\ Hits(d, TellTokens(m)) = {} BY <1>1
<1>3. \A i \in DOMAIN u : ~(u[i].type \in {"subscribe", "replay-from-scoped"} /\ u[i].view = m)
  BY <1>2, SeqHas, TokenFrames DEF Hits
<1>4. \A i \in DOMAIN d : ~(d[i].type \in {"subscribed", "done"} /\ d[i].view = m)
  BY <1>2, SeqHas, TokenFrames DEF Hits
<1>5. /\ ~In(u, "subscribe", m) /\ ~In(u, "replay-from-scoped", m)
      /\ ~In(d, "subscribed", m) /\ ~In(d, "done", m)
  BY <1>3, <1>4 DEF In
<1> QED BY <1>4, <1>5 DEF Owing

-----------------------------------------------------------------------------
(* Numbers in order. *)

LEMMA AppliedIsLast ==
    ASSUME NEW v, NEW n \in Nat, v.shown \subseteq 1 .. n
    PROVE  /\ Applied(v) \in v.shown \cup {0} /\ Applied(v) \in Nat
           /\ \A r \in v.shown : r <= Applied(v)
<1> DEFINE A == v.shown \cup {0}
           T == {k \in Nat : \A r \in v.shown : r <= k}
<1>1. n \in T /\ T \subseteq Nat OBVIOUS
<1>2. PICK k \in T : \A y \in T : ~(<<y, k>> \in OpToRel(<, Nat))
  BY <1>1, NatLessThanWellFounded, WFMin
<1>3. \A y \in T : ~(y < k) BY <1>1, <1>2 DEF OpToRel
<1>4. k \in A
  <2> SUFFICES ASSUME k \notin A PROVE FALSE
    OBVIOUS
  <2>0. k \in Nat /\ k # 0 BY <1>2
  <2>a. \A r \in v.shown : r <= k BY <1>2
  <2>b. \A r \in v.shown : r # k OBVIOUS
  <2>c. \A r \in v.shown : r \in Nat OBVIOUS
  <2>1. \A r \in v.shown : r <= k /\ r # k /\ r \in Nat BY <2>a, <2>b, <2>c
  <2>2. k - 1 \in Nat /\ \A r \in v.shown : r <= k - 1 BY <2>0, <2>1
  <2>3. k - 1 \in T /\ k - 1 < k BY <2>0, <2>2
  <2> QED BY <1>3, <2>3
<1>5. \E s \in A : \A r \in v.shown : r <= s BY <1>2, <1>4
<1>6. Applied(v) \in A /\ \A r \in v.shown : r <= Applied(v)
  BY <1>5 DEF Applied
<1> QED BY <1>6

LEMMA AscendingLists ==
    ASSUME NEW rows \in SUBSET Nat, IsFiniteSet(rows), NEW q \in Ascending(rows)
    PROVE  /\ q \in Seq(rows) /\ \A i \in DOMAIN q : q[i] \in rows
           /\ \A r \in rows : \E i \in DOMAIN q : q[i] = r
           /\ \A i, j \in DOMAIN q : q[i] < q[j] => i < j
           /\ DOMAIN q \subseteq Nat
<1>1. Cardinality(rows) \in Nat BY FS_CardinalityType
<1>2. q \in [1 .. Cardinality(rows) -> rows] BY DEF Ascending
<1>3. q \in Seq(rows) BY <1>1, <1>2
<1>4. /\ IsFiniteSet(1 .. Cardinality(rows))
      /\ Cardinality(1 .. Cardinality(rows)) = Cardinality(rows)
  BY <1>1, FS_Interval
<1>5. \A i, j \in DOMAIN q : i < j => q[i] < q[j] BY DEF Ascending
<1>d. DOMAIN q = 1 .. Cardinality(rows) /\ \A i \in DOMAIN q : q[i] \in rows BY <1>2
<1>e. \A r \in rows : r \in Nat OBVIOUS
<1>f. \A i \in 1 .. Cardinality(rows) : i \in Nat BY <1>1
<1>0. \A i \in DOMAIN q : i \in Nat /\ q[i] \in Nat BY <1>d, <1>e, <1>f
<1>6. \A i, j \in DOMAIN q : /\ i \in Nat /\ j \in Nat /\ q[i] \in Nat /\ q[j] \in Nat
                             /\ i = j \/ i < j \/ j < i
  BY <1>0
<1>7. \A i, j \in DOMAIN q : q[i] = q[j] => i = j BY <1>5, <1>6
<1>8. \A i, j \in DOMAIN q : q[i] < q[j] => i < j
  <2> SUFFICES ASSUME NEW i \in DOMAIN q, NEW j \in DOMAIN q, q[i] < q[j], ~(i < j) PROVE FALSE
    OBVIOUS
  <2>1. i = j \/ j < i BY <1>6
  <2>2. CASE i = j BY <1>6, <2>2
  <2>3. CASE j < i BY <1>5, <1>6, <2>3
  <2> QED BY <2>1, <2>2, <2>3
<1>9. q \in Injection(1 .. Cardinality(rows), rows)
  BY <1>2, <1>7 DEF Injection, IsInjective
<1>10. q \in Surjection(1 .. Cardinality(rows), rows) BY <1>4, <1>9, FS_Injection
<1>11. \A r \in rows : \E i \in DOMAIN q : q[i] = r BY <1>2, <1>10 DEF Surjection
<1> QED BY <1>1, <1>2, <1>3, <1>8, <1>11

-----------------------------------------------------------------------------
(* What the steps have in common. *)

LEMMA MissingType ==
    ASSUME ChatTyped, NEW m \in Views
    PROVE  /\ Missing(m) \in SUBSET Nat
           /\ \A r \in Missing(m) : r \in DOMAIN own /\ r \in Nat /\ r <= Len(own) /\ own[r]
<1>1. DOMAIN own = 1 .. Len(own) /\ Len(own) \in Nat BY DEF ChatTyped
<1> QED BY <1>1 DEF Missing, Rows

LEMMA SameRows ==
    ASSUME UNCHANGED <<log, view, history>>
    PROVE  \A m : Missing(m)' = Missing(m) /\ (Fine(m)' <=> Fine(m))
BY DEF Missing, Rows, Fine, IsMounted, log, history

LEMMA ViewFields ==
    ASSUME ChatTyped, NEW m \in Views
    PROVE  /\ view[m].sub \in Nat /\ view[m].upTo \in Nat /\ view[m].replaying \in BOOLEAN
           /\ view[m].buffer \in SUBSET Nat /\ view[m].shown \in SUBSET Nat
           /\ view[m].owed \in Nat /\ view[m].is \in {"none", "mounted", "disposed"}
           /\ view[m] \in Mounts
BY DEF ChatTyped, Mounts

LEMMA ClientFields ==
    ASSUME ChatTyped
    PROVE  /\ client.state \in {"away", "connecting", "recovering", "connected"}
           /\ client.seq \in Nat /\ client.epoch \in Nat /\ client.asked \in Nat
BY DEF ChatTyped

(* The server takes a request; the shape of the wire is as before. *)
LEMMA Asked ==
    ASSUME ChatTyped, Bounded, Handshake, Unheard, NEW type, Received(type)
    PROVE  /\ up # <<>> /\ up' = Tail(up) /\ Head(up).type = type /\ Head(up) \in Asks
           /\ Head(up) = up[1] /\ 1 \in DOMAIN up
           /\ Tail(up) \in Seq(Asks) /\ up \in Seq(Asks)
           /\ \A i \in DOMAIN up' : i + 1 \in DOMAIN up /\ up'[i] = up[i + 1] /\ i \in Nat \ {0}
           /\ \A i \in DOMAIN up : i # 1 => i - 1 \in DOMAIN up' /\ up'[i - 1] = up[i] /\ i \in Nat
           /\ type # "replay-from" => Online
           /\ type = "replay-from" => up' = <<>> /\ client.state = "recovering"
<1>1. up # <<>> /\ up' = Tail(up) /\ Head(up).type = type /\ up \in Seq(Asks)
  BY DEF Received, ChatTyped
<1>2. /\ Head(up) = up[1] /\ 1 \in DOMAIN up /\ Head(up) \in Asks /\ Tail(up) \in Seq(Asks)
      /\ \A i \in DOMAIN up' : i + 1 \in DOMAIN up /\ up'[i] = up[i + 1] /\ i \in Nat \ {0}
      /\ \A i \in DOMAIN up : i # 1 => i - 1 \in DOMAIN up' /\ up'[i - 1] = up[i] /\ i \in Nat
  BY <1>1, TailOf
<1>3. type # "replay-from" => Online BY <1>1, <1>2 DEF Handshake
<1>4. type = "replay-from" => up' = <<>> /\ client.state = "recovering"
  <2> HAVE type = "replay-from"
  <2>1. client.state = "recovering" BY <1>1, <1>2 DEF Handshake
  <2>2. Len(up) = 1 BY <1>2, <2>1 DEF Handshake, Online
  <2>3. Tail(up) = <<>> BY <1>1, <2>2
  <2> QED BY <1>1, <2>1, <2>3
<1> QED BY <1>1, <1>2, <1>3, <1>4

-----------------------------------------------------------------------------
(* The server's steps. *)

LEMMA SubscribeKeeps ==
    ASSUME ChatIInv, Subscribe
    PROVE  ChatIInv'
<1> DEFINE n == Head(up).view
           f == [type |-> "subscribed", view |-> n, seq |-> Len(own), sub |-> socket]
<1>0. /\ ChatTyped /\ Bounded /\ Handshake /\ Unheard /\ Acquainted /\ Withdrawn /\ Counted
      /\ Numbered /\ Fused
  BY DEF ChatIInv
<1>1. /\ Received("subscribe") /\ subs' = subs \cup {n} /\ down' = Append(down, f)
      /\ UNCHANGED <<log, socket, client, pending, view, cuts, history>>
  BY DEF Subscribe
<1>2. /\ up # <<>> /\ up' = Tail(up) /\ Head(up).type = "subscribe" /\ Head(up) \in Asks
      /\ Head(up) = up[1] /\ 1 \in DOMAIN up /\ Online
      /\ Tail(up) \in Seq(Asks) /\ up \in Seq(Asks)
      /\ \A i \in DOMAIN up' : i + 1 \in DOMAIN up /\ up'[i] = up[i + 1] /\ i \in Nat \ {0}
      /\ \A i \in DOMAIN up : i # 1 => i - 1 \in DOMAIN up' /\ up'[i - 1] = up[i] /\ i \in Nat
  BY <1>0, <1>1, Asked
<1>3. /\ UNCHANGED <<own, floor, boot, agree, socket, client, pending, view, cuts, early, leaked,
                     dropped, skipped>>
      /\ Len(own) \in Nat /\ socket \in Nat /\ down \in Seq(Tells) /\ n \in Views
  BY <1>0, <1>1, <1>2, AskFields DEF log, history, ChatTyped
<1>4. f \in Tells /\ f.type = "subscribed" /\ f.view = n /\ f.seq = Len(own) /\ f.sub = socket
  BY <1>3 DEF Tells
<1>5. /\ down' = down \o <<f>> /\ <<f>> \in Seq(Tells) /\ DOMAIN <<f>> = {1} /\ <<f>>[1] = f
      /\ down' \in Seq(Tells)
  BY <1>1, <1>3, <1>4, AppendOf, ConcatOf
<1>6. \A i \in DOMAIN down' : (i \in DOMAIN down /\ down'[i] = down[i]) \/ down'[i] = f
  BY <1>3, <1>5, ConcatOf
<1>7. \A m : Missing(m)' = Missing(m) /\ (Fine(m)' <=> Fine(m)) BY <1>1, SameRows
<1>8. \A type, m : /\ In(up', type, m) => In(up, type, m)
                   /\ In(up, type, m) => (type = "subscribe" /\ m = n) \/ In(up', type, m)
  BY <1>2, InTail
<1>9. \A type, m : In(down', type, m) <=> In(down, type, m) \/ (type = "subscribed" /\ m = n)
  BY <1>3, <1>4, <1>5, InOne
<1>a. ChatTyped' BY <1>0, <1>2, <1>3, <1>5, <1>1 DEF ChatTyped
<1>b. Bounded' BY <1>0, <1>2, <1>3, <1>4, <1>6 DEF Bounded
<1>c. Handshake' BY <1>0, <1>2, <1>3, <1>4, <1>6 DEF Handshake, Online, Shake, EverReady
<1>d. Unheard' BY <1>0, <1>1, <1>2, <1>3, <1>4, <1>6, <1>8 DEF Unheard, IsMounted
<1>e. Acquainted'
  <2>1. \A i \in DOMAIN down' : down'[i].type = "subscribed" => down'[i].sub = socket
    BY <1>0, <1>4, <1>6 DEF Acquainted
  <2>2. ASSUME NEW m \in Views, IsMounted(m)
        PROVE  /\ view[m].sub # socket =>
                   /\ ~In(up', "replay-from-scoped", m) /\ ~In(down', "done", m)
                   /\ m \in subs' \/ In(up', "subscribe", m) \/ In(pending, "subscribe", m)
                        => view[m].owed > 0
               /\ m \in subs' \/ In(up', "subscribe", m)
    <3>1. In(up, "subscribe", n) BY <1>2 DEF In
    <3> QED BY <1>0, <1>1, <1>2, <1>8, <1>9, <2>2, <3>1 DEF Acquainted
  <2> QED BY <1>0, <1>3, <2>1, <2>2 DEF Acquainted, IsMounted, Online
<1>f. Withdrawn'
  <2> SUFFICES ASSUME NEW m \in Views, ~IsMounted(m), m \notin leaked
               PROVE  /\ m \in subs' => \E i \in DOMAIN up' : up'[i] = Farewell(m)
                      /\ \A i \in DOMAIN up' : up'[i].type = "subscribe" /\ up'[i].view = m =>
                            \E j \in DOMAIN up' : i < j /\ up'[j] = Farewell(m)
                      /\ ~In(pending, "subscribe", m)
    BY <1>3 DEF Withdrawn, IsMounted, Farewell
  <2>1. Farewell(m).type = "unsubscribe" BY DEF Farewell
  <2>2. \A i \in DOMAIN up : up[i] = Farewell(m) => i - 1 \in DOMAIN up' /\ up'[i - 1] = Farewell(m)
    BY <1>2, <2>1
  <2>3. m \in subs' => \E i \in DOMAIN up : up[i] = Farewell(m)
    BY <1>0, <1>1, <1>2 DEF Withdrawn
  <2>4. ASSUME NEW i \in DOMAIN up', up'[i].type = "subscribe", up'[i].view = m
        PROVE  \E j \in DOMAIN up' : i < j /\ up'[j] = Farewell(m)
    <3>1. PICK j \in DOMAIN up : i + 1 < j /\ up[j] = Farewell(m)
      BY <1>0, <1>2, <2>4 DEF Withdrawn
    <3>2. j \in Nat /\ i \in Nat /\ i < j - 1 BY <1>2, <3>1, TailOf
    <3> QED BY <2>2, <3>1, <3>2
  <2> QED BY <1>0, <2>2, <2>3, <2>4 DEF Withdrawn
<1>g. Counted'
  <2>1. ASSUME NEW m \in Views, IsMounted(m)
        PROVE  view[m].owed >= Cardinality(Hits(up', AskTokens(m)))
                                 + Cardinality(Hits(down', TellTokens(m)))
    <3>1. Cardinality(Hits(up, AskTokens(m))) = Cardinality(Hits(up', AskTokens(m)))
                + (IF Head(up) \in AskTokens(m) THEN 1 ELSE 0)
      BY <1>2, HitsTail
    <3>2. Cardinality(Hits(down', TellTokens(m))) = Cardinality(Hits(down, TellTokens(m)))
                + (IF f \in TellTokens(m) THEN 1 ELSE 0)
      BY <1>3, <1>4, <1>5, HitsOne
    <3>3. Head(up) \in AskTokens(m) <=> f \in TellTokens(m) BY <1>2, <1>4, TokenFrames
    <3>4. /\ Cardinality(Hits(up', AskTokens(m))) \in Nat
          /\ Cardinality(Hits(down, TellTokens(m))) \in Nat
      BY <1>2, <1>3, HitsFinite
    <3>5. view[m].owed >= Cardinality(Hits(up, AskTokens(m)))
                            + Cardinality(Hits(down, TellTokens(m)))
      BY <1>0, <1>2, <2>1 DEF Counted
    <3>6. CASE Head(up) \in AskTokens(m) BY <3>1, <3>2, <3>3, <3>4, <3>5, <3>6
    <3>7. CASE Head(up) \notin AskTokens(m) BY <3>1, <3>2, <3>3, <3>4, <3>5, <3>7
    <3> QED BY <3>6, <3>7
  <2>2. ASSUME NEW m \in Views, IsMounted(m)
        PROVE  /\ view[m].replaying => view[m].owed > 0
               /\ view[m].replaying => In(up', "replay-from-scoped", m) \/ In(down', "done", m)
               /\ ~view[m].replaying => view[m].buffer = {}
    BY <1>0, <1>2, <1>8, <1>9, <2>2 DEF Counted
  <2> QED BY <1>3, <2>1, <2>2 DEF Counted, IsMounted
<1>h. Numbered'
  <2> SUFFICES ASSUME NEW m \in Views
               PROVE  /\ AckAhead(m, view[m].buffer, up', down')
                      /\ view[m].replaying => ReplayAhead(m, view[m].upTo, up', down')
    BY <1>3 DEF Numbered
  <2>1. /\ AckAhead(m, view[m].buffer, up', down)
        /\ view[m].replaying => ReplayAhead(m, view[m].upTo, up', down)
    BY <1>0, <1>2, <1>3, NumbersTakeAsk DEF Numbered
  <2>3. view[m].replaying => ReplayAhead(m, view[m].upTo, up', down')
    BY <1>3, <1>4, <1>5, <2>1, NumbersAddTell
  <2>4. CASE IsAck(f, m)
    <3>1. \A s \in view[m].buffer : s <= Len(own)
      BY <1>0, <1>3, ViewFields, ClientFields DEF Bounded
    <3>2. \A k \in DOMAIN up' : IsScoped(up'[k], m) => up'[k].upTo <= Len(own)
      BY <1>0, <1>2 DEF Bounded, IsScoped
    <3>3. \A k \in DOMAIN down : down[k].type \in {"row", "subscribed"} => down[k].seq <= Len(own)
      BY <1>0 DEF Bounded
    <3>4. AckAhead(m, view[m].buffer, up', down \o <<f>>)
      BY <1>3, <1>4, <2>1, <2>4, <3>1, <3>2, <3>3, NumbersAckMade
    <3> QED BY <1>5, <2>3, <3>4
  <2>5. CASE ~IsAck(f, m)
    <3>1. AckAhead(m, view[m].buffer, up', down \o <<f>>)
      BY <1>3, <1>4, <2>1, <2>5, NumbersAddTell
    <3> QED BY <1>5, <2>3, <3>1
  <2> QED BY <2>4, <2>5
<1>i. Fused'
  <2> SUFFICES ASSUME NEW m \in Views, Fine(m) PROVE Mended(m)'
    BY <1>7 DEF Fused
  <2>1. /\ \A r \in Missing(m), s \in view[m].shown : s < r
        /\ Complete(m, Missing(m), view[m].buffer, up, down, client.seq)
    BY <1>0, <1>2 DEF Fused, Mended
  <2>2. /\ Missing(m) \in SUBSET Nat /\ \A r \in Missing(m) : r <= Len(own)
    BY <1>0, MissingType
  <2>3. CASE m = n
    <3>1. IsAck(f, m) BY <1>4, <2>3 DEF IsAck
    <3>2. Complete(m, Missing(m), view[m].buffer, up', down \o <<f>>, client.seq)
      BY <1>2, <1>3, <1>4, <2>1, <2>2, <3>1, AckMade
    <3> QED BY <1>2, <1>3, <1>5, <1>7, <2>1, <3>2 DEF Mended, Online
  <2>4. CASE m # n
    <3>1. Complete(m, Missing(m), view[m].buffer, up', down, client.seq)
      BY <1>2, <1>3, <2>1, <2>2, <2>4, TakeAsk
    <3>2. ~IsOwn(f, m) BY <1>4 DEF IsOwn
    <3>3. Complete(m, Missing(m), view[m].buffer, up', down \o <<f>>, client.seq)
      BY <1>2, <1>3, <1>4, <2>2, <3>1, <3>2, AddTell
    <3> QED BY <1>2, <1>3, <1>5, <1>7, <2>1, <3>3 DEF Mended, Online
  <2> QED BY <2>3, <2>4
<1> QED BY <1>a, <1>b, <1>c, <1>d, <1>e, <1>f, <1>g, <1>h, <1>i DEF ChatIInv

LEMMA UnsubscribeKeeps ==
    ASSUME ChatIInv, Unsubscribe
    PROVE  ChatIInv'
<1> DEFINE n == Head(up).view
<1>0. /\ ChatTyped /\ Bounded /\ Handshake /\ Unheard /\ Acquainted /\ Withdrawn /\ Counted
      /\ Numbered /\ Fused
  BY DEF ChatIInv
<1>1. /\ Received("unsubscribe")
      /\ subs' = IF Head(up).sub = socket THEN subs \ {n} ELSE subs
      /\ UNCHANGED <<log, socket, down, client, pending, view, cuts, history>>
  BY DEF Unsubscribe
<1>2. /\ up # <<>> /\ up' = Tail(up) /\ Head(up).type = "unsubscribe" /\ Head(up) \in Asks
      /\ Head(up) = up[1] /\ 1 \in DOMAIN up /\ Online
      /\ Tail(up) \in Seq(Asks) /\ up \in Seq(Asks)
      /\ \A i \in DOMAIN up' : i + 1 \in DOMAIN up /\ up'[i] = up[i + 1] /\ i \in Nat \ {0}
      /\ \A i \in DOMAIN up : i # 1 => i - 1 \in DOMAIN up' /\ up'[i - 1] = up[i] /\ i \in Nat
  BY <1>0, <1>1, Asked
<1>3. /\ UNCHANGED <<own, floor, boot, agree, socket, down, client, pending, view, cuts, early,
                     leaked, dropped, skipped>>
      /\ down \in Seq(Tells) /\ n \in Views /\ subs' \subseteq subs
      /\ \A m \in subs : m # n => m \in subs'
  BY <1>0, <1>1, <1>2, AskFields DEF log, history, ChatTyped
<1>4. view[n].is = "disposed"
  <2>1. In(up, "unsubscribe", n) BY <1>2 DEF In
  <2> QED BY <1>0, <1>3, <2>1 DEF Unheard
<1>7. \A m : Missing(m)' = Missing(m) /\ (Fine(m)' <=> Fine(m)) BY <1>1, SameRows
<1>8. \A type, m : /\ In(up', type, m) => In(up, type, m)
                   /\ In(up, type, m) => type = "unsubscribe" \/ In(up', type, m)
  BY <1>2, InTail
<1>a. ChatTyped' BY <1>0, <1>2, <1>3 DEF ChatTyped
<1>b. Bounded' BY <1>0, <1>2, <1>3 DEF Bounded
<1>c. Handshake' BY <1>0, <1>2, <1>3 DEF Handshake, Online, Shake, EverReady
<1>d. Unheard' BY <1>0, <1>2, <1>3, <1>8 DEF Unheard, IsMounted
<1>e. Acquainted'
  <2>1. ASSUME NEW m \in Views, IsMounted(m)
        PROVE  /\ view[m].sub # socket =>
                   /\ ~In(up', "replay-from-scoped", m) /\ ~In(down, "done", m)
                   /\ m \in subs' \/ In(up', "subscribe", m) \/ In(pending, "subscribe", m)
                        => view[m].owed > 0
               /\ m \in subs' \/ In(up', "subscribe", m)
    <3>1. m # n BY <1>4, <2>1 DEF IsMounted
    <3> QED BY <1>0, <1>2, <1>3, <1>8, <2>1, <3>1 DEF Acquainted
  <2> QED BY <1>0, <1>3, <2>1 DEF Acquainted, IsMounted, Online
<1>f. Withdrawn'
  <2> SUFFICES ASSUME NEW m \in Views, ~IsMounted(m), m \notin leaked
               PROVE  /\ m \in subs' => \E i \in DOMAIN up' : up'[i] = Farewell(m)
                      /\ \A i \in DOMAIN up' : up'[i].type = "subscribe" /\ up'[i].view = m =>
                            \E j \in DOMAIN up' : i < j /\ up'[j] = Farewell(m)
                      /\ ~In(pending, "subscribe", m)
    BY <1>3 DEF Withdrawn, IsMounted, Farewell
  <2>1. /\ Farewell(m).type = "unsubscribe" /\ Farewell(m).view = m /\ Farewell(m).sub = socket
    BY DEF Farewell
  <2>2. ASSUME NEW j \in DOMAIN up, up[j] = Farewell(m), j # 1
        PROVE  j - 1 \in DOMAIN up' /\ up'[j - 1] = Farewell(m)
    BY <1>2, <2>2
  <2>3. ASSUME m \in subs' PROVE \E i \in DOMAIN up' : up'[i] = Farewell(m)
    <3>1. PICK i \in DOMAIN up : up[i] = Farewell(m) BY <1>0, <1>3, <2>3 DEF Withdrawn
    <3>2. i # 1 BY <1>1, <1>2, <2>1, <2>3, <3>1
    <3> QED BY <2>2, <3>1, <3>2
  <2>4. ASSUME NEW i \in DOMAIN up', up'[i].type = "subscribe", up'[i].view = m
        PROVE  \E j \in DOMAIN up' : i < j /\ up'[j] = Farewell(m)
    <3>1. PICK j \in DOMAIN up : i + 1 < j /\ up[j] = Farewell(m)
      BY <1>0, <1>2, <2>4 DEF Withdrawn
    <3>2. j \in Nat /\ i \in Nat \ {0} /\ i < j - 1 /\ j # 1 BY <1>2, <3>1, TailOf
    <3> QED BY <2>2, <3>1, <3>2
  <2> QED BY <1>0, <2>3, <2>4 DEF Withdrawn
<1>g. Counted'
  <2>1. ASSUME NEW m \in Views, IsMounted(m)
        PROVE  view[m].owed >= Cardinality(Hits(up', AskTokens(m)))
                                 + Cardinality(Hits(down, TellTokens(m)))
    <3>1. Cardinality(Hits(up, AskTokens(m))) = Cardinality(Hits(up', AskTokens(m)))
                + (IF Head(up) \in AskTokens(m) THEN 1 ELSE 0)
      BY <1>2, HitsTail
    <3>2. Head(up) \notin AskTokens(m) BY <1>2, TokenFrames
    <3>3. Cardinality(Hits(up', AskTokens(m))) \in Nat BY <1>2, HitsFinite
    <3>4. Cardinality(Hits(up, AskTokens(m))) = Cardinality(Hits(up', AskTokens(m)))
      BY <3>1, <3>2, <3>3
    <3> QED BY <1>0, <1>2, <2>1, <3>4 DEF Counted
  <2>2. ASSUME NEW m \in Views, IsMounted(m)
        PROVE  /\ view[m].replaying => view[m].owed > 0
               /\ view[m].replaying => In(up', "replay-from-scoped", m) \/ In(down, "done", m)
               /\ ~view[m].replaying => view[m].buffer = {}
    BY <1>0, <1>2, <1>8, <2>2 DEF Counted
  <2> QED BY <1>3, <2>1, <2>2 DEF Counted, IsMounted
<1>h. Numbered'
  <2> SUFFICES ASSUME NEW m \in Views
               PROVE  /\ AckAhead(m, view[m].buffer, up', down)
                      /\ view[m].replaying => ReplayAhead(m, view[m].upTo, up', down)
    BY <1>3 DEF Numbered
  <2> QED BY <1>0, <1>2, <1>3, NumbersTakeAsk DEF Numbered
<1>i. Fused'
  <2> SUFFICES ASSUME NEW m \in Views, Fine(m) PROVE Mended(m)'
    BY <1>7 DEF Fused
  <2>1. /\ \A r \in Missing(m), s \in view[m].shown : s < r
        /\ Complete(m, Missing(m), view[m].buffer, up, down, client.seq)
    BY <1>0, <1>2 DEF Fused, Mended
  <2>2. Missing(m) \in SUBSET Nat BY <1>0, MissingType
  <2>3. Complete(m, Missing(m), view[m].buffer, up', down, client.seq)
    BY <1>2, <1>3, <2>1, <2>2, TakeAsk
  <2> QED BY <1>2, <1>3, <1>7, <2>1, <2>3 DEF Mended, Online
<1> QED BY <1>a, <1>b, <1>c, <1>d, <1>e, <1>f, <1>g, <1>h, <1>i DEF ChatIInv

(* A page lists its rows in order. *)
Listing(page, via, m) == [i \in DOMAIN page |-> Row(page[i], via, m)]

LEMMA PageLists ==
    ASSUME ChatTyped, NEW S \in SUBSET DOMAIN own, NEW page \in Ascending(S),
           NEW via \in {"replay", "scoped"}, NEW m \in Views \cup {None}
    PROVE  LET t == Listing(page, via, m)
           IN  /\ t \in Seq(Tells)
               /\ \A i \in DOMAIN t : /\ t[i].type \in {"row", "other"} /\ t[i].seq \in S
                                      /\ t[i].view = m /\ t[i].via = via
                                      /\ t[i].type = "row" <=> own[t[i].seq]
               /\ \A r \in S : own[r] => \E i \in DOMAIN t : t[i].type = "row" /\ t[i].seq = r
               /\ \A j \in DOMAIN t, r \in S : own[r] /\ r < t[j].seq => Before(t, r, j)
<1> DEFINE t == Listing(page, via, m)
<1>1. DOMAIN own = 1 .. Len(own) /\ Len(own) \in Nat /\ \A s \in DOMAIN own : own[s] \in BOOLEAN
  BY DEF ChatTyped
<1>2. S \in SUBSET Nat /\ IsFiniteSet(S)
  <2>1. IsFiniteSet(1 .. Len(own)) BY <1>1, FS_Interval
  <2> QED BY <1>1, <2>1, FS_Subset
<1>3. /\ page \in Seq(S) /\ \A i \in DOMAIN page : page[i] \in S
      /\ \A r \in S : \E i \in DOMAIN page : page[i] = r
      /\ \A i, j \in DOMAIN page : page[i] < page[j] => i < j
  BY <1>2, AscendingLists
<1>4. \A s \in S : /\ Row(s, via, m) \in Tells /\ Row(s, via, m).seq = s
                   /\ Row(s, via, m).type \in {"row", "other"}
                   /\ Row(s, via, m).view = m /\ Row(s, via, m).via = via
                   /\ Row(s, via, m).type = "row" <=> own[s]
  <2> TAKE s \in S
  <2>1. s \in Nat /\ own[s] \in BOOLEAN BY <1>1, <1>2
  <2> QED BY <2>1 DEF Row, Tells, Copies
<1>5. DOMAIN t = DOMAIN page /\ \A i \in DOMAIN t : t[i] = Row(page[i], via, m) BY DEF Listing
<1>6. t \in Seq(Tells)
  <2>1. DOMAIN page = 1 .. Len(page) /\ Len(page) \in Nat BY <1>3
  <2>2. t \in [1 .. Len(page) -> Tells] BY <1>3, <1>4, <1>5, <2>1 DEF Listing
  <2> QED BY <2>1, <2>2
<1>7. \A i \in DOMAIN t : /\ t[i].type \in {"row", "other"} /\ t[i].seq \in S
                          /\ t[i].view = m /\ t[i].via = via /\ t[i].seq = page[i]
                          /\ t[i].type = "row" <=> own[t[i].seq]
  BY <1>3, <1>4, <1>5
<1>8. \A r \in S : own[r] => \E i \in DOMAIN t : t[i].type = "row" /\ t[i].seq = r
  BY <1>3, <1>5, <1>7
<1>9. ASSUME NEW j \in DOMAIN t, NEW r \in S, own[r], r < t[j].seq PROVE Before(t, r, j)
  <2>1. PICK i \in DOMAIN t : t[i].type = "row" /\ t[i].seq = r BY <1>8, <1>9
  <2>2. i < j BY <1>3, <1>5, <1>7, <1>9, <2>1
  <2> QED BY <2>1, <2>2 DEF Before
<1> QED BY <1>6, <1>7, <1>8, <1>9

LEMMA ConcatTwice ==
    ASSUME NEW S, NEW a \in Seq(S), NEW b \in Seq(S), NEW c \in Seq(S)
    PROVE  (a \o b) \o c = a \o (b \o c)
OBVIOUS

LEMMA ReplayScopedKeeps ==
    ASSUME ChatIInv, ReplayScoped
    PROVE  ChatIInv'
<1> DEFINE n == Head(up).view
           f == [type |-> "done", view |-> n]
           S == Scoped(Head(up).upTo)
<1>0. /\ ChatTyped /\ Bounded /\ Handshake /\ Unheard /\ Acquainted /\ Withdrawn /\ Counted
      /\ Numbered /\ Fused
  BY DEF ChatIInv
<1>1. /\ Received("replay-from-scoped")
      /\ UNCHANGED <<log, socket, subs, client, pending, view, cuts, history>>
  BY DEF ReplayScoped
<1>p. PICK page \in Ascending(S) :
         down' = down \o [i \in DOMAIN page |-> Row(page[i], "scoped", n)] \o <<f>>
  BY DEF ReplayScoped
<1> DEFINE t == Listing(page, "scoped", n)
           e == down \o t
<1>2. /\ up # <<>> /\ up' = Tail(up) /\ Head(up).type = "replay-from-scoped" /\ Head(up) \in Asks
      /\ Head(up) = up[1] /\ 1 \in DOMAIN up /\ Online
      /\ Tail(up) \in Seq(Asks) /\ up \in Seq(Asks)
      /\ \A i \in DOMAIN up' : i + 1 \in DOMAIN up /\ up'[i] = up[i + 1] /\ i \in Nat \ {0}
      /\ \A i \in DOMAIN up : i # 1 => i - 1 \in DOMAIN up' /\ up'[i - 1] = up[i] /\ i \in Nat
  BY <1>0, <1>1, Asked
<1>3. /\ UNCHANGED <<own, floor, boot, agree, socket, subs, client, pending, view, cuts, early,
                     leaked, dropped, skipped>>
      /\ down \in Seq(Tells) /\ n \in Views /\ Head(up).upTo \in Nat /\ Len(own) \in Nat
      /\ DOMAIN own = 1 .. Len(own)
  BY <1>0, <1>1, <1>2, AskFields DEF log, history, ChatTyped
<1>4. f \in Tells /\ f.type = "done" /\ f.view = n BY <1>3 DEF Tells
<1>5. /\ S \in SUBSET DOMAIN own
      /\ \A s \in S : own[s] /\ s <= Head(up).upTo /\ s \in Nat /\ s <= Len(own)
  BY <1>3 DEF Scoped, Rows
<1>6. /\ t \in Seq(Tells)
      /\ \A i \in DOMAIN t : /\ t[i].type = "row" /\ t[i].seq \in S
                             /\ t[i].view = n /\ t[i].via = "scoped"
      /\ \A r \in S : \E i \in DOMAIN t : t[i].type = "row" /\ t[i].seq = r
      /\ \A j \in DOMAIN t, r \in S : r < t[j].seq => Before(t, r, j)
  BY <1>0, <1>3, <1>5, PageLists
<1>q. down' = e \o <<f>> BY <1>p DEF Listing
<1>r. e = down \o t OBVIOUS
<1> HIDE DEF f, t, e, S
<1>7. /\ down' = e \o <<f>> /\ e \in Seq(Tells) /\ down' \in Seq(Tells)
      /\ <<f>> \in Seq(Tells) /\ down' = down \o (t \o <<f>>)
  <2>1. <<f>> \in Seq(Tells) BY <1>4
  <2>2. e \in Seq(Tells) BY <1>3, <1>6, <1>r
  <2>3. e \o <<f>> \in Seq(Tells) BY <1>4, <2>2, InOne
  <2>5. down \in Seq(Tells) /\ t \in Seq(Tells) BY <1>3, <1>6
  <2>6. (down \o t) \o <<f>> = down \o (t \o <<f>>) BY <2>1, <2>5, ConcatTwice
  <2>4. e \o <<f>> = down \o (t \o <<f>>) BY <1>r, <2>6
  <2> QED BY <1>q, <2>1, <2>2, <2>3, <2>4
<1>8. \A i \in DOMAIN e :
         \/ i \in DOMAIN down /\ e[i] = down[i]
         \/ e[i].type = "row" /\ e[i].seq \in S /\ e[i].view = n /\ e[i].via = "scoped"
  BY <1>3, <1>6, <1>r, ConcatOf
<1>9. \A i \in DOMAIN down' :
         \/ i \in DOMAIN down /\ down'[i] = down[i]
         \/ down'[i].type = "row" /\ down'[i].seq \in S /\ down'[i].view = n
              /\ down'[i].via = "scoped"
         \/ down'[i] = f
  BY <1>4, <1>7, <1>8, InOne
<1>10. \A m : Missing(m)' = Missing(m) /\ (Fine(m)' <=> Fine(m)) BY <1>1, SameRows
<1>11. \A type, m : /\ In(up', type, m) => In(up, type, m)
                    /\ In(up, type, m) => (type = "replay-from-scoped" /\ m = n)
                                            \/ In(up', type, m)
  BY <1>2, InTail
<1>12. \A type, m : type # "row" =>
          (In(down', type, m) <=> In(down, type, m) \/ (type = "done" /\ m = n))
  <2>1. \A type, m : In(down', type, m) <=> In(e, type, m) \/ (type = "done" /\ m = n)
    BY <1>4, <1>7, InOne
  <2>2. \A type, m : In(e, type, m) <=> In(down, type, m) \/ In(t, type, m)
    BY <1>3, <1>6, <1>r, InConcat
  <2>3. \A type, m : In(t, type, m) => type = "row" BY <1>6 DEF In
  <2> QED BY <2>1, <2>2, <2>3
<1>13. In(up, "replay-from-scoped", n) BY <1>2 DEF In
<1>a. ChatTyped' BY <1>0, <1>1, <1>2, <1>3, <1>7 DEF ChatTyped
<1>b. Bounded'
  <2>1. \A i \in DOMAIN down' :
          /\ down'[i].type \in {"row", "other", "subscribed"} => down'[i].seq <= Len(own)
          /\ down'[i].type \in {"row", "other"} => down'[i].seq \in DOMAIN own
          /\ down'[i].type = "other" => ~own[down'[i].seq]
    BY <1>0, <1>4, <1>5, <1>9 DEF Bounded
  <2> QED BY <1>0, <1>2, <1>3, <2>1 DEF Bounded
<1>c. Handshake' BY <1>0, <1>2, <1>3, <1>4, <1>9 DEF Handshake, Online, Shake, EverReady
<1>d. Unheard'
  <2>1. view[n].is # "none" BY <1>0, <1>2, <1>3 DEF Unheard
  <2>2. \A m \in Views : view[m].is = "none" =>
           \A i \in DOMAIN down' : down'[i].type \in {"subscribed", "done", "row"} =>
              down'[i].view # m
    BY <1>0, <1>4, <1>9, <2>1 DEF Unheard
  <2> QED BY <1>0, <1>2, <1>3, <1>11, <2>2 DEF Unheard, IsMounted
<1>e. Acquainted'
  <2>1. \A i \in DOMAIN down' : down'[i].type = "subscribed" => down'[i].sub = socket
    BY <1>0, <1>4, <1>9 DEF Acquainted
  <2>2. ASSUME NEW m \in Views, IsMounted(m)
        PROVE  /\ view[m].sub # socket =>
                   /\ ~In(up', "replay-from-scoped", m) /\ ~In(down', "done", m)
                   /\ m \in subs \/ In(up', "subscribe", m) \/ In(pending, "subscribe", m)
                        => view[m].owed > 0
               /\ m \in subs \/ In(up', "subscribe", m)
    BY <1>0, <1>2, <1>11, <1>12, <1>13, <2>2 DEF Acquainted
  <2> QED BY <1>0, <1>3, <2>1, <2>2 DEF Acquainted, IsMounted, Online
<1>f. Withdrawn'
  <2> SUFFICES ASSUME NEW m \in Views, ~IsMounted(m), m \notin leaked
               PROVE  /\ m \in subs => \E i \in DOMAIN up' : up'[i] = Farewell(m)
                      /\ \A i \in DOMAIN up' : up'[i].type = "subscribe" /\ up'[i].view = m =>
                            \E j \in DOMAIN up' : i < j /\ up'[j] = Farewell(m)
                      /\ ~In(pending, "subscribe", m)
    BY <1>3 DEF Withdrawn, IsMounted, Farewell
  <2>1. Farewell(m).type = "unsubscribe" BY DEF Farewell
  <2>2. \A i \in DOMAIN up : up[i] = Farewell(m) => i - 1 \in DOMAIN up' /\ up'[i - 1] = Farewell(m)
    BY <1>2, <2>1
  <2>4. ASSUME NEW i \in DOMAIN up', up'[i].type = "subscribe", up'[i].view = m
        PROVE  \E j \in DOMAIN up' : i < j /\ up'[j] = Farewell(m)
    <3>1. PICK j \in DOMAIN up : i + 1 < j /\ up[j] = Farewell(m)
      BY <1>0, <1>2, <2>4 DEF Withdrawn
    <3>2. j \in Nat /\ i \in Nat /\ i < j - 1 BY <1>2, <3>1, TailOf
    <3> QED BY <2>2, <3>1, <3>2
  <2> QED BY <1>0, <2>2, <2>4 DEF Withdrawn
<1>g. Counted'
  <2>1. ASSUME NEW m \in Views, IsMounted(m)
        PROVE  view[m].owed >= Cardinality(Hits(up', AskTokens(m)))
                                 + Cardinality(Hits(down', TellTokens(m)))
    <3>1. Cardinality(Hits(up, AskTokens(m))) = Cardinality(Hits(up', AskTokens(m)))
                + (IF Head(up) \in AskTokens(m) THEN 1 ELSE 0)
      BY <1>2, HitsTail
    <3>2. Cardinality(Hits(down', TellTokens(m))) = Cardinality(Hits(e, TellTokens(m)))
                + (IF f \in TellTokens(m) THEN 1 ELSE 0)
      BY <1>4, <1>7, HitsOne
    <3>a. \A j \in DOMAIN t : t[j] \notin TellTokens(m) BY <1>6, SeqHas, TokenFrames
    <3>b. Hits(e, TellTokens(m)) = Hits(down, TellTokens(m)) BY <1>3, <1>6, <1>r, <3>a, HitsNone
    <3>3. Head(up) \in AskTokens(m) <=> f \in TellTokens(m) BY <1>2, <1>4, TokenFrames
    <3>4. /\ Cardinality(Hits(up', AskTokens(m))) \in Nat
          /\ Cardinality(Hits(down, TellTokens(m))) \in Nat
      BY <1>2, <1>3, HitsFinite
    <3>5. view[m].owed >= Cardinality(Hits(up, AskTokens(m)))
                            + Cardinality(Hits(down, TellTokens(m)))
      BY <1>0, <1>2, <2>1 DEF Counted
    <3>6. CASE Head(up) \in AskTokens(m) BY <3>1, <3>2, <3>b, <3>3, <3>4, <3>5, <3>6
    <3>7. CASE Head(up) \notin AskTokens(m) BY <3>1, <3>2, <3>b, <3>3, <3>4, <3>5, <3>7
    <3> QED BY <3>6, <3>7
  <2>2. ASSUME NEW m \in Views, IsMounted(m)
        PROVE  /\ view[m].replaying => view[m].owed > 0
               /\ view[m].replaying => In(up', "replay-from-scoped", m) \/ In(down', "done", m)
               /\ ~view[m].replaying => view[m].buffer = {}
    BY <1>0, <1>2, <1>11, <1>12, <2>2 DEF Counted
  <2> QED BY <1>3, <2>1, <2>2 DEF Counted, IsMounted
<1>h. Numbered'
  <2> SUFFICES ASSUME NEW m \in Views
               PROVE  /\ AckAhead(m, view[m].buffer, up', down')
                      /\ view[m].replaying => ReplayAhead(m, view[m].upTo, up', down')
    BY <1>3 DEF Numbered
  <2>1. /\ AckAhead(m, view[m].buffer, up, down)
        /\ view[m].replaying => ReplayAhead(m, view[m].upTo, up, down)
    BY <1>0 DEF Numbered
  <2>2. /\ AckAhead(m, view[m].buffer, up', down)
        /\ view[m].replaying => ReplayAhead(m, view[m].upTo, up', down)
    BY <1>2, <1>3, <2>1, NumbersTakeAsk
  <2>3. \A j \in DOMAIN t : ~IsAck(t[j], m) /\ ~IsLive(t[j]) /\ (IsOwn(t[j], m) => m = n)
    BY <1>6 DEF IsAck, IsLive, IsOwn
  <2>4. ASSUME m = n, NEW j \in DOMAIN t
        PROVE  /\ \A i \in DOMAIN down : IsAck(down[i], m) => t[j].seq <= down[i].seq
               /\ view[m].replaying => t[j].seq <= view[m].upTo
    <3>1. IsScoped(up[1], m) BY <1>2, <2>4 DEF IsScoped
    <3>2. t[j].seq <= up[1].upTo /\ t[j].seq \in Nat /\ up[1].upTo \in Nat
      BY <1>2, <1>3, <1>5, <1>6, <2>4
    <3>3. ASSUME NEW i \in DOMAIN down, IsAck(down[i], m) PROVE t[j].seq <= down[i].seq
      <4>1. up[1].upTo <= down[i].seq BY <1>2, <2>1, <3>1, <3>3 DEF AckAhead
      <4>2. down[i].seq \in Nat BY <1>3, <3>3, SeqHas, TellFields DEF IsAck
      <4> QED BY <3>2, <4>1, <4>2
    <3>4. ASSUME view[m].replaying PROVE t[j].seq <= view[m].upTo
      <4>1. up[1].upTo <= view[m].upTo BY <1>2, <2>1, <3>1, <3>4 DEF ReplayAhead
      <4> QED BY <1>0, <3>2, <4>1, ViewFields
    <3> QED BY <3>3, <3>4
  <2>5. AckAhead(m, view[m].buffer, up', e)
    BY <1>3, <1>6, <1>r, <2>2, <2>3, <2>4, NumbersAddTells
  <2>6. view[m].replaying => ReplayAhead(m, view[m].upTo, up', e)
    BY <1>3, <1>6, <1>r, <2>2, <2>3, <2>4, NumbersAddTells
  <2>7. ~IsAck(f, m) BY <1>4 DEF IsAck
  <2> QED BY <1>4, <1>7, <2>5, <2>6, <2>7, NumbersAddTell
<1>i. Fused'
  <2> SUFFICES ASSUME NEW m \in Views, Fine(m) PROVE Mended(m)'
    BY <1>10 DEF Fused
  <2>1. /\ \A r \in Missing(m), s \in view[m].shown : s < r
        /\ Complete(m, Missing(m), view[m].buffer, up, down, client.seq)
    BY <1>0, <1>2 DEF Fused, Mended
  <2>2. /\ Missing(m) \in SUBSET Nat
        /\ \A r \in Missing(m) : r \in Rows /\ r > floor
    BY <1>0, MissingType DEF Missing
  <2>3. CASE m = n
    <3>1. IsScoped(Head(up), m) BY <1>2, <2>3 DEF IsScoped
    <3>2. \A r \in Missing(m) : r <= Head(up).upTo => r \in S
      BY <2>2 DEF S, Scoped, Fine
    <3> DEFINE a == t \o <<f>>
               z == Len(t) + 1
    <3>3. /\ a \in Seq(Tells) /\ z \in DOMAIN a /\ a[z] = f
          /\ \A j \in DOMAIN a : (j \in DOMAIN t /\ a[j] = t[j]) \/ a[j] = f
          /\ \A j \in DOMAIN t : j \in DOMAIN a /\ a[j] = t[j] /\ j < z
      BY <1>4, <1>6, InOne
    <3>4. \A r \in Missing(m) : r <= Head(up).upTo => Before(a, r, z)
      <4> SUFFICES ASSUME NEW r \in Missing(m), r <= Head(up).upTo PROVE Before(a, r, z)
        OBVIOUS
      <4>1. PICK i \in DOMAIN t : t[i].type = "row" /\ t[i].seq = r BY <1>6, <3>2
      <4> QED BY <3>3, <4>1 DEF Before
    <3>5. ASSUME NEW j \in DOMAIN a, NEW r \in Missing(m), IsOwn(a[j], m), r < a[j].seq
          PROVE  Before(a, r, j)
      <4>1. j \in DOMAIN t /\ a[j] = t[j] BY <1>4, <3>3, <3>5 DEF IsOwn
      <4>2. t[j].seq \in Nat /\ t[j].seq <= Head(up).upTo BY <1>5, <1>6, <4>1
      <4>3. r \in Nat /\ r <= Head(up).upTo BY <1>3, <2>2, <3>5, <4>1, <4>2
      <4>4. Before(t, r, j) BY <1>6, <3>2, <3>5, <4>1, <4>3
      <4> QED BY <1>4, <1>6, <1>7, <4>1, <4>4, BeforeConcat
    <3>6. Complete(m, Missing(m), view[m].buffer, Tail(up), down \o a, client.seq)
      <4>1. a[z].type = "done" /\ a[z].view = m BY <1>4, <2>3, <3>3
      <4>2. up \in Seq(Asks) /\ up # <<>> /\ down \in Seq(Tells) BY <1>2, <1>3
      <4> HIDE DEF a, z
      <4> QED BY <2>1, <2>2, <3>1, <3>3, <3>4, <3>5, <4>1, <4>2, ReplayMade
    <3> QED BY <1>2, <1>3, <1>7, <1>10, <2>1, <3>6 DEF Mended, Online
  <2>4. CASE m # n
    <3>1. Complete(m, Missing(m), view[m].buffer, up', down, client.seq)
      BY <1>2, <1>3, <2>1, <2>2, <2>4, TakeAsk
    <3>2. \A j \in DOMAIN t : ~IsOwn(t[j], m) BY <1>6, <2>4 DEF IsOwn
    <3>3. Complete(m, Missing(m), view[m].buffer, up', e, client.seq)
      BY <1>2, <1>3, <1>6, <1>r, <2>2, <3>1, <3>2, AddTells
    <3>4. ~IsOwn(f, m) BY <1>4 DEF IsOwn
    <3>5. Complete(m, Missing(m), view[m].buffer, up', e \o <<f>>, client.seq)
      BY <1>2, <1>4, <1>7, <2>2, <3>3, <3>4, AddTell
    <3> QED BY <1>2, <1>3, <1>7, <1>10, <2>1, <3>5 DEF Mended, Online
  <2> QED BY <2>3, <2>4
<1> QED BY <1>a, <1>b, <1>c, <1>d, <1>e, <1>f, <1>g, <1>h, <1>i DEF ChatIInv

(* Nothing of a view is on the socket before the connection is made.        *)
LEMMA QuietNumbers ==
    ASSUME NEW m, NEW B, NEW upTo, NEW u, NEW d,
           \A i \in DOMAIN u : ~IsScoped(u[i], m),
           \A i \in DOMAIN d : ~IsAck(d[i], m) /\ ~IsOwn(d[i], m) /\ ~IsLive(d[i])
    PROVE  AckAhead(m, B, u, d) /\ ReplayAhead(m, upTo, u, d)
BY DEF AckAhead, ReplayAhead

LEMMA ServerReplayKeeps ==
    ASSUME ChatIInv, ServerReplay
    PROVE  ChatIInv'
<1>0. /\ ChatTyped /\ Bounded /\ Handshake /\ Unheard /\ Acquainted /\ Withdrawn /\ Counted
      /\ Numbered /\ Fused
  BY DEF ChatIInv
<1>1. /\ Received("replay-from")
      /\ UNCHANGED <<log, socket, subs, client, pending, view, cuts, history>>
  BY DEF ServerReplay
<1>2. /\ up # <<>> /\ up' = <<>> /\ Head(up).type = "replay-from" /\ Head(up) \in Asks
      /\ Head(up) = up[1] /\ 1 \in DOMAIN up /\ client.state = "recovering" /\ ~Online
  BY <1>0, <1>1, Asked DEF Online
<1>3. /\ UNCHANGED <<own, floor, boot, agree, socket, subs, client, pending, view, cuts, early,
                     leaked, dropped, skipped>>
      /\ down \in Seq(Tells) /\ Head(up).since = client.asked /\ Len(own) \in Nat
      /\ DOMAIN own = 1 .. Len(own) /\ client.asked \in Nat
  BY <1>0, <1>1, <1>2, ClientFields DEF log, history, ChatTyped, Bounded
<1> DEFINE S == Later(Head(up).since)
<1>4. S \in SUBSET DOMAIN own BY DEF Later
<1>5. \E t \in Seq(Tells), f \in Tells :
         /\ down' = (down \o t) \o <<f>> /\ f.type \in {"complete", "gone"}
         /\ \A i \in DOMAIN t : /\ t[i].type \in {"row", "other"} /\ t[i].seq \in DOMAIN own
                                /\ t[i].view = None /\ t[i].via = "replay"
                                /\ t[i].type = "row" <=> own[t[i].seq]
         /\ agree => \A j \in DOMAIN t, r \in S : own[r] /\ r < t[j].seq => Before(t, r, j)
  <2>1. CASE agree
    <3> DEFINE f == [type |-> "complete"]
    <3>1. PICK page \in Ascending(S) :
             down' = down \o [i \in DOMAIN page |-> Row(page[i], "replay", None)] \o <<f>>
      BY <2>1 DEF ServerReplay
    <3> DEFINE t == Listing(page, "replay", None)
    <3>2. f \in Tells /\ f.type \in {"complete", "gone"} BY DEF Tells
    <3>3. down' = (down \o t) \o <<f>> BY <3>1 DEF Listing
    <3>4. /\ t \in Seq(Tells)
          /\ \A i \in DOMAIN t : /\ t[i].type \in {"row", "other"} /\ t[i].seq \in S
                                 /\ t[i].view = None /\ t[i].via = "replay"
                                 /\ t[i].type = "row" <=> own[t[i].seq]
          /\ \A j \in DOMAIN t, r \in S : own[r] /\ r < t[j].seq => Before(t, r, j)
      <4>1. None \in Views \cup {None} /\ "replay" \in {"replay", "scoped"} OBVIOUS
      <4> QED BY <1>0, <1>4, <4>1, PageLists
    <3> HIDE DEF t, f, S
    <3> QED BY <1>4, <3>2, <3>3, <3>4
  <2>2. CASE ~agree
    <3> DEFINE f == [type |-> "gone"]
    <3>1. down' = Append(down, f) BY <2>2 DEF ServerReplay
    <3>2. f \in Tells /\ f.type \in {"complete", "gone"} BY DEF Tells
    <3> HIDE DEF f
    <3>3. down' = down \o <<f>> BY <1>3, <3>1, <3>2, AppendOf
    <3>4. down \o <<>> = down /\ <<>> \in Seq(Tells) /\ DOMAIN <<>> = {} BY <1>3
    <3>5. down' = (down \o <<>>) \o <<f>> BY <3>3, <3>4
    <3> QED BY <2>2, <3>2, <3>4, <3>5
  <2> QED BY <2>1, <2>2
<1>6. PICK t \in Seq(Tells), f \in Tells :
         /\ down' = (down \o t) \o <<f>> /\ f.type \in {"complete", "gone"}
         /\ \A i \in DOMAIN t : /\ t[i].type \in {"row", "other"} /\ t[i].seq \in DOMAIN own
                                /\ t[i].view = None /\ t[i].via = "replay"
                                /\ t[i].type = "row" <=> own[t[i].seq]
         /\ agree => \A j \in DOMAIN t, r \in S : own[r] /\ r < t[j].seq => Before(t, r, j)
  BY <1>5
<1> DEFINE e == down \o t
<1>7. down' = e \o <<f>> /\ e = down \o t BY <1>6
<1> HIDE DEF e, S
<1>8. e \in Seq(Tells) BY <1>3, <1>7
<1>9. \A i \in DOMAIN e :
         \/ i \in DOMAIN down /\ e[i] = down[i]
         \/ /\ e[i].type \in {"row", "other"} /\ e[i].seq \in DOMAIN own
            /\ e[i].view = None /\ e[i].via = "replay"
            /\ e[i].type = "row" <=> own[e[i].seq]
  <2>1. down \in Seq(Tells) /\ t \in Seq(Tells) BY <1>3, <1>6
  <2>2. \A i \in DOMAIN (down \o t) :
           \/ i \in DOMAIN down /\ (down \o t)[i] = down[i]
           \/ \E j \in DOMAIN t : (down \o t)[i] = t[j]
    BY <2>1, ConcatOf
  <2>3. \A j \in DOMAIN t : /\ t[j].type \in {"row", "other"} /\ t[j].seq \in DOMAIN own
                            /\ t[j].view = None /\ t[j].via = "replay"
                            /\ t[j].type = "row" <=> own[t[j].seq]
    BY <1>6
  <2> QED BY <1>7, <2>2, <2>3
<1>10. /\ down' \in Seq(Tells)
       /\ \A i \in DOMAIN down' : \/ i \in DOMAIN e /\ down'[i] = e[i]
                                  \/ i = Len(e) + 1 /\ down'[i] = f
  BY <1>7, <1>8, InOne
<1>11. \A i \in DOMAIN down' :
          \/ i \in DOMAIN down /\ down'[i] = down[i]
          \/ /\ down'[i].type \in {"row", "other"} /\ down'[i].seq \in DOMAIN own
             /\ down'[i].view = None /\ down'[i].via = "replay"
             /\ down'[i].type = "row" <=> own[down'[i].seq]
          \/ i = Len(e) + 1 /\ down'[i].type \in {"complete", "gone"}
  BY <1>6, <1>9, <1>10
<1>12. \A m : Missing(m)' = Missing(m) /\ (Fine(m)' <=> Fine(m)) BY <1>1, SameRows
<1>13. \A type, m : ~In(up', type, m) BY <1>2 DEF In
<1>14. up' \in Seq(Asks) /\ DOMAIN up' = {} BY <1>2
<1>15. \A i \in DOMAIN down' : /\ down'[i].type \notin {"subscribed", "done"}
                               /\ down'[i].type = "row" =>
                                     down'[i].via = "replay" /\ down'[i].view = None
  BY <1>0, <1>2, <1>11 DEF Handshake
<1>16. subs = {} BY <1>0, <1>2 DEF Handshake
<1>17. \A m \in Views : m # None BY DEF Views, None
<1>a. ChatTyped' BY <1>0, <1>3, <1>10, <1>14, <1>1 DEF ChatTyped
<1>b. Bounded'
  <2>1. \A i \in DOMAIN down' :
          /\ down'[i].type \in {"row", "other", "subscribed"} => down'[i].seq <= Len(own)
          /\ down'[i].type \in {"row", "other"} => down'[i].seq \in DOMAIN own
          /\ down'[i].type = "other" => ~own[down'[i].seq]
    BY <1>0, <1>3, <1>11 DEF Bounded
  <2> QED BY <1>0, <1>3, <1>14, <2>1 DEF Bounded
<1>c. Handshake'
  <2>1. \A i \in DOMAIN down : down[i].type \notin Shake BY <1>0, <1>2 DEF Handshake
  <2>2. \A i, j \in DOMAIN down' :
           down'[i].type \in Shake /\ down'[j].type \in Shake => i = j
    BY <1>11, <2>1 DEF Shake
  <2>3. \A i \in DOMAIN down' : down'[i].type # "ack" BY <1>11, <2>1 DEF Shake
  <2>4. \A i \in DOMAIN down' : down'[i].type \in Shake =>
           /\ client.state \in {"connecting", "recovering"}
           /\ down'[i].type = "ack" => client.state = "connecting"
           /\ \A j \in DOMAIN down' : down'[j].type \in Shake => i = j
    BY <1>2, <2>2, <2>3
  <2> QED BY <1>0, <1>2, <1>3, <1>14, <1>15, <1>16, <2>4 DEF Handshake, Online, EverReady
<1>d. Unheard'
  <2>1. \A m \in Views, i \in DOMAIN down' :
           down'[i].type \in {"subscribed", "done", "row"} => down'[i].view # m
    BY <1>15, <1>17
  <2> QED BY <1>0, <1>3, <1>13, <1>14, <2>1 DEF Unheard, IsMounted
<1>e. Acquainted'
  <2>1. \A m : ~In(down', "done", m) BY <1>15 DEF In
  <2> QED BY <1>0, <1>2, <1>3, <1>13, <1>15, <2>1 DEF Acquainted, IsMounted, Online
<1>f. Withdrawn' BY <1>0, <1>3, <1>14, <1>16 DEF Withdrawn, IsMounted
<1>g. Counted' BY <1>0, <1>2, <1>3 DEF Counted, IsMounted, Online
<1>h. Numbered'
  <2>1. \A m \in Views, i \in DOMAIN down' :
           ~IsAck(down'[i], m) /\ ~IsOwn(down'[i], m) /\ ~IsLive(down'[i])
    BY <1>15, <1>17 DEF IsAck, IsOwn, IsLive
  <2>2. \A m \in Views : \A B, upTo :
           AckAhead(m, B, up', down') /\ ReplayAhead(m, upTo, up', down')
    BY <1>14, <2>1, QuietNumbers
  <2> QED BY <2>2 DEF Numbered
<1>i. Fused'
  <2> SUFFICES ASSUME NEW m \in Views, Fine(m) PROVE Mended(m)'
    BY <1>12 DEF Fused
  <2>1. /\ \A r \in Missing(m), s \in view[m].shown : s < r
        /\ view[m].owed = 0 => Recoverable(Missing(m), down, client.asked)
    BY <1>0, <1>2 DEF Fused, Mended, Cursor
  <2>2. /\ Missing(m) \in SUBSET Nat
        /\ \A r \in Missing(m) : r \in DOMAIN own /\ own[r] /\ r > floor
    BY <1>0, MissingType DEF Missing
  <2>3. ASSUME view[m].owed = 0 PROVE Recoverable(Missing(m), down', client.asked)
    <3>1. Recoverable(Missing(m), down, client.asked) BY <2>1, <2>3
    <3>2. \A r \in Missing(m) : r \in S BY <1>3, <2>2, <3>1 DEF S, Later, Recoverable
    <3>3. \A j \in DOMAIN t, r \in Missing(m) :
             t[j].type = "row" /\ r < t[j].seq => Before(t, r, j)
      BY <1>6, <2>2, <3>2 DEF Fine
    <3>4. Recoverable(Missing(m), e, client.asked)
      BY <1>3, <1>7, <2>2, <3>1, <3>3, RecoverAdds
    <3>5. <<f>> \in Seq(Tells) /\ DOMAIN <<f>> = {1} /\ <<f>>[1] = f
      BY <1>8, AppendOf
    <3>6. \A j \in DOMAIN <<f>> : <<f>>[j].type # "row" BY <1>6, <3>5
    <3>7. Recoverable(Missing(m), e \o <<f>>, client.asked)
      BY <1>8, <2>2, <3>4, <3>5, <3>6, RecoverAdds
    <3> QED BY <1>7, <3>7
  <2>4. Cursor' = client.asked /\ ~Online' BY <1>2, <1>3 DEF Cursor, Online
  <2> QED BY <1>3, <1>12, <2>1, <2>3, <2>4 DEF Mended
<1> QED BY <1>a, <1>b, <1>c, <1>d, <1>e, <1>f, <1>g, <1>h, <1>i DEF ChatIInv

-----------------------------------------------------------------------------
(* A row is logged. *)

LEMMA PublishMade ==
    ASSUME ChatTyped, Handshake, NEW mine \in BOOLEAN, Publish(mine)
    PROVE  /\ own' \in Seq(BOOLEAN) /\ Len(own') = Len(own) + 1 /\ own'[Len(own) + 1] = mine
           /\ \A s \in DOMAIN own : s \in DOMAIN own' /\ own'[s] = own[s]
           /\ DOMAIN own' = 1 .. Len(own) + 1
           /\ \E t \in Seq(Tells) :
                 /\ down' = down \o t
                 /\ \A i \in DOMAIN t : /\ t[i].type = (IF mine THEN "row" ELSE "other")
                                        /\ t[i].seq = Len(own) + 1 /\ t[i].via = "live"
                                        /\ t[i].view = None
                 /\ client.state = "away" \/ (~Online /\ mine) => t = <<>>
                 /\ mine /\ subs # {} /\ dropped' = {} => t # <<>>
           /\ dropped \subseteq dropped' /\ dropped' \subseteq dropped \cup {Len(own) + 1}
           /\ UNCHANGED <<floor, boot, agree, socket, subs, up, client, pending, view, cuts, early,
                          leaked, skipped>>
<1> DEFINE s == Len(own) + 1
           n == IF mine THEN Cardinality(subs) ELSE IF client.state = "away" THEN 0 ELSE 1
           copy == [type |-> IF mine THEN "row" ELSE "other", seq |-> s, via |-> "live",
                    view |-> None]
<1>1. own \in Seq(BOOLEAN) /\ down \in Seq(Tells) /\ Len(own) \in Nat /\ s \in Nat
      /\ DOMAIN own = 1 .. Len(own)
  BY DEF ChatTyped
<1>2. own' = Append(own, mine) BY DEF Publish
<1>3. PICK k \in 0 .. n :
         /\ down' = down \o [i \in 1 .. k |-> copy]
         /\ dropped' = IF k = 0 /\ n > 0 THEN dropped \cup {s} ELSE dropped
  BY DEF Publish
<1>4. /\ copy \in Tells /\ copy.type = (IF mine THEN "row" ELSE "other") /\ copy.seq = s
      /\ copy.via = "live" /\ copy.view = None
  BY <1>1 DEF Tells, Copies
<1>5. /\ IsFiniteSet(subs) /\ Cardinality(subs) \in Nat
      /\ Cardinality(subs) = 0 <=> subs = {}
  <2>1. IsFiniteSet(Views) BY ChatBounds, FS_Interval DEF Views
  <2>2. IsFiniteSet(subs) BY <2>1, FS_Subset DEF ChatTyped
  <2> QED BY <2>2, FS_CardinalityType, FS_EmptySet
<1>6. ~Online => subs = {} BY DEF Handshake
<1>7. n \in Nat /\ k \in Nat
  <2>1. n \in Nat BY <1>5
  <2> QED BY <1>3, <2>1
<1> DEFINE t == [i \in 1 .. k |-> copy]
<1>8. t \in Seq(Tells) /\ DOMAIN t = 1 .. k /\ \A i \in DOMAIN t : t[i] = copy
  <2> HIDE DEF copy
  <2> QED BY <1>4, <1>7
<1>9. client.state = "away" \/ (~Online /\ mine) => n = 0 BY <1>5, <1>6 DEF Online
<1>10. n = 0 => t = <<>>
  <2> HIDE DEF copy, n
  <2> SUFFICES ASSUME n = 0 PROVE t = <<>> OBVIOUS
  <2>1. k = 0 BY <1>3, <1>7
  <2>2. DOMAIN t = {} BY <1>8, <2>1
  <2> QED BY <1>8, <2>2
<1>11. mine /\ subs # {} /\ dropped' = {} => t # <<>>
  <2> SUFFICES ASSUME mine, subs # {}, dropped' = {} PROVE t # <<>> OBVIOUS
  <2>1. n > 0 BY <1>5
  <2> HIDE DEF n, copy
  <2>2. k # 0 BY <1>3, <2>1
  <2>3. 1 \in DOMAIN t BY <1>7, <1>8, <2>2
  <2> QED BY <2>3
<1>12. \E x \in Seq(Tells) :
          /\ down' = down \o x
          /\ \A i \in DOMAIN x : /\ x[i].type = (IF mine THEN "row" ELSE "other")
                                 /\ x[i].seq = s /\ x[i].via = "live" /\ x[i].view = None
          /\ client.state = "away" \/ (~Online /\ mine) => x = <<>>
          /\ mine /\ subs # {} /\ dropped' = {} => x # <<>>
  <2>1. down' = down \o t BY <1>3
  <2> HIDE DEF t, copy, n
  <2> QED BY <1>4, <1>8, <1>9, <1>10, <1>11, <2>1
<1>13. dropped \subseteq dropped' /\ dropped' \subseteq dropped \cup {s}
  <2> HIDE DEF copy, n
  <2> QED BY <1>3
<1>14. /\ own' \in Seq(BOOLEAN) /\ Len(own') = s /\ own'[s] = mine
       /\ \A x \in DOMAIN own : x \in DOMAIN own' /\ own'[x] = own[x]
       /\ DOMAIN own' = 1 .. s
  BY <1>1, <1>2
<1>15. UNCHANGED <<floor, boot, agree, socket, subs, up, client, pending, view, cuts, early,
                   leaked, skipped>>
  BY DEF Publish
<1> HIDE DEF n, copy, t
<1> QED BY <1>12, <1>13, <1>14, <1>15

LEMMA PublishKeeps ==
    ASSUME ChatIInv, NEW mine \in BOOLEAN, Publish(mine)
    PROVE  ChatIInv'
<1> DEFINE s == Len(own) + 1
<1>0. /\ ChatTyped /\ Bounded /\ Handshake /\ Unheard /\ Acquainted /\ Withdrawn /\ Counted
      /\ Numbered /\ Fused
  BY DEF ChatIInv
<1>1. /\ own' \in Seq(BOOLEAN) /\ Len(own') = s /\ own'[s] = mine
      /\ \A x \in DOMAIN own : x \in DOMAIN own' /\ own'[x] = own[x]
      /\ DOMAIN own' = 1 .. s
      /\ dropped \subseteq dropped' /\ dropped' \subseteq dropped \cup {s}
      /\ UNCHANGED <<floor, boot, agree, socket, subs, up, client, pending, view, cuts, early,
                     leaked, skipped>>
  BY <1>0, PublishMade
<1>2. PICK t \in Seq(Tells) :
         /\ down' = down \o t
         /\ \A i \in DOMAIN t : /\ t[i].type = (IF mine THEN "row" ELSE "other")
                                /\ t[i].seq = s /\ t[i].via = "live" /\ t[i].view = None
         /\ client.state = "away" \/ (~Online /\ mine) => t = <<>>
         /\ mine /\ subs # {} /\ dropped' = {} => t # <<>>
  BY <1>0, PublishMade
<1>3. /\ down \in Seq(Tells) /\ up \in Seq(Asks) /\ Len(own) \in Nat /\ s \in Nat
      /\ DOMAIN own = 1 .. Len(own) /\ floor \in Nat /\ floor <= Len(own)
      /\ client.seq <= Len(own) /\ client.seq \in Nat /\ client.asked \in Nat
      /\ Len(own) < s
  BY <1>0, ClientFields DEF ChatTyped, Bounded
<1> HIDE DEF s
<1>4. /\ down' \in Seq(Tells)
      /\ \A i \in DOMAIN down : i \in DOMAIN down' /\ down'[i] = down[i]
      /\ \A i \in DOMAIN down' :
            \/ i \in DOMAIN down /\ down'[i] = down[i]
            \/ /\ down'[i].type = (IF mine THEN "row" ELSE "other")
               /\ down'[i].seq = s /\ down'[i].via = "live" /\ down'[i].view = None
               /\ ~(client.state = "away" \/ (~Online /\ mine))
  <2>1. down \o t \in Seq(Tells) BY <1>3, ConcatOf
  <2>2. \A i \in DOMAIN (down \o t) :
           \/ i \in DOMAIN down /\ (down \o t)[i] = down[i]
           \/ \E j \in DOMAIN t : (down \o t)[i] = t[j]
    BY <1>3, ConcatOf
  <2>3. t = <<>> => DOMAIN t = {} OBVIOUS
  <2>4. \A i \in DOMAIN down : i \in DOMAIN (down \o t) /\ (down \o t)[i] = down[i]
    BY <1>3, ConcatOf
  <2>5. \A j \in DOMAIN t : ~(client.state = "away" \/ (~Online /\ mine)) BY <1>2, <2>3
  <2> QED BY <1>2, <2>1, <2>2, <2>4, <2>5
<1>5. \A type, m : type # "row" /\ type # "other" => (In(down', type, m) <=> In(down, type, m))
  <2>1. \A type, m : In(down \o t, type, m) <=> In(down, type, m) \/ In(t, type, m)
    BY <1>3, InConcat
  <2>2. \A type, m : type # "row" /\ type # "other" => ~In(t, type, m) BY <1>2 DEF In
  <2> QED BY <1>2, <2>1, <2>2
<1>17. \A m \in Views : m # None BY DEF Views, None
<1>a. ChatTyped'
  <2>1. dropped' \subseteq Nat BY <1>0, <1>1, <1>3 DEF ChatTyped
  <2> QED BY <1>0, <1>1, <1>4, <2>1 DEF ChatTyped
<1>b. Bounded'
  <2>1. \A i \in DOMAIN down' :
          /\ down'[i].type \in {"row", "other", "subscribed"} => down'[i].seq <= s
          /\ down'[i].type \in {"row", "other"} => down'[i].seq \in DOMAIN own'
          /\ down'[i].type = "other" => ~own'[down'[i].seq]
    <3> TAKE i \in DOMAIN down'
    <3>1. CASE i \in DOMAIN down /\ down'[i] = down[i]
      <4>1. down[i].type \in {"row", "other", "subscribed"} =>
               down[i].seq <= Len(own) /\ down[i].seq \in Nat
        BY <1>0, <1>3, <3>1, SeqHas, TellFields DEF Bounded
      <4>2. /\ down[i].type \in {"row", "other"} => down[i].seq \in DOMAIN own
            /\ down[i].type = "other" => ~own[down[i].seq]
        BY <1>0, <3>1 DEF Bounded
      <4>3. /\ down[i].type \in {"row", "other"} => down[i].seq \in DOMAIN own'
            /\ down[i].type = "other" => ~own'[down[i].seq]
        BY <1>1, <4>2
      <4> QED BY <1>3, <3>1, <4>1, <4>3
    <3>2. CASE /\ down'[i].type = (IF mine THEN "row" ELSE "other") /\ down'[i].seq = s
      BY <1>1, <1>3, <3>2
    <3> QED BY <1>4, <3>1, <3>2
  <2>2. \A m \in Views : /\ view[m].shown \subseteq 1 .. s /\ view[m].upTo <= s
                         /\ \A x \in view[m].buffer : x <= client.seq
    <3> TAKE m \in Views
    <3>1. view[m].shown \subseteq 1 .. Len(own) /\ view[m].upTo <= Len(own) /\ view[m].upTo \in Nat
      BY <1>0, ViewFields DEF Bounded
    <3>2. 1 .. Len(own) \subseteq 1 .. s BY <1>3
    <3> QED BY <1>0, <1>3, <3>1, <3>2 DEF Bounded
  <2>3. \A i \in DOMAIN up : /\ up[i].type = "replay-from-scoped" => up[i].upTo <= s
                             /\ up[i].type = "replay-from" => up[i].since = client.asked
    <3> TAKE i \in DOMAIN up
    <3>1. up[i].type = "replay-from-scoped" => up[i].upTo <= Len(own) /\ up[i].upTo \in Nat
      BY <1>0, <1>3, SeqHas, AskFields DEF Bounded
    <3> QED BY <1>0, <1>3, <3>1 DEF Bounded
  <2> QED BY <1>1, <1>3, <2>1, <2>2, <2>3 DEF Bounded
<1>c. Handshake'
  <2>1. client.state = "away" => down' = <<>>
    <3> SUFFICES ASSUME client.state = "away" PROVE down' = <<>> OBVIOUS
    <3>1. down = <<>> /\ t = <<>> BY <1>0, <1>2 DEF Handshake
    <3> QED BY <1>2, <3>1
  <2>2. client.state = "connecting" => down' # <<>> /\ Head(down').type = "ack"
    <3> SUFFICES ASSUME client.state = "connecting"
                 PROVE  down' # <<>> /\ Head(down').type = "ack"
      OBVIOUS
    <3>1. down # <<>> /\ Head(down).type = "ack" BY <1>0 DEF Handshake
    <3>2. 1 \in DOMAIN down /\ Head(down) = down[1] BY <1>3, <3>1, TailOf
    <3>3. 1 \in DOMAIN down' /\ down'[1] = down[1] BY <1>4, <3>2
    <3>4. down' # <<>> BY <3>3
    <3>5. Head(down') = down'[1] BY <1>4, <3>4, TailOf
    <3> QED BY <3>1, <3>2, <3>3, <3>4, <3>5
  <2>3. ~Online => \A i \in DOMAIN down' :
                     /\ down'[i].type \notin {"subscribed", "done"}
                     /\ down'[i].type = "row" => down'[i].via = "replay" /\ down'[i].view = None
    BY <1>0, <1>4 DEF Handshake
  <2>4. \A i \in DOMAIN down' : down'[i].type \in Shake =>
           i \in DOMAIN down /\ down'[i] = down[i]
    BY <1>4 DEF Shake
  <2> QED BY <1>0, <1>1, <2>1, <2>2, <2>3, <2>4 DEF Handshake, Online, EverReady
<1>d. Unheard'
  <2>1. \A m \in Views : view[m].is = "none" =>
           \A i \in DOMAIN down' : down'[i].type \in {"subscribed", "done", "row"} =>
              down'[i].view # m
    BY <1>0, <1>4, <1>17 DEF Unheard
  <2> QED BY <1>0, <1>1, <2>1 DEF Unheard, IsMounted
<1>e. Acquainted'
  <2>1. \A i \in DOMAIN down' : down'[i].type = "subscribed" => down'[i].sub = socket
    BY <1>0, <1>4 DEF Acquainted
  <2> QED BY <1>0, <1>1, <1>5, <2>1 DEF Acquainted, IsMounted, Online
<1>f. Withdrawn' BY <1>0, <1>1 DEF Withdrawn, IsMounted, Farewell
<1>g. Counted'
  <2>1. \A m : Hits(down', TellTokens(m)) = Hits(down, TellTokens(m))
    <3> TAKE m
    <3>1. \A j \in DOMAIN t : t[j] \notin TellTokens(m) BY <1>2, SeqHas, TokenFrames
    <3> QED BY <1>2, <1>3, <3>1, HitsNone
  <2> QED BY <1>0, <1>1, <1>5, <2>1 DEF Counted, IsMounted, Online
<1>h. Numbered'
  <2> SUFFICES ASSUME NEW m \in Views
               PROVE  /\ AckAhead(m, view[m].buffer, up, down')
                      /\ view[m].replaying => ReplayAhead(m, view[m].upTo, up, down')
    BY <1>1 DEF Numbered
  <2>1. /\ AckAhead(m, view[m].buffer, up, down)
        /\ view[m].replaying => ReplayAhead(m, view[m].upTo, up, down)
    BY <1>0 DEF Numbered
  <2>2. \A j \in DOMAIN t : ~IsAck(t[j], m) /\ ~IsOwn(t[j], m) /\ t[j].seq = s
    BY <1>2, <1>17 DEF IsAck, IsOwn
  <2>3. \A i \in DOMAIN down : IsAck(down[i], m) => s > down[i].seq
    <3> SUFFICES ASSUME NEW i \in DOMAIN down, IsAck(down[i], m) PROVE s > down[i].seq
      OBVIOUS
    <3>1. down[i].seq \in Nat /\ down[i].seq <= Len(own)
      BY <1>0, <1>3, SeqHas, TellFields DEF IsAck, Bounded
    <3> QED BY <1>3, <3>1
  <2>4. s > view[m].upTo
    <3>1. view[m].upTo \in Nat /\ view[m].upTo <= Len(own) BY <1>0, ViewFields DEF Bounded
    <3> QED BY <1>3, <3>1
  <2>5. AckAhead(m, view[m].buffer, up, down \o t)
    BY <1>3, <2>1, <2>2, <2>3, NumbersAddTells
  <2>6. view[m].replaying => ReplayAhead(m, view[m].upTo, up, down \o t)
    BY <1>3, <2>1, <2>2, <2>4, NumbersAddTells
  <2> QED BY <1>2, <2>5, <2>6
<1>i. Fused'
  <2> SUFFICES ASSUME NEW m \in Views, Fine(m)' PROVE Mended(m)'
    BY DEF Fused
  <2>0. Fine(m) /\ dropped' = {} /\ IsMounted(m) BY <1>1 DEF Fine, IsMounted
  <2>1. /\ \A r \in Missing(m), x \in view[m].shown : x < r
        /\ Online => Complete(m, Missing(m), view[m].buffer, up, down, client.seq)
        /\ ~Online /\ view[m].owed = 0 => Recoverable(Missing(m), down, Cursor)
    BY <1>0, <2>0 DEF Fused, Mended
  <2>2. /\ Missing(m) \in SUBSET Nat /\ \A r \in Missing(m) : r <= Len(own)
    BY <1>0, MissingType
  <2>3. view[m].shown \subseteq 1 .. Len(own) BY <1>0 DEF Bounded
  <2>4. Missing(m)' = Missing(m) \cup (IF mine THEN {s} ELSE {})
    <3>1. Rows' = Rows \cup (IF mine THEN {s} ELSE {})
      <4>1. DOMAIN own' = DOMAIN own \cup {s} BY <1>1, <1>3 DEF s
      <4> QED BY <1>1, <4>1 DEF Rows
    <3>2. s > floor /\ s \notin view[m].shown BY <1>3, <2>3
    <3> QED BY <1>1, <3>1, <3>2 DEF Missing
  <2>5. \A r \in Missing(m)', x \in view[m].shown : x < r
    <3>1. \A x \in view[m].shown : x < s BY <1>3, <2>3
    <3> QED BY <2>1, <2>4, <3>1
  <2>6. \A j \in DOMAIN down' : down'[j].type \in {"row", "other"} => down'[j].seq <= s
    BY <1>b, <1>1 DEF Bounded
  <2>7. ASSUME Online PROVE Complete(m, Missing(m)', view[m].buffer, up, down', client.seq)
    <3>1. \A j \in DOMAIN t : ~IsOwn(t[j], m) BY <1>2, <1>17 DEF IsOwn
    <3>2. Complete(m, Missing(m), view[m].buffer, up, down \o t, client.seq)
      BY <1>3, <2>1, <2>2, <2>7, <3>1, AddTells
    <3>3. CASE ~mine
      <4>1. Missing(m)' = Missing(m) BY <2>4, <3>3
      <4> QED BY <1>2, <3>2, <4>1
    <3>4. CASE mine
      <4>1. Missing(m)' = Missing(m) \cup {s} BY <2>4, <3>4
      <4>2. Coming(m, up, down', s)
        <5>1. CASE In(up, "subscribe", m) BY <5>1 DEF Coming
        <5>2. CASE m \in subs
          <6>1. t # <<>> BY <1>2, <2>0, <3>4, <5>2
          <6>2. 1 \in DOMAIN t BY <6>1, TailOf
          <6>3. /\ Len(down) + 1 \in DOMAIN (down \o t)
                /\ (down \o t)[Len(down) + 1] = t[1]
            BY <1>3, <6>2, ConcatOf
          <6> QED BY <1>2, <3>4, <6>2, <6>3 DEF Coming
        <5>3. m \in subs \/ In(up, "subscribe", m) BY <1>0, <2>0, <2>7 DEF Acquainted
        <5> QED BY <5>1, <5>2, <5>3
      <4>3. client.seq < s BY <1>3
      <4>4. Complete(m, Missing(m) \cup {s}, view[m].buffer, up, down', client.seq)
        BY <1>2, <1>3, <1>4, <2>2, <2>6, <3>2, <4>2, <4>3, AddRow
      <4> QED BY <4>1, <4>4
    <3> QED BY <3>3, <3>4
  <2>8. ASSUME ~Online, view[m].owed = 0 PROVE Recoverable(Missing(m)', down', Cursor)
    <3>1. Recoverable(Missing(m), down, Cursor) BY <2>1, <2>8
    <3>2. \A j \in DOMAIN t : t[j].type # "row"
      <4>1. t = <<>> => DOMAIN t = {} OBVIOUS
      <4> QED BY <1>2, <2>8, <4>1
    <3>3. Recoverable(Missing(m), down', Cursor)
      BY <1>2, <1>3, <2>2, <3>1, <3>2, RecoverAdds
    <3>4. Cursor \in Nat /\ Cursor < s
      <4>1. CASE client.state = "recovering"
        <5>1. client.asked <= client.seq BY <1>0, <4>1 DEF Handshake
        <5> QED BY <1>3, <4>1, <5>1 DEF Cursor
      <4>2. CASE client.state # "recovering" BY <1>3, <4>2 DEF Cursor
      <4> QED BY <4>1, <4>2
    <3>5. Recoverable(Missing(m) \cup {s}, down', Cursor)
      BY <1>3, <1>4, <2>2, <2>6, <3>3, <3>4, RecoverGrows
    <3>6. CASE mine
      <4>1. Missing(m)' = Missing(m) \cup {s} BY <2>4, <3>6
      <4> QED BY <3>5, <4>1
    <3>7. CASE ~mine
      <4>1. Missing(m)' = Missing(m) BY <2>4, <3>7
      <4> QED BY <3>3, <4>1
    <3> QED BY <3>6, <3>7
  <2>9. Cursor' = Cursor /\ (Online' <=> Online) BY <1>1 DEF Cursor, Online
  <2> QED BY <1>1, <2>5, <2>7, <2>8, <2>9 DEF Mended
<1> QED BY <1>a, <1>b, <1>c, <1>d, <1>e, <1>f, <1>g, <1>h, <1>i DEF ChatIInv

-----------------------------------------------------------------------------
(* The socket's steps. *)

LEMMA SocketLost ==
    ASSUME ChatIInv, NEW state \in {"away", "connecting"},
           client' = [client EXCEPT !.state = state],
           up' = <<>>, subs' = {}, down' \in Seq(Tells),
           state = "away" => down' = <<>>, state = "connecting" => down' # <<>>,
           \A i \in DOMAIN down' : i = 1 /\ down'[i].type = "ack",
           UNCHANGED <<own, pending, view, early, leaked, dropped>>,
           socket' \in Nat, socket <= socket', socket' = socket => ~Online,
           floor' \in Nat, floor' <= Len(own), boot' \in Nat \ {0}, agree' \in BOOLEAN,
           cuts' \in Nat, skipped' \in BOOLEAN,
           \A m \in Views : Fine(m)' =>
              /\ \A r \in Missing(m)', s \in view[m].shown : s < r
              /\ view[m].owed = 0 => \A r \in Missing(m)' : r > client.seq
    PROVE  ChatIInv'
<1>0. /\ ChatTyped /\ Bounded /\ Handshake /\ Unheard /\ Acquainted /\ Withdrawn /\ Counted
      /\ Numbered /\ Fused
  BY DEF ChatIInv
<1>1. /\ client'.state = state /\ client'.seq = client.seq /\ client'.epoch = client.epoch
      /\ client'.asked = client.asked
      /\ client' \in [state : {"away", "connecting", "recovering", "connected"},
                      seq : Nat, epoch : Nat, asked : Nat]
  BY <1>0 DEF ChatTyped
<1>2. /\ ~Online' /\ Cursor' = client.seq /\ state # "recovering" BY <1>1 DEF Online, Cursor
<1>3. up' \in Seq(Asks) /\ DOMAIN up' = {} OBVIOUS
<1>4. \A type, m : ~In(up', type, m) BY <1>3 DEF In
<1>5. \A type, m : type # "ack" => ~In(down', type, m) BY DEF In
<1>6. socket \in Nat \ {0} BY <1>0 DEF ChatTyped
<1>7. \A m \in Views : view[m].sub <= socket' /\ view[m].sub # socket'
  <2> TAKE m \in Views
  <2>1. /\ view[m].sub \in Nat /\ view[m].sub <= socket
        /\ view[m].sub = socket => Online
    BY <1>0, ViewFields DEF Acquainted
  <2> QED BY <1>6, <2>1
<1>a. ChatTyped'
  <2>1. socket' \in Nat \ {0} BY <1>6
  <2>2. own' \in Seq(BOOLEAN) /\ pending' \in Seq(Asks) /\ view' \in [Views -> Mounts]
    BY <1>0 DEF ChatTyped
  <2>3. /\ subs' \subseteq Views /\ early' \subseteq Views /\ leaked' \subseteq Views
        /\ dropped' \subseteq Nat
    BY <1>0 DEF ChatTyped
  <2> QED BY <1>1, <1>3, <2>1, <2>2, <2>3 DEF ChatTyped
<1>b. Bounded' BY <1>0, <1>1, <1>3 DEF Bounded
<1>c. Handshake'
  <2>1. state = "connecting" => Head(down').type = "ack"
    <3> HAVE state = "connecting"
    <3>1. Head(down') = down'[1] /\ 1 \in DOMAIN down' BY TailOf
    <3> QED BY <3>1
  <2> QED BY <1>0, <1>1, <1>2, <1>3, <2>1 DEF Handshake, Shake
<1>d. Unheard' BY <1>0, <1>3, <1>4 DEF Unheard, IsMounted
<1>e. Acquainted'
  <2>1. ASSUME NEW m \in Views, IsMounted(m), In(pending, "subscribe", m)
        PROVE  view[m].owed > 0
    <3>1. ~Online
      <4>1. pending = <<>> => DOMAIN pending = {} OBVIOUS
      <4> QED BY <1>0, <2>1, <4>1 DEF Handshake, In
    <3>2. view[m].sub # socket BY <1>0, <3>1 DEF Acquainted
    <3> QED BY <1>0, <2>1, <3>2 DEF Acquainted
  <2> QED BY <1>2, <1>4, <1>5, <1>7, <2>1 DEF Acquainted, IsMounted
<1>f. Withdrawn' BY <1>0, <1>3 DEF Withdrawn, IsMounted
<1>g. Counted' BY <1>0, <1>2 DEF Counted, IsMounted
<1>h. Numbered'
  <2>1. \A m, B, upTo : AckAhead(m, B, up', down') /\ ReplayAhead(m, upTo, up', down')
    <3> TAKE m, B, upTo
    <3>1. \A i \in DOMAIN down' :
             ~IsAck(down'[i], m) /\ ~IsOwn(down'[i], m) /\ ~IsLive(down'[i])
      BY DEF IsAck, IsOwn, IsLive
    <3>2. \A i \in DOMAIN up' : ~IsScoped(up'[i], m) BY <1>3
    <3> QED BY <3>1, <3>2, QuietNumbers
  <2> QED BY <2>1 DEF Numbered
<1>i. Fused'
  <2> SUFFICES ASSUME NEW m \in Views, Fine(m)' PROVE Mended(m)'
    BY DEF Fused
  <2>1. view[m].owed = 0 => Recoverable(Missing(m)', down', client.seq) BY DEF Recoverable
  <2> QED BY <1>2, <2>1 DEF Mended
<1> QED BY <1>a, <1>b, <1>c, <1>d, <1>e, <1>f, <1>g, <1>h, <1>i DEF ChatIInv

LEMMA ConnectKeeps ==
    ASSUME ChatIInv, Connect
    PROVE  ChatIInv'
<1> DEFINE f == [type |-> "ack", epoch |-> boot]
<1>0. ChatTyped /\ Bounded /\ Handshake /\ Fused BY DEF ChatIInv
<1>1. /\ client.state = "away" /\ client' = [client EXCEPT !.state = "connecting"]
      /\ down' = <<f>> /\ UNCHANGED <<log, socket, subs, up, pending, view, cuts, history>>
  BY DEF Connect
<1>2. f \in Tells /\ f.type = "ack" BY <1>0 DEF ChatTyped, Tells
<1> HIDE DEF f
<1>3. /\ down' \in Seq(Tells) /\ down' # <<>>
      /\ \A i \in DOMAIN down' : i = 1 /\ down'[i].type = "ack"
  BY <1>1, <1>2
<1>4. up' = <<>> /\ subs' = {} /\ ~Online BY <1>0, <1>1 DEF Handshake, Online
<1>5. /\ UNCHANGED <<own, pending, view, early, leaked, dropped>>
      /\ socket' = socket /\ socket' \in Nat /\ socket <= socket'
      /\ floor' \in Nat /\ floor' <= Len(own) /\ boot' \in Nat \ {0} /\ agree' \in BOOLEAN
      /\ cuts' \in Nat /\ skipped' \in BOOLEAN
  BY <1>0, <1>1 DEF ChatTyped, Bounded, log, history
<1>6. \A m : Missing(m)' = Missing(m) /\ (Fine(m)' <=> Fine(m)) BY <1>1, SameRows
<1>7. ASSUME NEW m \in Views, Fine(m)'
      PROVE  /\ \A r \in Missing(m)', s \in view[m].shown : s < r
             /\ view[m].owed = 0 => \A r \in Missing(m)' : r > client.seq
  BY <1>0, <1>1, <1>4, <1>6, <1>7 DEF Fused, Mended, Recoverable, Cursor
<1> QED BY <1>1, <1>3, <1>4, <1>5, <1>7, SocketLost

LEMMA CutKeeps ==
    ASSUME ChatIInv, Cut
    PROVE  ChatIInv'
<1>0. ChatTyped /\ Bounded /\ Handshake /\ Counted /\ Fused BY DEF ChatIInv
<1>1. /\ client' = [client EXCEPT !.state = "away"] /\ up' = <<>> /\ subs' = {} /\ down' = <<>>
      /\ socket' = socket + 1 /\ cuts' = cuts + 1
      /\ skipped' = (skipped \/ (client.state = "recovering" /\ client.seq > client.asked))
      /\ UNCHANGED <<own, floor, boot, agree, pending, view, early, leaked, dropped>>
  BY DEF Cut, SocketGone, log
<1>2. /\ down' \in Seq(Tells) /\ DOMAIN down' = {} /\ socket' \in Nat /\ socket <= socket'
      /\ socket' # socket /\ floor' \in Nat /\ floor' <= Len(own) /\ boot' \in Nat \ {0}
      /\ agree' \in BOOLEAN /\ cuts' \in Nat
  <2>1. down' = <<>> /\ down' \in Seq(Tells) /\ DOMAIN down' = {} BY <1>1
  <2>2. socket \in Nat /\ cuts \in Nat /\ boot \in Nat \ {0} /\ floor \in Nat
    BY <1>0 DEF ChatTyped
  <2>3. floor <= Len(own) BY <1>0 DEF Bounded
  <2>4. /\ socket' \in Nat /\ socket <= socket' /\ socket' # socket /\ floor' \in Nat
        /\ floor' <= Len(own) /\ boot' \in Nat \ {0} /\ cuts' \in Nat
    BY <1>1, <2>2, <2>3
  <2>5. agree' \in BOOLEAN BY <1>0, <1>1 DEF ChatTyped
  <2> QED BY <2>1, <2>4, <2>5
<1>3. skipped' \in BOOLEAN BY <1>0, <1>1 DEF ChatTyped
<1>4. ASSUME NEW m \in Views, Fine(m)'
      PROVE  /\ \A r \in Missing(m)', s \in view[m].shown : s < r
             /\ view[m].owed = 0 => \A r \in Missing(m)' : r > client.seq
  <2>1. Fine(m) /\ ~(client.state = "recovering" /\ client.seq > client.asked) /\ IsMounted(m)
    BY <1>1, <1>4 DEF Fine, IsMounted
  <2>2. Missing(m)' = Missing(m) BY <1>1 DEF Missing, Rows
  <2>3. Mended(m) BY <1>0, <2>1 DEF Fused
  <2>4. ASSUME view[m].owed = 0, NEW r \in Missing(m) PROVE r > client.seq
    <3>1. CASE Online
      <4>1. Complete(m, Missing(m), view[m].buffer, up, down, client.seq)
        BY <2>3, <3>1 DEF Mended
      <4>2. view[m].buffer = {} BY <1>0, <2>1, <2>4 DEF Counted
      <4>3. /\ Cardinality(Hits(up, AskTokens(m))) + Cardinality(Hits(down, TellTokens(m))) <= 0
            /\ up \in Seq(Asks) /\ down \in Seq(Tells)
        <5>1. up \in Seq(Asks) /\ down \in Seq(Tells) BY <1>0 DEF ChatTyped
        <5>2. /\ Cardinality(Hits(up, AskTokens(m))) \in Nat
              /\ Cardinality(Hits(down, TellTokens(m))) \in Nat
          BY <5>1, HitsFinite
        <5>3. view[m].owed >= Cardinality(Hits(up, AskTokens(m)))
                                + Cardinality(Hits(down, TellTokens(m)))
          BY <1>0, <2>1, <3>1 DEF Counted
        <5> QED BY <2>4, <5>1, <5>2, <5>3
      <4>4. ~Owing(m, up, down, r) BY <4>3, NoTokens
      <4>5. ~(r <= client.seq) BY <2>4, <4>1, <4>2, <4>4 DEF Complete
      <4> QED BY <1>0, <2>4, <4>5, MissingType, ClientFields
    <3>2. CASE ~Online
      <4>1. Recoverable(Missing(m), down, Cursor) BY <2>3, <2>4, <3>2 DEF Mended
      <4>2. Cursor >= client.seq /\ Cursor \in Nat
        BY <1>0, <2>1, ClientFields DEF Cursor
      <4>3. r > Cursor BY <2>4, <4>1 DEF Recoverable
      <4> QED BY <1>0, <2>4, <4>2, <4>3, MissingType, ClientFields
    <3> QED BY <3>1, <3>2
  <2> QED BY <2>2, <2>3, <2>4 DEF Mended
<1> QED BY <1>1, <1>2, <1>3, <1>4, SocketLost

LEMMA RestartKeeps ==
    ASSUME ChatIInv, Restart
    PROVE  ChatIInv'
<1>0. ChatTyped /\ Bounded /\ Handshake /\ Counted /\ Fused BY DEF ChatIInv
<1>1. /\ client' = [client EXCEPT !.state = "away"] /\ up' = <<>> /\ subs' = {} /\ down' = <<>>
      /\ socket' = socket + 1 /\ boot' = boot + 1 /\ floor' = Len(own) /\ agree' \in {agree, FALSE}
      /\ skipped' = (skipped \/ (client.state = "recovering" /\ client.seq > client.asked))
      /\ UNCHANGED <<own, pending, view, cuts, early, leaked, dropped>>
  BY DEF Restart, SocketGone
<1>2. /\ down' \in Seq(Tells) /\ DOMAIN down' = {} /\ socket' \in Nat /\ socket <= socket'
      /\ socket' # socket /\ floor' \in Nat /\ floor' <= Len(own) /\ boot' \in Nat \ {0}
      /\ cuts' \in Nat
  <2>1. down' = <<>> /\ down' \in Seq(Tells) /\ DOMAIN down' = {} BY <1>1
  <2>2. socket \in Nat /\ cuts \in Nat /\ boot \in Nat \ {0} /\ Len(own) \in Nat
    BY <1>0 DEF ChatTyped
  <2>3. /\ socket' = socket + 1 /\ boot' = boot + 1 /\ floor' = Len(own) /\ cuts' = cuts
    BY <1>1
  <2> QED BY <2>1, <2>2, <2>3
<1>5. agree' \in BOOLEAN BY <1>0, <1>1 DEF ChatTyped
<1>3. skipped' \in BOOLEAN BY <1>0, <1>1 DEF ChatTyped
<1>4. \A m \in Views : Missing(m)' = {}
  <2>1. DOMAIN own = 1 .. Len(own) /\ Len(own) \in Nat BY <1>0 DEF ChatTyped
  <2>2. \A r \in DOMAIN own : ~(r > Len(own)) BY <2>1
  <2> QED BY <1>1, <2>2 DEF Missing, Rows
<1> QED BY <1>1, <1>2, <1>3, <1>4, <1>5, SocketLost

-----------------------------------------------------------------------------
(* The client's recovery. *)

(* The client takes what comes next. *)
LEMMA Told ==
    ASSUME ChatTyped, NEW type, Delivered(type)
    PROVE  /\ down # <<>> /\ down' = Tail(down) /\ Head(down).type = type /\ Head(down) \in Tells
           /\ Head(down) = down[1] /\ 1 \in DOMAIN down /\ down \in Seq(Tells)
           /\ Tail(down) \in Seq(Tells)
           /\ \A i \in DOMAIN down' : /\ i + 1 \in DOMAIN down /\ down'[i] = down[i + 1]
                                      /\ i \in Nat \ {0}
           /\ \A i \in DOMAIN down : i # 1 =>
                 i - 1 \in DOMAIN down' /\ down'[i - 1] = down[i] /\ i \in Nat
<1>1. down # <<>> /\ down' = Tail(down) /\ Head(down).type = type /\ down \in Seq(Tells)
  BY DEF Delivered, ChatTyped
<1> QED BY <1>1, TailOf

(* What goes out when the connection is ready. *)
LEMMA SubscribeFrames ==
    ASSUME NEW m \in Views
    PROVE  /\ Request("subscribe", m) \in Asks /\ Request("subscribe", m).type = "subscribe"
           /\ Request("subscribe", m).view = m
           /\ \A f \in Asks : f.type = "subscribe" /\ f.view = m => f = Request("subscribe", m)
BY DEF Request, Asks

LEMMA GreetingSent ==
    ASSUME ChatTyped, Handshake, NEW mounted \in Ascending(Mounted)
    PROVE  LET sent == Greeting(mounted)
           IN  /\ sent \in Seq(Asks)
               /\ \A i \in DOMAIN sent :
                     \/ \E j \in DOMAIN pending : sent[i] = pending[j]
                     \/ \E m \in Mounted : sent[i] = Request("subscribe", m)
               /\ \A i \in DOMAIN sent : sent[i].type \in {"subscribe", "unsubscribe"}
               /\ \A m \in Mounted : In(sent, "subscribe", m)
               /\ \A m \in Views : /\ Subscribes(sent, m) = Hits(sent, AskTokens(m))
                                   /\ Cardinality(Subscribes(sent, m)) \in Nat
                                   /\ In(sent, "subscribe", m) =>
                                         Cardinality(Subscribes(sent, m)) > 0
<1> DEFINE q == [i \in DOMAIN mounted |-> Request("subscribe", mounted[i])]
           again == IF EverReady THEN <<>> ELSE q
           sent == Greeting(mounted)
<1>1. Mounted \subseteq Views BY DEF Mounted
<1>2. Mounted \in SUBSET Nat /\ IsFiniteSet(Mounted)
  <2>1. IsFiniteSet(Views) /\ Views \subseteq Nat BY ChatBounds, FS_Interval DEF Views
  <2> QED BY <1>1, <2>1, FS_Subset
<1>3. /\ mounted \in Seq(Mounted) /\ \A i \in DOMAIN mounted : mounted[i] \in Mounted
      /\ \A m \in Mounted : \E i \in DOMAIN mounted : mounted[i] = m
  BY <1>2, AscendingLists
<1>4. \A m \in Mounted : Request("subscribe", m) \in Asks BY <1>1, SubscribeFrames
<1>5. DOMAIN q = DOMAIN mounted /\ \A i \in DOMAIN q : q[i] = Request("subscribe", mounted[i])
  OBVIOUS
<1>6. q \in Seq(Asks)
  <2>1. DOMAIN mounted = 1 .. Len(mounted) /\ Len(mounted) \in Nat BY <1>3
  <2>2. q \in [1 .. Len(mounted) -> Asks] BY <1>3, <1>4, <1>5, <2>1
  <2> QED BY <2>1, <2>2
<1>7. sent = (pending \o q) \o again BY DEF Greeting
<1>8. pending \in Seq(Asks) BY DEF ChatTyped
<1> HIDE DEF q, sent
<1>9. again \in Seq(Asks) /\ \A i \in DOMAIN again : i \in DOMAIN q /\ again[i] = q[i]
  <2>1. <<>> \in Seq(Asks) /\ DOMAIN <<>> = {} OBVIOUS
  <2> QED BY <1>6, <2>1
<1> HIDE DEF again
<1> DEFINE first == pending \o q
<1>10. first \in Seq(Asks) BY <1>6, <1>8, ConcatOf
<1>11. sent \in Seq(Asks) BY <1>7, <1>9, <1>10, ConcatOf
<1>12. \A i \in DOMAIN first : \/ \E j \in DOMAIN pending : first[i] = pending[j]
                               \/ \E j \in DOMAIN q : first[i] = q[j]
  BY <1>6, <1>8, ConcatOf
<1>18. /\ sent = first \o again
       /\ \A type, m : In(q, type, m) => In(first, type, m)
  BY <1>6, <1>7, <1>8, InConcat
<1> HIDE DEF first
<1>13. \A i \in DOMAIN sent : \/ \E j \in DOMAIN first : sent[i] = first[j]
                              \/ \E j \in DOMAIN again : sent[i] = again[j]
  <2>1. again \in Seq(Asks) BY <1>9
  <2>2. \A i \in DOMAIN (first \o again) :
           \/ \E j \in DOMAIN first : (first \o again)[i] = first[j]
           \/ \E j \in DOMAIN again : (first \o again)[i] = again[j]
    BY <1>10, <2>1, ConcatOf
  <2> QED BY <1>18, <2>2
<1>14. \A i \in DOMAIN sent : \/ \E j \in DOMAIN pending : sent[i] = pending[j]
                              \/ \E m \in Mounted : sent[i] = Request("subscribe", m)
  <2>1. \A j \in DOMAIN q : \E m \in Mounted : q[j] = Request("subscribe", m) BY <1>3, <1>5
  <2> TAKE i \in DOMAIN sent
  <2>2. CASE \E j \in DOMAIN first : sent[i] = first[j]
    BY <1>12, <2>1, <2>2
  <2>3. CASE \E j \in DOMAIN again : sent[i] = again[j] BY <1>9, <2>1, <2>3
  <2> QED BY <1>13, <2>2, <2>3
<1>15. \A i \in DOMAIN sent : sent[i].type \in {"subscribe", "unsubscribe"}
  <2>1. \A m \in Mounted : Request("subscribe", m).type = "subscribe"
    BY <1>1, SubscribeFrames
  <2>2. \A j \in DOMAIN pending : pending[j].type \in {"subscribe", "unsubscribe"}
    BY DEF Handshake
  <2> QED BY <1>14, <2>1, <2>2
<1>16. \A m \in Mounted : In(sent, "subscribe", m)
  <2> TAKE m \in Mounted
  <2>1. PICK i \in DOMAIN q : q[i] = Request("subscribe", m) BY <1>3, <1>5
  <2>2. In(q, "subscribe", m) BY <1>1, <2>1, SubscribeFrames DEF In
  <2>3. In(first, "subscribe", m) BY <1>18, <2>2
  <2> QED BY <1>9, <1>10, <1>18, <2>3, InConcat
<1>17. ASSUME NEW m \in Views
       PROVE  /\ Subscribes(sent, m) = Hits(sent, AskTokens(m))
              /\ Cardinality(Subscribes(sent, m)) \in Nat
              /\ In(sent, "subscribe", m) => Cardinality(Subscribes(sent, m)) > 0
  <2>1. ASSUME NEW i \in DOMAIN sent
        PROVE  sent[i] \in AskTokens(m) <=> sent[i] = Request("subscribe", m)
    <3>1. sent[i] \in Asks BY <1>11, SeqHas
    <3>2. sent[i] \in AskTokens(m) <=> sent[i].type = "subscribe" /\ sent[i].view = m
      BY <1>15, <3>1, TokenFrames
    <3> QED BY <3>1, <3>2, SubscribeFrames
  <2>2. Subscribes(sent, m) = Hits(sent, AskTokens(m)) BY <2>1 DEF Subscribes, Hits
  <2>3. In(sent, "subscribe", m) => Hits(sent, AskTokens(m)) # {}
    <3> SUFFICES ASSUME NEW i \in DOMAIN sent, sent[i].type = "subscribe", sent[i].view = m
                 PROVE  Hits(sent, AskTokens(m)) # {}
      BY DEF In
    <3>1. sent[i] \in AskTokens(m) BY <1>11, SeqHas, TokenFrames
    <3> QED BY <3>1 DEF Hits
  <2> QED BY <1>11, <2>2, <2>3, HitsFinite
<1> QED BY <1>11, <1>14, <1>15, <1>16, <1>17 DEF sent

LEMMA EnterReadyKeeps ==
    ASSUME ChatIInv, NEW type \in Shake, Delivered(type), NEW seq \in {0, client.seq},
           EnterReady(seq), UNCHANGED <<log, socket, subs, cuts, history>>
    PROVE  ChatIInv'
<1>0. /\ ChatTyped /\ Bounded /\ Handshake /\ Unheard /\ Acquainted /\ Withdrawn /\ Counted
      /\ Numbered /\ Fused
  BY DEF ChatIInv
<1>1. /\ down # <<>> /\ down' = Tail(down) /\ Head(down).type = type
      /\ Head(down) = down[1] /\ 1 \in DOMAIN down /\ down \in Seq(Tells)
      /\ down' \in Seq(Tells)
      /\ \A i \in DOMAIN down' : i + 1 \in DOMAIN down /\ down'[i] = down[i + 1] /\ i \in Nat \ {0}
  BY <1>0, Told
<1>2. ~Online /\ subs = {} BY <1>0, <1>1 DEF Handshake, Online
<1>3. up = <<>>
  <2>1. up \in Seq(Asks) BY <1>0 DEF ChatTyped
  <2>2. ASSUME up # <<>> PROVE FALSE
    <3>1. 1 \in DOMAIN up BY <2>1, <2>2, TailOf
    <3>2. up[1].type = "replay-from" BY <1>0, <1>2, <3>1 DEF Handshake
    <3> QED BY <1>0, <1>1, <3>1, <3>2 DEF Handshake
  <2> QED BY <2>2
<1>4. PICK mounted \in Ascending(Mounted) :
         /\ up' = up \o Greeting(mounted) /\ pending' = <<>>
         /\ client' = [state |-> "connected", seq |-> seq, epoch |-> boot, asked |-> 0]
         /\ view' = [m \in Views |->
                       IF m \in Mounted
                       THEN [view[m] EXCEPT !.sub = None, !.upTo = None, !.replaying = FALSE,
                                            !.buffer = {},
                                            !.owed = Cardinality(Subscribes(Greeting(mounted), m))]
                       ELSE view[m]]
  BY DEF EnterReady
<1> DEFINE sent == Greeting(mounted)
<1>5. /\ sent \in Seq(Asks)
      /\ \A i \in DOMAIN sent : \/ \E j \in DOMAIN pending : sent[i] = pending[j]
                                \/ \E m \in Mounted : sent[i] = Request("subscribe", m)
      /\ \A i \in DOMAIN sent : sent[i].type \in {"subscribe", "unsubscribe"}
      /\ \A m \in Mounted : In(sent, "subscribe", m)
      /\ \A m \in Views : /\ Subscribes(sent, m) = Hits(sent, AskTokens(m))
                          /\ Cardinality(Subscribes(sent, m)) \in Nat
                          /\ In(sent, "subscribe", m) => Cardinality(Subscribes(sent, m)) > 0
  BY <1>0, GreetingSent
<1>6. \A m \in Views : m \notin Mounted => view'[m] = view[m] BY <1>4
<1>7. \A m \in Mounted :
         view'[m] = [view[m] EXCEPT !.sub = None, !.upTo = None, !.replaying = FALSE, !.buffer = {},
                                    !.owed = Cardinality(Subscribes(sent, m))]
  BY <1>4 DEF Mounted
<1>8. pending' = <<>> /\ up' = up \o sent BY <1>4
<1>9. /\ client'.state = "connected" /\ client'.seq = seq /\ client'.epoch = boot
      /\ client'.asked = 0
  BY <1>4
<1>10. client' \in [state : {"away", "connecting", "recovering", "connected"},
                    seq : Nat, epoch : Nat, asked : Nat]
  <2>1. seq \in Nat /\ boot \in Nat BY <1>0, ClientFields DEF ChatTyped
  <2> QED BY <1>4, <2>1
<1> HIDE DEF sent
<1>11. up' = sent BY <1>3, <1>5, <1>8
<1>12. \A m \in Mounted :
          /\ view'[m].is = view[m].is /\ view'[m].sub = None /\ view'[m].upTo = None
          /\ ~view'[m].replaying /\ view'[m].buffer = {} /\ view'[m].shown = view[m].shown
          /\ view'[m].owed = Cardinality(Subscribes(sent, m)) /\ view'[m] \in Mounts
  <2> TAKE m \in Mounted
  <2>1. m \in Views BY DEF Mounted
  <2>2. view[m] \in Mounts BY <1>0, <2>1, ViewFields
  <2>3. Cardinality(Subscribes(sent, m)) \in Nat BY <1>5, <2>1
  <2> DEFINE v == view[m]
             n == Cardinality(Subscribes(sent, m))
             w == [v EXCEPT !.sub = None, !.upTo = None, !.replaying = FALSE, !.buffer = {},
                            !.owed = n]
  <2>4. view'[m] = w BY <1>7
  <2> HIDE DEF v, n
  <2>5. v \in Mounts /\ n \in Nat /\ None \in Nat BY <2>2, <2>3 DEF v, n, None
  <2>6. w \in Mounts BY <2>5 DEF Mounts
  <2>7. /\ w.is = v.is /\ w.sub = None /\ w.upTo = None /\ w.buffer = {} /\ w.shown = v.shown
        /\ w.owed = n
    BY <2>5 DEF Mounts
  <2>8. ~w.replaying BY <2>5 DEF Mounts
  <2> HIDE DEF w
  <2> QED BY <2>4, <2>6, <2>7, <2>8 DEF v, n
<1>13. \A m \in Views : m \in Mounted <=> IsMounted(m) BY DEF Mounted, IsMounted
<1>14. \A m \in Views : IsMounted(m)' <=> IsMounted(m) BY <1>6, <1>12, <1>13 DEF IsMounted
<1>15. \A i \in DOMAIN down' :
          /\ down'[i].type \notin {"subscribed", "done"} /\ down'[i].type \notin Shake
          /\ down'[i].type = "row" => down'[i].via = "replay" /\ down'[i].view = None
  <2> TAKE i \in DOMAIN down'
  <2>1. i + 1 \in DOMAIN down /\ down'[i] = down[i + 1] /\ i + 1 # 1 BY <1>1
  <2>2. down[i + 1].type \notin Shake BY <1>0, <1>1, <2>1 DEF Handshake
  <2> QED BY <1>0, <1>2, <2>1, <2>2 DEF Handshake
<1>16. /\ own' = own /\ floor' = floor /\ boot' = boot /\ agree' = agree /\ socket' = socket
       /\ subs' = {} /\ cuts' = cuts /\ early' = early /\ leaked' = leaked /\ dropped' = dropped
       /\ skipped' = skipped
  BY <1>2 DEF log, history
<1>17. \A m \in Views : m # None BY DEF Views, None
<1>18. Online' BY <1>9 DEF Online
<1>19. \A type1, m : ~In(pending', type1, m)
  <2>1. DOMAIN pending' = {} BY <1>8
  <2> QED BY <2>1 DEF In
<1>20. \A m : ~In(up', "replay-from-scoped", m) /\ ~In(down', "done", m)
  BY <1>5, <1>11, <1>15 DEF In
<1>21. boot \in Nat \ {0} /\ socket \in Nat \ {0} BY <1>0 DEF ChatTyped
<1>22. seq \in Nat /\ seq <= Len(own) /\ Len(own) \in Nat
  BY <1>0, ClientFields DEF Bounded, ChatTyped
<1>23. \A i \in DOMAIN up', m \in Views : up'[i].view = m /\ ~IsMounted(m) =>
          \E j \in DOMAIN pending : up'[i] = pending[j]
  <2> TAKE i \in DOMAIN up', m \in Views
  <2>1. \A k \in Mounted : Request("subscribe", k).view = k BY SubscribeFrames DEF Mounted
  <2> QED BY <1>5, <1>11, <1>13, <2>1
<1>a. ChatTyped'
  <2>1. view' \in [Views -> Mounts]
    <3>1. \A m \in Views : view'[m] \in Mounts BY <1>0, <1>6, <1>12, ViewFields
    <3>2. view' = [m \in Views |-> view'[m]] BY <1>4
    <3> QED BY <3>1, <3>2
  <2>2. pending' \in Seq(Asks) BY <1>8
  <2> QED BY <1>0, <1>1, <1>5, <1>10, <1>11, <1>16, <2>1, <2>2 DEF ChatTyped
<1>b. Bounded'
  <2>1. \A i \in DOMAIN down' :
          /\ down'[i].type \in {"row", "other", "subscribed"} => down'[i].seq <= Len(own)
          /\ down'[i].type \in {"row", "other"} => down'[i].seq \in DOMAIN own
          /\ down'[i].type = "other" => ~own[down'[i].seq]
    BY <1>0, <1>1 DEF Bounded
  <2>2. \A m \in Views : /\ view'[m].shown \subseteq 1 .. Len(own) /\ view'[m].upTo <= Len(own)
                         /\ \A s \in view'[m].buffer : s <= seq
    <3> TAKE m \in Views
    <3>1. CASE m \in Mounted BY <1>0, <1>12, <1>22, <3>1 DEF Bounded, None
    <3>2. CASE m \notin Mounted
      <4>1. view[m].buffer = {} BY <1>0, <1>13, <3>2 DEF Unheard
      <4> QED BY <1>0, <1>6, <3>2, <4>1 DEF Bounded
    <3> QED BY <3>1, <3>2
  <2> QED BY <1>0, <1>5, <1>9, <1>11, <1>16, <1>22, <2>1, <2>2 DEF Bounded
<1>c. Handshake'
  <2>1. EverReady' BY <1>9, <1>21 DEF EverReady, None
  <2>2. DOMAIN pending' = {} BY <1>8
  <2> QED BY <1>5, <1>8, <1>9, <1>11, <1>15, <1>18, <2>1, <2>2 DEF Handshake, Online
<1>d. Unheard'
  <2> SUFFICES ASSUME NEW m \in Views
               PROVE  /\ view'[m].is = "none" =>
                            /\ m \notin subs'
                            /\ \A i \in DOMAIN up' : up'[i].type # "replay-from" => up'[i].view # m
                            /\ \A i \in DOMAIN pending' : pending'[i].view # m
                            /\ \A i \in DOMAIN down' :
                                  down'[i].type \in {"subscribed", "done", "row"} =>
                                     down'[i].view # m
                      /\ In(up', "unsubscribe", m) \/ In(pending', "unsubscribe", m) =>
                            view'[m].is = "disposed"
                      /\ ~IsMounted(m)' => view'[m].buffer = {} /\ view'[m].shown = {}
                                             /\ ~view'[m].replaying
    BY DEF Unheard, IsMounted
  <2>1. ASSUME view'[m].is = "none"
        PROVE  \A i \in DOMAIN up' : up'[i].type # "replay-from" => up'[i].view # m
    <3>1. view[m].is = "none" /\ ~IsMounted(m) BY <1>6, <1>12, <1>13, <2>1 DEF IsMounted
    <3> QED BY <1>0, <1>23, <3>1 DEF Unheard
  <2>2. ASSUME In(up', "unsubscribe", m) PROVE view'[m].is = "disposed"
    <3>1. PICK i \in DOMAIN up' : up'[i].type = "unsubscribe" /\ up'[i].view = m
      BY <2>2 DEF In
    <3>2. PICK j \in DOMAIN pending : up'[i] = pending[j]
      <4>1. \A k \in Mounted : Request("subscribe", k).type = "subscribe"
        BY SubscribeFrames DEF Mounted
      <4> QED BY <1>5, <1>11, <3>1, <4>1
    <3>3. view[m].is = "disposed" BY <1>0, <3>1, <3>2 DEF Unheard, In
    <3>4. ~IsMounted(m) BY <3>3 DEF IsMounted
    <3> QED BY <1>6, <1>13, <3>3, <3>4
  <2>3. ASSUME ~IsMounted(m)
        PROVE  view'[m].buffer = {} /\ view'[m].shown = {} /\ ~view'[m].replaying
    BY <1>0, <1>6, <1>13, <2>3 DEF Unheard
  <2>4. DOMAIN pending' = {} BY <1>8
  <2> QED BY <1>14, <1>15, <1>16, <1>17, <1>19, <2>1, <2>2, <2>3, <2>4
<1>e. Acquainted'
  <2>1. \A m \in Views : view'[m].sub <= socket
    BY <1>0, <1>6, <1>12, <1>21 DEF Acquainted, None
  <2>2. ASSUME NEW m \in Views, IsMounted(m)
        PROVE  view'[m].owed > 0 /\ In(up', "subscribe", m)
    BY <1>5, <1>11, <1>12, <1>13, <2>2
  <2> QED BY <1>14, <1>15, <1>16, <1>18, <1>20, <2>1, <2>2 DEF Acquainted
<1>f. Withdrawn'
  <2> SUFFICES ASSUME NEW m \in Views, ~IsMounted(m), m \notin leaked,
                      NEW i \in DOMAIN up', up'[i].type = "subscribe", up'[i].view = m
               PROVE  FALSE
    BY <1>14, <1>16, <1>19 DEF Withdrawn
  <2>1. PICK j \in DOMAIN pending : up'[i] = pending[j] BY <1>23
  <2> QED BY <1>0, <2>1 DEF Withdrawn, In
<1>g. Counted'
  <2> SUFFICES ASSUME NEW m \in Views, IsMounted(m)
               PROVE  /\ view'[m].owed >= Cardinality(Hits(up', AskTokens(m)))
                                            + Cardinality(Hits(down', TellTokens(m)))
                      /\ ~view'[m].replaying /\ view'[m].buffer = {}
    BY <1>14 DEF Counted
  <2>1. Hits(down', TellTokens(m)) = {} BY <1>1, <1>15, SeqHas, TokenFrames DEF Hits
  <2>2. Cardinality(Hits(down', TellTokens(m))) = 0 BY <2>1, FS_EmptySet
  <2>3. view'[m].owed = Cardinality(Hits(up', AskTokens(m))) /\ view'[m].owed \in Nat
    BY <1>5, <1>11, <1>12, <1>13
  <2>4. view'[m].owed >= Cardinality(Hits(up', AskTokens(m)))
                           + Cardinality(Hits(down', TellTokens(m)))
    BY <2>2, <2>3
  <2> QED BY <1>12, <1>13, <2>4
<1>h. Numbered'
  <2>1. \A m \in Views : \A B, upTo :
           AckAhead(m, B, up', down') /\ ReplayAhead(m, upTo, up', down')
    <3> TAKE m \in Views
    <3> TAKE B, upTo
    <3>1. \A i \in DOMAIN down' :
             ~IsAck(down'[i], m) /\ ~IsOwn(down'[i], m) /\ ~IsLive(down'[i])
      BY <1>15, <1>17 DEF IsAck, IsOwn, IsLive
    <3>2. \A i \in DOMAIN up' : ~IsScoped(up'[i], m) BY <1>5, <1>11 DEF IsScoped
    <3> QED BY <3>1, <3>2, QuietNumbers
  <2> QED BY <2>1 DEF Numbered
<1>i. Fused'
  <2> SUFFICES ASSUME NEW m \in Views, Fine(m)' PROVE Mended(m)'
    BY DEF Fused
  <2>1. IsMounted(m) /\ Fine(m) /\ m \in Mounted BY <1>13, <1>14, <1>16 DEF Fine
  <2>2. view'[m].shown = view[m].shown /\ Missing(m)' = Missing(m)
    BY <1>12, <1>16, <2>1 DEF Missing, Rows
  <2>3. \A r \in Missing(m), s \in view[m].shown : s < r BY <1>0, <2>1 DEF Fused, Mended
  <2>4. In(up', "subscribe", m) BY <1>5, <1>11, <2>1
  <2>5. \A j \in DOMAIN down' : ~IsOwn(down'[j], m) BY <1>15, <1>17 DEF IsOwn
  <2>6. Complete(m, Missing(m)', view'[m].buffer, up', down', client'.seq)
    BY <2>4, <2>5, Asking
  <2> QED BY <1>18, <2>2, <2>3, <2>6 DEF Mended
<1> QED BY <1>a, <1>b, <1>c, <1>d, <1>e, <1>f, <1>g, <1>h, <1>i DEF ChatIInv

LEMMA ClientAckKeeps ==
    ASSUME ChatIInv, ClientAck
    PROVE  ChatIInv'
<1>0. /\ ChatTyped /\ Bounded /\ Handshake /\ Unheard /\ Acquainted /\ Withdrawn /\ Counted
      /\ Numbered /\ Fused
  BY DEF ChatIInv
<1>1. Delivered("ack") /\ UNCHANGED <<log, socket, subs, cuts, history>> BY DEF ClientAck
<1>2. CASE client.epoch \notin {None, Head(down).epoch}
  <2>1. EnterReady(0) BY <1>2 DEF ClientAck
  <2> QED BY <1>1, <2>1, EnterReadyKeeps DEF Shake
<1>3. CASE client.epoch \in {None, Head(down).epoch}
  <2> DEFINE f == [type |-> "replay-from", since |-> client.seq]
  <2>1. /\ client' = [client EXCEPT !.state = "recovering", !.asked = client.seq]
        /\ up' = Append(up, f) /\ UNCHANGED <<pending, view>>
    BY <1>3 DEF ClientAck
  <2>2. /\ down # <<>> /\ down' = Tail(down) /\ Head(down).type = "ack"
        /\ Head(down) = down[1] /\ 1 \in DOMAIN down /\ down \in Seq(Tells)
        /\ down' \in Seq(Tells)
        /\ \A i \in DOMAIN down' : i + 1 \in DOMAIN down /\ down'[i] = down[i + 1]
                                     /\ i \in Nat \ {0}
    BY <1>0, <1>1, Told
  <2>3. client.state = "connecting" /\ ~Online BY <1>0, <2>2 DEF Handshake, Shake, Online
  <2>4. up = <<>> /\ subs = {} BY <1>0, <2>3 DEF Handshake
  <2>5. f \in Asks /\ f.type = "replay-from" /\ f.since = client.seq
    BY <1>0, ClientFields DEF Asks
  <2> HIDE DEF f
  <2>6. /\ up' \in Seq(Asks) /\ Len(up') = 1
        /\ \A i \in DOMAIN up' : up'[i].type = "replay-from" /\ up'[i].since = client.seq
    BY <2>1, <2>4, <2>5
  <2>7. /\ client'.state = "recovering" /\ client'.seq = client.seq /\ client'.asked = client.seq
        /\ client'.epoch = client.epoch
        /\ client' \in [state : {"away", "connecting", "recovering", "connected"},
                        seq : Nat, epoch : Nat, asked : Nat]
    BY <1>0, <2>1, ClientFields DEF ChatTyped
  <2>8. ~Online' /\ Cursor' = client.seq BY <2>7 DEF Online, Cursor
  <2>9. /\ UNCHANGED <<own, floor, boot, agree, socket, subs, pending, view, cuts, early, leaked,
                       dropped, skipped>>
    BY <1>1, <2>1 DEF log, history
  <2>10. \A i \in DOMAIN down' : down'[i].type \notin Shake
    <3> TAKE i \in DOMAIN down'
    <3>1. i + 1 \in DOMAIN down /\ down'[i] = down[i + 1] /\ i + 1 # 1 BY <2>2
    <3> QED BY <1>0, <2>2, <3>1 DEF Handshake, Shake
  <2>11. \A i \in DOMAIN down' :
            /\ down'[i].type \notin {"subscribed", "done"}
            /\ down'[i].type = "row" => down'[i].via = "replay" /\ down'[i].view = None
    BY <1>0, <2>2, <2>3 DEF Handshake
  <2>12. \A type, m : type # "replay-from" => ~In(up', type, m) BY <2>6 DEF In
  <2>13. \A m : ~In(down', "done", m) BY <2>11 DEF In
  <2>14. \A m : Missing(m)' = Missing(m) /\ (Fine(m)' <=> Fine(m)) BY <1>1, <2>1, SameRows
  <2>17. \A m \in Views : m # None BY DEF Views, None
  <2>a. ChatTyped' BY <1>0, <2>2, <2>6, <2>7, <2>9 DEF ChatTyped
  <2>b. Bounded' BY <1>0, <2>2, <2>6, <2>7, <2>9 DEF Bounded
  <2>c. Handshake'
    <3>1. client'.asked <= client'.seq BY <1>0, <2>7, ClientFields
    <3> QED BY <1>0, <2>4, <2>6, <2>7, <2>8, <2>9, <2>10, <2>11, <3>1 DEF Handshake
  <2>d. Unheard' BY <1>0, <2>6, <2>9, <2>11, <2>12, <2>17 DEF Unheard, IsMounted
  <2>e. Acquainted'
    BY <1>0, <2>3, <2>8, <2>9, <2>11, <2>12, <2>13 DEF Acquainted, IsMounted
  <2>f. Withdrawn' BY <1>0, <2>4, <2>6, <2>9 DEF Withdrawn, IsMounted
  <2>g. Counted' BY <1>0, <2>8, <2>9 DEF Counted, IsMounted
  <2>h. Numbered'
    <3>1. \A m \in Views : \A B, upTo :
             AckAhead(m, B, up', down') /\ ReplayAhead(m, upTo, up', down')
      <4> TAKE m \in Views
      <4> TAKE B, upTo
      <4>1. \A i \in DOMAIN down' :
               ~IsAck(down'[i], m) /\ ~IsOwn(down'[i], m) /\ ~IsLive(down'[i])
        BY <2>11, <2>17 DEF IsAck, IsOwn, IsLive
      <4>2. \A i \in DOMAIN up' : ~IsScoped(up'[i], m) BY <2>6 DEF IsScoped
      <4> QED BY <4>1, <4>2, QuietNumbers
    <3> QED BY <3>1 DEF Numbered
  <2>i. Fused'
    <3> SUFFICES ASSUME NEW m \in Views, Fine(m) PROVE Mended(m)'
      BY <2>14 DEF Fused
    <3>1. /\ \A r \in Missing(m), s \in view[m].shown : s < r
          /\ view[m].owed = 0 => Recoverable(Missing(m), down, client.seq)
      BY <1>0, <2>3 DEF Fused, Mended, Cursor
    <3>2. Missing(m) \in SUBSET Nat BY <1>0, MissingType
    <3>3. view[m].owed = 0 => Recoverable(Missing(m), down', client.seq)
      BY <2>2, <3>1, <3>2, RecoverTakes
    <3> QED BY <2>8, <2>9, <2>14, <3>1, <3>3 DEF Mended
  <2> QED BY <2>a, <2>b, <2>c, <2>d, <2>e, <2>f, <2>g, <2>h, <2>i DEF ChatIInv
<1> QED BY <1>2, <1>3

LEMMA ClientCompleteKeeps ==
    ASSUME ChatIInv, ClientComplete
    PROVE  ChatIInv'
BY EnterReadyKeeps DEF ClientComplete, Shake

LEMMA ClientGoneKeeps ==
    ASSUME ChatIInv, ClientGone
    PROVE  ChatIInv'
BY EnterReadyKeeps DEF ClientGone, Shake

-----------------------------------------------------------------------------
(* A row reaches the renderer. *)

LEMMA MovedTo ==
    ASSUME ChatTyped, NEW s \in Nat, client' = Moved(s)
    PROVE  /\ client'.state = client.state /\ client'.epoch = client.epoch
           /\ client'.asked = client.asked
           /\ client'.seq = (IF s > client.seq THEN s ELSE client.seq)
           /\ client'.seq \in Nat /\ client.seq <= client'.seq /\ s <= client'.seq
           /\ client' \in [state : {"away", "connecting", "recovering", "connected"},
                           seq : Nat, epoch : Nat, asked : Nat]
<1>1. client \in [state : {"away", "connecting", "recovering", "connected"},
                  seq : Nat, epoch : Nat, asked : Nat]
  BY DEF ChatTyped
<1> DEFINE n == IF s > client.seq THEN s ELSE client.seq
<1>2. client' = [client EXCEPT !.seq = n] BY DEF Moved
<1>3. n \in Nat /\ client.seq <= n /\ s <= n BY <1>1
<1> HIDE DEF n
<1>4. /\ client'.state = client.state /\ client'.epoch = client.epoch
      /\ client'.asked = client.asked /\ client'.seq = n
      /\ client' \in [state : {"away", "connecting", "recovering", "connected"},
                      seq : Nat, epoch : Nat, asked : Nat]
  BY <1>1, <1>2, <1>3
<1> QED BY <1>3, <1>4 DEF n

(* What the views do with it is left open but for what they may take. *)
LEMMA RowTaken ==
    ASSUME ChatIInv, NEW type \in {"row", "other"}, Delivered(type),
           client' = Moved(Head(down).seq),
           UNCHANGED <<log, socket, subs, up, pending, cuts, leaked, dropped, skipped>>,
           early' \subseteq Views, view' \in [Views -> Mounts],
           \A m \in Views :
              /\ view'[m].is = view[m].is /\ view'[m].sub = view[m].sub
              /\ view'[m].upTo = view[m].upTo /\ view'[m].replaying = view[m].replaying
              /\ view'[m].owed = view[m].owed
              /\ ~IsMounted(m) => view'[m] = view[m]
              /\ ~view[m].replaying => view'[m].buffer = view[m].buffer
              /\ \A s \in view'[m].shown : s \in view[m].shown \/ s = Head(down).seq
              /\ \A s \in view'[m].buffer :
                    s \in view[m].buffer \/ (Head(down).type = "row" /\ s = Head(down).seq),
           \A m \in Views : Fine(m)' => Mended(m)'
    PROVE  ChatIInv'
<1> DEFINE h == Head(down)
<1>0. /\ ChatTyped /\ Bounded /\ Handshake /\ Unheard /\ Acquainted /\ Withdrawn /\ Counted
      /\ Numbered /\ Fused
  BY DEF ChatIInv
<1>1. /\ down # <<>> /\ down' = Tail(down) /\ h.type = type /\ h \in Tells
      /\ h = down[1] /\ 1 \in DOMAIN down /\ down \in Seq(Tells) /\ down' \in Seq(Tells)
      /\ \A i \in DOMAIN down' : i + 1 \in DOMAIN down /\ down'[i] = down[i + 1] /\ i \in Nat \ {0}
      /\ \A i \in DOMAIN down : i # 1 =>
            i - 1 \in DOMAIN down' /\ down'[i - 1] = down[i] /\ i \in Nat
  BY <1>0, Told
<1>2. /\ UNCHANGED <<own, floor, boot, agree, socket, subs, up, pending, cuts, leaked, dropped,
                     skipped>>
      /\ up \in Seq(Asks) /\ Len(own) \in Nat /\ DOMAIN own = 1 .. Len(own)
  BY <1>0 DEF log, ChatTyped
<1>3. h.seq \in DOMAIN own /\ h.seq \in Nat /\ h.seq <= Len(own)
  BY <1>0, <1>1, <1>2 DEF Bounded
<1> HIDE DEF h
<1>4. /\ client'.state = client.state /\ client'.epoch = client.epoch
      /\ client'.asked = client.asked
      /\ client'.seq = (IF h.seq > client.seq THEN h.seq ELSE client.seq)
      /\ client'.seq \in Nat /\ client.seq <= client'.seq /\ h.seq <= client'.seq
      /\ client' \in [state : {"away", "connecting", "recovering", "connected"},
                      seq : Nat, epoch : Nat, asked : Nat]
  BY <1>0, <1>3, MovedTo DEF h
<1>5. client.seq \in Nat /\ client.seq <= Len(own) /\ client.asked \in Nat
  BY <1>0, ClientFields DEF Bounded
<1>6. client'.seq <= Len(own) BY <1>3, <1>4, <1>5
<1>7. \A m \in Views : IsMounted(m)' <=> IsMounted(m) BY DEF IsMounted
<1>8. \A t, m : /\ In(down', t, m) => In(down, t, m)
                /\ t \notin {"row", "other"} /\ In(down, t, m) => In(down', t, m)
  BY <1>1, InTail
<1>9. (Online' <=> Online) /\ (EverReady' <=> EverReady) BY <1>4 DEF Online, EverReady
<1>a. ChatTyped' BY <1>0, <1>1, <1>2, <1>4 DEF ChatTyped
<1>b. Bounded'
  <2>1. \A i \in DOMAIN down' :
          /\ down'[i].type \in {"row", "other", "subscribed"} => down'[i].seq <= Len(own)
          /\ down'[i].type \in {"row", "other"} => down'[i].seq \in DOMAIN own
          /\ down'[i].type = "other" => ~own[down'[i].seq]
    BY <1>0, <1>1 DEF Bounded
  <2>2. \A m \in Views : /\ view'[m].shown \subseteq 1 .. Len(own) /\ view'[m].upTo <= Len(own)
                         /\ \A s \in view'[m].buffer : s <= client'.seq
    <3> TAKE m \in Views
    <3>1. view'[m].shown \subseteq 1 .. Len(own) BY <1>0, <1>2, <1>3 DEF Bounded, h
    <3>2. view'[m].upTo <= Len(own) BY <1>0 DEF Bounded
    <3>3. \A s \in view[m].buffer : s \in Nat /\ s <= client.seq BY <1>0, ViewFields DEF Bounded
    <3>4. \A s \in view'[m].buffer : s <= client'.seq BY <1>4, <1>5, <3>3 DEF h
    <3> QED BY <3>1, <3>2, <3>4
  <2> QED BY <1>0, <1>2, <1>4, <1>6, <2>1, <2>2 DEF Bounded
<1>c. Handshake'
  <2>1. client.state # "away" /\ client.state # "connecting"
    <3>1. client.state # "away" BY <1>0, <1>1 DEF Handshake
    <3>2. client.state # "connecting" BY <1>0, <1>1 DEF Handshake, h
    <3> QED BY <3>1, <3>2
  <2>2. client.state = "recovering" => client'.asked <= client'.seq
    BY <1>0, <1>4, <1>5 DEF Handshake
  <2>3. ~Online => \A i \in DOMAIN down' :
                     /\ down'[i].type \notin {"subscribed", "done"}
                     /\ down'[i].type = "row" => down'[i].via = "replay" /\ down'[i].view = None
    BY <1>0, <1>1 DEF Handshake
  <2>4. \A i \in DOMAIN up : up[i].type = "replay-from" =>
          /\ client.state = "recovering"
          /\ \A j \in DOMAIN down' : down'[j].type \notin Shake
    BY <1>0, <1>1 DEF Handshake
  <2>5. \A i \in DOMAIN down' : down'[i].type \in Shake =>
          /\ client.state \in {"connecting", "recovering"}
          /\ down'[i].type = "ack" => client.state = "connecting"
          /\ \A j \in DOMAIN down' : down'[j].type \in Shake => i = j
    <3> TAKE i \in DOMAIN down'
    <3>1. \A j \in DOMAIN down' : i + 1 = j + 1 => i = j BY <1>1
    <3> QED BY <1>0, <1>1, <3>1 DEF Handshake
  <2> QED BY <1>0, <1>2, <1>4, <1>9, <2>1, <2>2, <2>3, <2>4, <2>5 DEF Handshake
<1>d. Unheard'
  <2>1. \A m \in Views : view[m].is = "none" =>
           \A i \in DOMAIN down' : down'[i].type \in {"subscribed", "done", "row"} =>
              down'[i].view # m
    BY <1>0, <1>1 DEF Unheard
  <2> QED BY <1>0, <1>2, <1>7, <2>1 DEF Unheard
<1>e. Acquainted'
  <2>1. \A i \in DOMAIN down' : down'[i].type = "subscribed" => down'[i].sub = socket
    BY <1>0, <1>1 DEF Acquainted
  <2> QED BY <1>0, <1>2, <1>7, <1>8, <1>9, <2>1 DEF Acquainted
<1>f. Withdrawn' BY <1>0, <1>2, <1>7 DEF Withdrawn, Farewell
<1>g. Counted'
  <2>1. ASSUME NEW m \in Views
        PROVE  Cardinality(Hits(down', TellTokens(m))) = Cardinality(Hits(down, TellTokens(m)))
    <3>1. h \notin TellTokens(m) BY <1>1, TokenFrames
    <3>2. Cardinality(Hits(down, TellTokens(m)))
             = Cardinality(Hits(Tail(down), TellTokens(m))) + (IF h \in TellTokens(m) THEN 1 ELSE 0)
      BY <1>1, HitsTail DEF h
    <3>3. Cardinality(Hits(down', TellTokens(m))) \in Nat BY <1>1, HitsFinite
    <3> QED BY <1>1, <3>1, <3>2, <3>3
  <2> QED BY <1>0, <1>2, <1>7, <1>8, <1>9, <2>1 DEF Counted
<1>h. Numbered'
  <2> SUFFICES ASSUME NEW m \in Views
               PROVE  /\ AckAhead(m, view'[m].buffer, up, down')
                      /\ view[m].replaying => ReplayAhead(m, view[m].upTo, up, down')
    BY <1>2 DEF Numbered
  <2> QED BY <1>0, <1>1, NumbersTakeTell DEF Numbered
<1>i. Fused' BY DEF Fused
<1> QED BY <1>a, <1>b, <1>c, <1>d, <1>e, <1>f, <1>g, <1>h, <1>i DEF ChatIInv

LEMMA ClientOtherKeeps ==
    ASSUME ChatIInv, ClientOther
    PROVE  ChatIInv'
<1> DEFINE h == Head(down)
<1>0. ChatTyped /\ Bounded /\ Handshake /\ Fused BY DEF ChatIInv
<1>1. /\ Delivered("other") /\ client' = Moved(h.seq)
      /\ UNCHANGED <<log, socket, subs, up, pending, view, cuts, history>>
  BY DEF ClientOther
<1>2. /\ down # <<>> /\ down' = Tail(down) /\ h.type = "other" /\ h \in Tells
      /\ h = down[1] /\ 1 \in DOMAIN down /\ down \in Seq(Tells)
  BY <1>0, <1>1, Told
<1>3. h.seq \in Nat BY <1>2, TellFields
<1>4. /\ client'.state = client.state /\ client'.asked = client.asked
      /\ client'.seq = (IF h.seq > client.seq THEN h.seq ELSE client.seq)
      /\ client'.seq \in Nat
  BY <1>0, <1>1, <1>3, MovedTo
<1>5. /\ UNCHANGED <<own, up, view, early, leaked, dropped, skipped>> /\ up \in Seq(Asks)
      /\ early \subseteq Views /\ view \in [Views -> Mounts] /\ client.seq \in Nat
  BY <1>0, <1>1, ClientFields DEF log, history, ChatTyped
<1>6. \A m : Missing(m)' = Missing(m) /\ (Fine(m)' <=> Fine(m)) BY <1>1, SameRows
<1>7. ~own[h.seq] BY <1>0, <1>2 DEF Bounded
<1> HIDE DEF h
<1>8. ASSUME NEW m \in Views, Fine(m)' PROVE Mended(m)'
  <2>1. /\ \A r \in Missing(m), s \in view[m].shown : s < r
        /\ Online => Complete(m, Missing(m), view[m].buffer, up, down, client.seq)
        /\ ~Online /\ view[m].owed = 0 => Recoverable(Missing(m), down, Cursor)
    BY <1>0, <1>6, <1>8 DEF Fused, Mended
  <2>2. Missing(m) \in SUBSET Nat /\ h.seq \notin Missing(m) BY <1>0, <1>7, MissingType
  <2>3. ASSUME Online PROVE Complete(m, Missing(m), view[m].buffer, up, Tail(down), client'.seq)
    <3>1. Complete(m, Missing(m), view[m].buffer, up, down, client.seq) BY <2>1, <2>3
    <3> QED BY <1>2, <1>4, <1>5, <2>2, <3>1, TakeTell DEF h
  <2>4. ASSUME ~Online, view[m].owed = 0 PROVE Recoverable(Missing(m), Tail(down), Cursor')
    <3>1. client.state = "recovering" BY <1>0, <1>2, <2>4, ClientFields DEF Handshake, Online, h
    <3>2. Cursor' = Cursor BY <1>4, <3>1 DEF Cursor
    <3> QED BY <1>2, <2>1, <2>2, <2>4, <3>2, RecoverTakes DEF h
  <2>5. Online' <=> Online BY <1>4 DEF Online
  <2> QED BY <1>2, <1>5, <1>6, <2>1, <2>3, <2>4, <2>5 DEF Mended
<1>9. \A m \in Views :
         /\ view'[m].is = view[m].is /\ view'[m].sub = view[m].sub
         /\ view'[m].upTo = view[m].upTo /\ view'[m].replaying = view[m].replaying
         /\ view'[m].owed = view[m].owed
         /\ ~IsMounted(m) => view'[m] = view[m]
         /\ ~view[m].replaying => view'[m].buffer = view[m].buffer
         /\ \A s \in view'[m].shown : s \in view[m].shown \/ s = Head(down).seq
         /\ \A s \in view'[m].buffer :
               s \in view[m].buffer \/ (Head(down).type = "row" /\ s = Head(down).seq)
  BY <1>5
<1>10. UNCHANGED <<log, socket, subs, up, pending, cuts, leaked, dropped, skipped>>
  BY <1>1, <1>5
<1> QED BY <1>1, <1>5, <1>8, <1>9, <1>10, RowTaken DEF h

(* A row is applied over one that is missing only as history records.       *)
LEMMA NotPassed ==
    ASSUME ChatIInv, Delivered("row"), NEW m \in Views, Fine(m),
           ~Overtakes(view[m], m, Head(down)), ~Holds(view[m], Head(down).seq),
           NEW r \in Missing(m)
    PROVE  ~(r < Head(down).seq)
<1> DEFINE h == Head(down)
           v == view[m]
<1>0. ChatTyped /\ Bounded /\ Handshake /\ Unheard /\ Counted /\ Numbered /\ Fused
  BY DEF ChatIInv
<1>1. /\ down # <<>> /\ h.type = "row" /\ h \in Tells /\ h = down[1] /\ 1 \in DOMAIN down
      /\ down \in Seq(Tells) /\ up \in Seq(Asks)
  BY <1>0, Told DEF ChatTyped
<1>2. h.seq \in Nat BY <1>1, TellFields
<1>3. /\ v.upTo \in Nat /\ v.owed \in Nat /\ v.shown \subseteq 1 .. Len(own) /\ Len(own) \in Nat
      /\ IsMounted(m)
  BY <1>0, ViewFields DEF Bounded, ChatTyped, Fine
<1>4. r \in Nat /\ r \in Rows /\ r > floor /\ r >= 1
  <2>1. r \in Nat /\ r \in Rows /\ r > floor BY <1>0, MissingType DEF Missing
  <2>2. r \in DOMAIN own /\ DOMAIN own = 1 .. Len(own) BY <1>0, <2>1 DEF Rows, ChatTyped
  <2> QED BY <1>3, <2>1, <2>2
<1>5. /\ \A s \in v.shown : s < r
      /\ Online => Complete(m, Missing(m), v.buffer, up, down, client.seq)
      /\ ~Online /\ v.owed = 0 => Recoverable(Missing(m), down, Cursor)
  BY <1>0 DEF Fused, Mended
<1>6. Applied(v) < r
  <2>1. Applied(v) \in v.shown \cup {0} BY <1>3, AppliedIsLast
  <2> QED BY <1>4, <1>5, <2>1
<1> SUFFICES ASSUME r < h.seq PROVE FALSE OBVIOUS
<1>7. Jumps(v, {h.seq}) BY <1>4, <1>6 DEF Jumps
<1>8. h.via = "live" => ~v.replaying
  <2> SUFFICES ASSUME h.via = "live", v.replaying PROVE FALSE OBVIOUS
  <2>1. IsLive(down[1]) BY <1>1 DEF IsLive
  <2>2. h.seq > v.upTo BY <1>0, <1>1, <2>1 DEF Numbered, ReplayAhead
  <2> QED BY <2>2 DEF Holds
<1>9. h.view # m
  <2>1. CASE Online
    <3>1. ~IsOwn(h, m) BY <1>1, <1>5, <2>1, HeadInOrder
    <3> QED BY <1>1, <3>1 DEF IsOwn
  <2>2. CASE ~Online
    <3>1. h.view = None BY <1>0, <1>1, <2>2 DEF Handshake
    <3> QED BY <3>1 DEF Views, None
  <2> QED BY <2>1, <2>2
<1>10. v.owed > 0
  <2> SUFFICES ASSUME v.owed = 0 PROVE FALSE BY <1>3
  <2>1. CASE Online
    <3>1. r \in v.buffer \/ Owing(m, up, down, r) BY <1>1, <1>5, <2>1, HeadInOrder
    <3>2. r \notin v.buffer BY <1>0, <1>3 DEF Counted
    <3>3. /\ Cardinality(Hits(up, AskTokens(m))) \in Nat
          /\ Cardinality(Hits(down, TellTokens(m))) \in Nat
      BY <1>1, HitsFinite
    <3>4. v.owed >= Cardinality(Hits(up, AskTokens(m))) + Cardinality(Hits(down, TellTokens(m)))
      BY <1>0, <1>3, <2>1 DEF Counted
    <3>5. Cardinality(Hits(up, AskTokens(m))) + Cardinality(Hits(down, TellTokens(m))) <= 0
      BY <3>3, <3>4
    <3> QED BY <1>1, <3>1, <3>2, <3>5, NoTokens
  <2>2. CASE ~Online BY <1>1, <1>5, <2>2, RecoverHead
  <2> QED BY <2>1, <2>2
<1> QED BY <1>7, <1>8, <1>9, <1>10 DEF Overtakes

LEMMA ClientRowKeeps ==
    ASSUME ChatIInv, ClientRow
    PROVE  ChatIInv'
<1> DEFINE h == Head(down)
<1>0. ChatTyped /\ Bounded /\ Handshake /\ Unheard /\ Counted /\ Numbered /\ Fused
  BY DEF ChatIInv
<1>1. /\ Delivered("row") /\ client' = Moved(h.seq)
      /\ view' = [m \in Views |->
                     IF m \notin Listeners THEN view[m]
                     ELSE IF Holds(view[m], h.seq)
                     THEN [view[m] EXCEPT !.buffer = @ \cup {h.seq}]
                     ELSE [view[m] EXCEPT !.shown = Applies(view[m], {h.seq})]]
      /\ early' = early \cup {m \in Listeners : Overtakes(view[m], m, h)}
      /\ UNCHANGED <<log, socket, subs, up, pending, cuts, leaked, dropped, skipped>>
  BY DEF ClientRow
<1>2. /\ down # <<>> /\ down' = Tail(down) /\ h.type = "row" /\ h \in Tells
      /\ h = down[1] /\ 1 \in DOMAIN down /\ down \in Seq(Tells)
  BY <1>0, <1>1, Told
<1>3. h.seq \in Nat BY <1>2, TellFields
<1>4. /\ client'.state = client.state /\ client'.asked = client.asked
      /\ client'.seq = (IF h.seq > client.seq THEN h.seq ELSE client.seq)
      /\ client'.seq \in Nat
  BY <1>0, <1>1, <1>3, MovedTo
<1>5. /\ own' = own /\ floor' = floor /\ agree' = agree /\ up' = up /\ dropped' = dropped
      /\ skipped' = skipped /\ up \in Seq(Asks) /\ client.seq \in Nat
      /\ Len(own) \in Nat
  BY <1>0, <1>1, ClientFields DEF log, ChatTyped
<1>6. \A m \in Views : m \in Listeners <=> IsMounted(m) BY DEF Listeners, Mounted, IsMounted
<1>7. early' \subseteq Views BY <1>0, <1>1 DEF ChatTyped, Listeners, Mounted
<1> HIDE DEF h
<1>8. ASSUME NEW m \in Views, ~IsMounted(m) PROVE view'[m] = view[m]
  BY <1>1, <1>6, <1>8
<1>9. ASSUME NEW m \in Views, IsMounted(m), Holds(view[m], h.seq)
      PROVE  /\ view'[m].is = view[m].is /\ view'[m].sub = view[m].sub
             /\ view'[m].upTo = view[m].upTo /\ view'[m].replaying = view[m].replaying
             /\ view'[m].owed = view[m].owed /\ view'[m].shown = view[m].shown
             /\ view'[m].buffer = view[m].buffer \cup {h.seq} /\ view'[m] \in Mounts
  <2> DEFINE v == view[m]
             b == v.buffer \cup {h.seq}
  <2>1. view'[m] = [v EXCEPT !.buffer = b] BY <1>1, <1>6, <1>9
  <2>2. v \in Mounts /\ b \in SUBSET Nat BY <1>0, <1>3, ViewFields
  <2> HIDE DEF v, b
  <2>3. [v EXCEPT !.buffer = b] \in Mounts BY <2>2 DEF Mounts
  <2>4. /\ [v EXCEPT !.buffer = b].is = v.is /\ [v EXCEPT !.buffer = b].sub = v.sub
        /\ [v EXCEPT !.buffer = b].upTo = v.upTo
        /\ [v EXCEPT !.buffer = b].replaying = v.replaying
        /\ [v EXCEPT !.buffer = b].owed = v.owed /\ [v EXCEPT !.buffer = b].shown = v.shown
        /\ [v EXCEPT !.buffer = b].buffer = b
    BY <2>2 DEF Mounts
  <2> QED BY <2>1, <2>3, <2>4 DEF v, b
<1>10. ASSUME NEW m \in Views, IsMounted(m), ~Holds(view[m], h.seq)
       PROVE  /\ view'[m].is = view[m].is /\ view'[m].sub = view[m].sub
              /\ view'[m].upTo = view[m].upTo /\ view'[m].replaying = view[m].replaying
              /\ view'[m].owed = view[m].owed /\ view'[m].buffer = view[m].buffer
              /\ view'[m].shown = view[m].shown \cup {s \in {h.seq} : s > Applied(view[m])}
              /\ view'[m] \in Mounts
  <2> DEFINE v == view[m]
             b == v.shown \cup {s \in {h.seq} : s > Applied(v)}
  <2>1. view'[m] = [v EXCEPT !.shown = b] BY <1>1, <1>6, <1>10 DEF Applies
  <2>2. v \in Mounts /\ b \in SUBSET Nat BY <1>0, <1>3, ViewFields
  <2> HIDE DEF v, b
  <2>3. [v EXCEPT !.shown = b] \in Mounts BY <2>2 DEF Mounts
  <2>4. /\ [v EXCEPT !.shown = b].is = v.is /\ [v EXCEPT !.shown = b].sub = v.sub
        /\ [v EXCEPT !.shown = b].upTo = v.upTo
        /\ [v EXCEPT !.shown = b].replaying = v.replaying
        /\ [v EXCEPT !.shown = b].owed = v.owed /\ [v EXCEPT !.shown = b].buffer = v.buffer
        /\ [v EXCEPT !.shown = b].shown = b
    BY <2>2 DEF Mounts
  <2> QED BY <2>1, <2>3, <2>4 DEF v, b
<1>11. view' \in [Views -> Mounts]
  <2>1. \A m \in Views : view'[m] \in Mounts BY <1>0, <1>8, <1>9, <1>10, ViewFields
  <2>2. view' = [m \in Views |-> view'[m]] BY <1>1
  <2> QED BY <2>1, <2>2
<1>12. \A m \in Views :
         /\ view'[m].is = view[m].is /\ view'[m].sub = view[m].sub
         /\ view'[m].upTo = view[m].upTo /\ view'[m].replaying = view[m].replaying
         /\ view'[m].owed = view[m].owed
         /\ ~IsMounted(m) => view'[m] = view[m]
         /\ ~view[m].replaying => view'[m].buffer = view[m].buffer
         /\ \A s \in view'[m].shown : s \in view[m].shown \/ s = h.seq
         /\ \A s \in view'[m].buffer : s \in view[m].buffer \/ (h.type = "row" /\ s = h.seq)
  <2> TAKE m \in Views
  <2>1. Holds(view[m], h.seq) => view[m].replaying BY DEF Holds
  <2> QED BY <1>2, <1>8, <1>9, <1>10, <2>1
<1>13. ASSUME NEW m \in Views, Fine(m)' PROVE Mended(m)'
  <2> DEFINE v == view[m]
             M == Missing(m)
             B == v.buffer
  <2>0. /\ Fine(m) /\ IsMounted(m) /\ ~Overtakes(v, m, h)
    BY <1>1, <1>5, <1>6, <1>12, <1>13 DEF Fine, IsMounted
  <2>1. /\ \A r \in M, s \in v.shown : s < r
        /\ Online => Complete(m, M, B, up, down, client.seq)
        /\ ~Online /\ v.owed = 0 => Recoverable(M, down, Cursor)
    BY <1>0, <2>0 DEF Fused, Mended
  <2>2. M \in SUBSET Nat BY <1>0, MissingType
  <2>3. Missing(m)' = {r \in M : r \notin view'[m].shown}
    <3>1. v.shown \subseteq view'[m].shown BY <1>9, <1>10, <2>0
    <3> QED BY <1>5, <3>1 DEF Missing, Rows
  <2>4. (Online' <=> Online) /\ (~Online => Cursor' = Cursor)
    <3>1. ~Online => client.state = "recovering"
      BY <1>0, <1>2, ClientFields DEF Handshake, Online, h
    <3> QED BY <1>4, <3>1 DEF Online, Cursor
  <2>5. CASE Holds(v, h.seq)
    <3>1. /\ view'[m].shown = v.shown /\ view'[m].buffer = B \cup {h.seq}
          /\ view'[m].owed = v.owed
      BY <1>9, <2>0, <2>5
    <3>2. Missing(m)' = M BY <2>3, <3>1 DEF Missing
    <3>3. v.replaying /\ h.seq > v.upTo /\ v.upTo \in Nat
      BY <1>0, <2>5, ViewFields DEF Holds
    <3>4. ASSUME NEW j \in DOMAIN down, IsOwn(down[j], m) PROVE down[j].seq <= h.seq
      <4>1. down[j].seq <= v.upTo BY <1>0, <3>3, <3>4 DEF Numbered, ReplayAhead
      <4>2. down[j].seq \in Nat BY <1>2, <3>4, SeqHas, TellFields DEF IsOwn
      <4> QED BY <1>3, <3>3, <4>1, <4>2
    <3>5. ASSUME Online PROVE Complete(m, M, B \cup {h.seq}, up, Tail(down), client'.seq)
      <4>1. Complete(m, M, B, up, down, client.seq) BY <2>1, <3>5
      <4> HIDE DEF M, B
      <4> QED BY <1>2, <1>4, <1>5, <2>2, <3>4, <4>1, TakeTell DEF h
    <3>6. v.owed > 0 BY <1>0, <2>0, <3>3 DEF Counted
    <3> QED BY <1>2, <1>5, <2>1, <2>4, <3>1, <3>2, <3>5, <3>6 DEF Mended
  <2>6. CASE ~Holds(v, h.seq)
    <3>1. /\ view'[m].shown = v.shown \cup {s \in {h.seq} : s > Applied(v)}
          /\ view'[m].buffer = B /\ view'[m].owed = v.owed
      BY <1>10, <2>0, <2>6
    <3>2. \A r \in M : ~(r < h.seq) BY <1>1, <2>0, <2>6, NotPassed DEF h
    <3>3. v.shown \subseteq 1 .. Len(own) BY <1>0 DEF Bounded
    <3>4. /\ Applied(v) \in v.shown \cup {0} /\ Applied(v) \in Nat
          /\ \A r \in v.shown : r <= Applied(v)
      BY <1>5, <3>3, AppliedIsLast
    <3>5. \A r \in M : r >= 1 /\ r \in Nat
      <4>1. \A r \in M : r \in DOMAIN own /\ r \in Nat BY <1>0, MissingType
      <4>2. DOMAIN own = 1 .. Len(own) BY <1>0 DEF ChatTyped
      <4> QED BY <1>5, <4>1, <4>2
    <3>6. h.seq \notin Missing(m)'
      <4> SUFFICES ASSUME h.seq \in M PROVE h.seq \in view'[m].shown BY <2>3
      <4>1. Applied(v) < h.seq BY <2>1, <3>4, <3>5
      <4> QED BY <1>3, <3>1, <3>4, <4>1
    <3>7. Missing(m)' \in SUBSET M BY <2>3
    <3>8. \A r \in Missing(m)', s \in view'[m].shown : s < r
      <4> SUFFICES ASSUME NEW r \in Missing(m)', NEW s \in view'[m].shown PROVE s < r
        OBVIOUS
      <4>1. CASE s \in v.shown BY <2>1, <3>7, <4>1
      <4>2. CASE s = h.seq
        <5>1. r # h.seq /\ r \in M /\ r \in Nat /\ ~(r < h.seq) BY <3>2, <3>5, <3>6, <3>7
        <5> QED BY <1>3, <4>2, <5>1
      <4> QED BY <3>1, <4>1, <4>2
    <3>9. ASSUME Online PROVE Complete(m, Missing(m)', B, up, Tail(down), client'.seq)
      <4>1. Complete(m, M, B, up, down, client.seq) BY <2>1, <3>9
      <4> HIDE DEF M, B
      <4> QED BY <1>2, <1>4, <1>5, <2>2, <3>6, <3>7, <4>1, TakeTell DEF h
    <3>10. ASSUME ~Online, v.owed = 0 PROVE Recoverable(Missing(m)', Tail(down), Cursor)
      <4>1. Recoverable(M, down, Cursor) BY <2>1, <3>10
      <4> HIDE DEF M
      <4> QED BY <1>2, <2>2, <3>6, <3>7, <4>1, RecoverTakes DEF h
    <3> QED BY <1>2, <1>5, <2>4, <3>1, <3>8, <3>9, <3>10 DEF Mended
  <2> QED BY <2>5, <2>6
<1> QED BY <1>1, <1>7, <1>11, <1>12, <1>13, RowTaken DEF h

-----------------------------------------------------------------------------
(* The start and the end of a replay. *)

LEMMA SubscribedKeeps ==
    ASSUME ChatIInv, Subscribed
    PROVE  ChatIInv'
<1> DEFINE h == Head(down)
           n == h.view
           f == [type |-> "replay-from-scoped", view |-> n, upTo |-> h.seq]
<1>0. /\ ChatTyped /\ Bounded /\ Handshake /\ Unheard /\ Acquainted /\ Withdrawn /\ Counted
      /\ Numbered /\ Fused
  BY DEF ChatIInv
<1>1. /\ Delivered("subscribed") /\ UNCHANGED <<log, socket, subs, client, cuts, history>>
  BY DEF Subscribed
<1>2. /\ down # <<>> /\ down' = Tail(down) /\ h.type = "subscribed" /\ h \in Tells
      /\ h = down[1] /\ 1 \in DOMAIN down /\ down \in Seq(Tells) /\ down' \in Seq(Tells)
      /\ \A i \in DOMAIN down' : i + 1 \in DOMAIN down /\ down'[i] = down[i + 1] /\ i \in Nat \ {0}
      /\ \A i \in DOMAIN down : i # 1 =>
            i - 1 \in DOMAIN down' /\ down'[i - 1] = down[i] /\ i \in Nat
  BY <1>0, <1>1, Told
<1>3. n \in Views /\ h.seq \in Nat /\ h.sub = socket /\ h.seq <= Len(own) /\ Online
  BY <1>0, <1>2, TellFields DEF Acquainted, Bounded, Handshake
<1>4. f \in Asks /\ f.type = "replay-from-scoped" /\ f.view = n /\ f.upTo = h.seq
  BY <1>3 DEF Asks
<1>5. /\ IsMounted(n) => up' = up \o <<f>>
      /\ ~IsMounted(n) => up' = up
      /\ pending' = pending
  BY <1>3 DEF Subscribed, Sends, Online, Mounted, IsMounted
<1>6. /\ \A m \in Views : m # n \/ ~IsMounted(m) => view'[m] = view[m]
      /\ IsMounted(n) => view'[n] = [view[n] EXCEPT !.sub = socket, !.upTo = h.seq,
                                                    !.replaying = TRUE, !.buffer = {}]
      /\ view' \in [Views -> Mounts]
  <2> DEFINE v == view[n]
             w == [v EXCEPT !.sub = h.sub, !.upTo = h.seq, !.replaying = TRUE, !.buffer = {}]
  <2>1. view \in [Views -> Mounts] BY <1>0 DEF ChatTyped
  <2>2. CASE n \in Mounted
    <3>1. view' = [view EXCEPT ![n] = w] BY <2>2 DEF Subscribed
    <3>2. v \in Mounts /\ h.sub \in Nat BY <1>2, <1>3, <2>1, TellFields
    <3>3. w \in Mounts BY <1>3, <3>2 DEF Mounts
    <3>4. w = [v EXCEPT !.sub = socket, !.upTo = h.seq, !.replaying = TRUE, !.buffer = {}]
      BY <1>3
    <3> HIDE DEF v, w
    <3>5. /\ view'[n] = w /\ view' \in [Views -> Mounts]
          /\ \A m \in Views : m # n => view'[m] = view[m]
      BY <1>3, <2>1, <3>1, <3>3
    <3> QED BY <2>2, <3>4, <3>5 DEF v, Mounted, IsMounted
  <2>3. CASE n \notin Mounted
    <3>1. view' = view BY <2>3 DEF Subscribed
    <3> QED BY <1>3, <2>1, <2>3, <3>1 DEF Mounted, IsMounted
  <2> QED BY <2>2, <2>3
<1> HIDE DEF h, n, f
<1>7. IsMounted(n) => /\ view'[n].is = view[n].is /\ view'[n].sub = socket
                      /\ view'[n].upTo = h.seq /\ view'[n].replaying /\ view'[n].buffer = {}
                      /\ view'[n].shown = view[n].shown /\ view'[n].owed = view[n].owed
  <2> SUFFICES ASSUME IsMounted(n)
               PROVE  /\ view'[n].is = view[n].is /\ view'[n].sub = socket
                      /\ view'[n].upTo = h.seq /\ view'[n].replaying = TRUE
                      /\ view'[n].buffer = {}
                      /\ view'[n].shown = view[n].shown /\ view'[n].owed = view[n].owed
    OBVIOUS
  <2>1. view[n] \in Mounts BY <1>0, <1>3, ViewFields
  <2> QED BY <1>6, <2>1 DEF Mounts
<1>8. \A m \in Views : /\ IsMounted(m)' <=> IsMounted(m)
                       /\ view'[m].is = view[m].is /\ view'[m].owed = view[m].owed
                       /\ view'[m].shown = view[m].shown
  BY <1>6, <1>7 DEF IsMounted
<1>9. /\ UNCHANGED <<own, floor, boot, agree, socket, subs, client, pending, cuts, early, leaked,
                     dropped, skipped>>
      /\ up \in Seq(Asks) /\ socket \in Nat \ {0} /\ Len(own) \in Nat
  BY <1>0, <1>1, <1>5 DEF log, history, ChatTyped
<1>10. /\ \A type, m : In(up \o <<f>>, type, m) <=>
             In(up, type, m) \/ (type = "replay-from-scoped" /\ m = n)
       /\ up \o <<f>> \in Seq(Asks)
       /\ \A i \in DOMAIN (up \o <<f>>) :
             \/ i \in DOMAIN up /\ (up \o <<f>>)[i] = up[i]
             \/ (up \o <<f>>)[i] = f
       /\ \A i \in DOMAIN up : i \in DOMAIN (up \o <<f>>) /\ (up \o <<f>>)[i] = up[i]
  BY <1>4, <1>9, InOne
<1>11. /\ \A type, m : In(up', type, m) <=>
             In(up, type, m) \/ (type = "replay-from-scoped" /\ m = n /\ IsMounted(n))
       /\ up' \in Seq(Asks)
       /\ \A i \in DOMAIN up' : \/ i \in DOMAIN up /\ up'[i] = up[i]
                                \/ up'[i] = f /\ IsMounted(n)
       /\ \A i \in DOMAIN up : i \in DOMAIN up' /\ up'[i] = up[i]
  BY <1>5, <1>9, <1>10
<1>12. \A type, m : /\ In(down', type, m) => In(down, type, m)
                    /\ In(down, type, m) => (type = "subscribed" /\ m = n) \/ In(down', type, m)
  BY <1>2, InTail DEF h, n
<1>13. (Online' <=> Online) /\ (EverReady' <=> EverReady) BY <1>9 DEF Online, EverReady
<1>a. ChatTyped' BY <1>0, <1>2, <1>6, <1>9, <1>11 DEF ChatTyped
<1>b. Bounded'
  <2>1. \A i \in DOMAIN down' :
          /\ down'[i].type \in {"row", "other", "subscribed"} => down'[i].seq <= Len(own)
          /\ down'[i].type \in {"row", "other"} => down'[i].seq \in DOMAIN own
          /\ down'[i].type = "other" => ~own[down'[i].seq]
    BY <1>0, <1>2 DEF Bounded
  <2>2. \A i \in DOMAIN up' : /\ up'[i].type = "replay-from-scoped" => up'[i].upTo <= Len(own)
                              /\ up'[i].type = "replay-from" => up'[i].since = client.asked
    BY <1>0, <1>3, <1>4, <1>11 DEF Bounded
  <2>3. \A m \in Views : /\ view'[m].shown \subseteq 1 .. Len(own) /\ view'[m].upTo <= Len(own)
                         /\ \A s \in view'[m].buffer : s <= client.seq
    BY <1>0, <1>3, <1>6, <1>7 DEF Bounded
  <2> QED BY <1>0, <1>9, <2>1, <2>2, <2>3 DEF Bounded
<1>c. Handshake'
  <2>1. \A i \in DOMAIN up' : up'[i].type # "replay-from"
    BY <1>0, <1>3, <1>4, <1>11 DEF Handshake, Online
  <2>2. \A i \in DOMAIN down' : down'[i].type \notin Shake
    BY <1>0, <1>2, <1>3 DEF Handshake, Online
  <2> QED BY <1>0, <1>3, <1>9, <1>13, <2>1, <2>2 DEF Handshake, Online
<1>d. Unheard'
  <2> SUFFICES ASSUME NEW m \in Views
               PROVE  /\ view[m].is = "none" =>
                            /\ m \notin subs
                            /\ \A i \in DOMAIN up' : up'[i].type # "replay-from" => up'[i].view # m
                            /\ \A i \in DOMAIN pending : pending[i].view # m
                            /\ \A i \in DOMAIN down' :
                                  down'[i].type \in {"subscribed", "done", "row"} =>
                                     down'[i].view # m
                      /\ In(up', "unsubscribe", m) \/ In(pending, "unsubscribe", m) =>
                            view[m].is = "disposed"
                      /\ ~IsMounted(m) => view'[m].buffer = {} /\ view'[m].shown = {}
                                             /\ ~view'[m].replaying
    BY <1>8, <1>9 DEF Unheard
  <2>1. view[m].is = "none" =>
           \A i \in DOMAIN up' : up'[i].type # "replay-from" => up'[i].view # m
    BY <1>0, <1>4, <1>11 DEF Unheard, IsMounted
  <2>2. ~IsMounted(m) => view'[m] = view[m] BY <1>6
  <2> QED BY <1>0, <1>2, <1>11, <2>1, <2>2 DEF Unheard
<1>e. Acquainted'
  <2>1. \A i \in DOMAIN down' : down'[i].type = "subscribed" => down'[i].sub = socket
    BY <1>0, <1>2 DEF Acquainted
  <2>2. \A m \in Views : view'[m].sub <= socket /\ (view'[m].sub = socket => Online)
    BY <1>0, <1>3, <1>6, <1>7, <1>9 DEF Acquainted
  <2>3. ASSUME NEW m \in Views, IsMounted(m)
        PROVE  /\ view'[m].sub # socket =>
                   /\ ~In(up', "replay-from-scoped", m) /\ ~In(down', "done", m)
                   /\ m \in subs \/ In(up', "subscribe", m) \/ In(pending, "subscribe", m)
                        => view[m].owed > 0
               /\ Online => m \in subs \/ In(up', "subscribe", m)
    <3>1. CASE m = n BY <1>0, <1>7, <1>11, <2>3, <3>1 DEF Acquainted
    <3>2. CASE m # n
      <4>1. view'[m] = view[m] BY <1>6, <3>2
      <4> QED BY <1>0, <1>11, <1>12, <2>3, <3>2, <4>1 DEF Acquainted
    <3> QED BY <3>1, <3>2
  <2> QED BY <1>8, <1>9, <1>13, <2>1, <2>2, <2>3 DEF Acquainted
<1>f. Withdrawn'
  <2> SUFFICES ASSUME NEW m \in Views, ~IsMounted(m), m \notin leaked
               PROVE  /\ m \in subs => \E i \in DOMAIN up' : up'[i] = Farewell(m)
                      /\ \A i \in DOMAIN up' : up'[i].type = "subscribe" /\ up'[i].view = m =>
                            \E j \in DOMAIN up' : i < j /\ up'[j] = Farewell(m)
                      /\ ~In(pending, "subscribe", m)
    BY <1>8, <1>9 DEF Withdrawn, Farewell
  <2>1. ASSUME NEW i \in DOMAIN up', up'[i].type = "subscribe", up'[i].view = m
        PROVE  \E j \in DOMAIN up' : i < j /\ up'[j] = Farewell(m)
    <3>1. i \in DOMAIN up /\ up'[i] = up[i] BY <1>4, <1>11, <2>1
    <3> QED BY <1>0, <1>11, <2>1, <3>1 DEF Withdrawn
  <2> QED BY <1>0, <1>11, <2>1 DEF Withdrawn
<1>g. Counted'
  <2> SUFFICES ASSUME NEW m \in Views, IsMounted(m)
               PROVE  /\ view[m].owed >= Cardinality(Hits(up', AskTokens(m)))
                                           + Cardinality(Hits(down', TellTokens(m)))
                      /\ view'[m].replaying => view[m].owed > 0
                      /\ view'[m].replaying =>
                            In(up', "replay-from-scoped", m) \/ In(down', "done", m)
                      /\ ~view'[m].replaying => view'[m].buffer = {}
    BY <1>3, <1>8, <1>13 DEF Counted
  <2>1. /\ Cardinality(Hits(up, AskTokens(m))) \in Nat
        /\ Cardinality(Hits(down', TellTokens(m))) \in Nat
        /\ Cardinality(Hits(down, TellTokens(m)))
              = Cardinality(Hits(down', TellTokens(m))) + (IF h \in TellTokens(m) THEN 1 ELSE 0)
        /\ Cardinality(Hits(up \o <<f>>, AskTokens(m)))
              = Cardinality(Hits(up, AskTokens(m))) + (IF f \in AskTokens(m) THEN 1 ELSE 0)
    <3>1. Cardinality(Hits(up, AskTokens(m))) \in Nat BY <1>9, HitsFinite
    <3>2. Cardinality(Hits(down', TellTokens(m))) \in Nat BY <1>2, HitsFinite
    <3>3. Cardinality(Hits(down, TellTokens(m)))
             = Cardinality(Hits(down', TellTokens(m))) + (IF h \in TellTokens(m) THEN 1 ELSE 0)
      BY <1>2, HitsTail DEF h
    <3>4. Cardinality(Hits(up \o <<f>>, AskTokens(m)))
             = Cardinality(Hits(up, AskTokens(m))) + (IF f \in AskTokens(m) THEN 1 ELSE 0)
      BY <1>4, <1>9, HitsOne
    <3> QED BY <3>1, <3>2, <3>3, <3>4
  <2>2. (h \in TellTokens(m) <=> m = n) /\ (f \in AskTokens(m) <=> m = n)
    BY <1>2, <1>4, TokenFrames DEF n
  <2>3. view[m].owed \in Nat /\ view[m].owed >= Cardinality(Hits(up, AskTokens(m)))
                                                  + Cardinality(Hits(down, TellTokens(m)))
    BY <1>0, <1>3, ViewFields DEF Counted
  <2>4. CASE m = n
    <3>1. up' = up \o <<f>> BY <1>5, <2>4
    <3>2. Cardinality(Hits(up', AskTokens(m))) = Cardinality(Hits(up, AskTokens(m))) + 1
      BY <2>1, <2>2, <2>4, <3>1
    <3>3. Cardinality(Hits(down, TellTokens(m))) = Cardinality(Hits(down', TellTokens(m))) + 1
      BY <2>1, <2>2, <2>4
    <3>4. view[m].owed > 0 /\ view[m].owed >= Cardinality(Hits(up', AskTokens(m)))
                                                + Cardinality(Hits(down', TellTokens(m)))
      BY <2>1, <2>3, <3>2, <3>3
    <3> QED BY <1>7, <1>11, <2>4, <3>4
  <2>5. CASE m # n
    <3>1. Cardinality(Hits(up', AskTokens(m))) = Cardinality(Hits(up, AskTokens(m)))
      <4>1. Cardinality(Hits(up \o <<f>>, AskTokens(m))) = Cardinality(Hits(up, AskTokens(m)))
        BY <2>1, <2>2, <2>5
      <4>2. up' = up \/ up' = up \o <<f>> BY <1>5
      <4> QED BY <4>1, <4>2
    <3>2. Cardinality(Hits(down, TellTokens(m))) = Cardinality(Hits(down', TellTokens(m)))
      BY <2>1, <2>2, <2>5
    <3>3. view'[m] = view[m] BY <1>6, <2>5
    <3> QED BY <1>0, <1>3, <1>11, <1>12, <2>3, <3>1, <3>2, <3>3 DEF Counted
  <2> QED BY <2>4, <2>5
<1>h. Numbered'
  <2> SUFFICES ASSUME NEW m \in Views
               PROVE  /\ AckAhead(m, view'[m].buffer, up', down')
                      /\ view'[m].replaying => ReplayAhead(m, view'[m].upTo, up', down')
    BY DEF Numbered
  <2>1. /\ AckAhead(m, view[m].buffer, up, down)
        /\ view[m].replaying => ReplayAhead(m, view[m].upTo, up, down)
    BY <1>0 DEF Numbered
  <2>2. CASE m = n /\ IsMounted(n)
    <3>1. IsAck(h, m) /\ IsScoped(f, m) BY <1>2, <1>4, <2>2 DEF IsAck, IsScoped, n
    <3>2. /\ AckAhead(m, {}, up \o <<f>>, Tail(down))
          /\ ReplayAhead(m, h.seq, up \o <<f>>, Tail(down))
      BY <1>2, <1>4, <1>9, <2>1, <3>1, NumbersTakeAck DEF h
    <3> QED BY <1>2, <1>5, <1>7, <2>2, <3>2
  <2>3. CASE m # n \/ ~IsMounted(m)
    <3>1. view'[m] = view[m] BY <1>6, <2>3
    <3>2. /\ AckAhead(m, view[m].buffer, up, down')
          /\ view[m].replaying => ReplayAhead(m, view[m].upTo, up, down')
      BY <1>2, <2>1, NumbersTakeTell
    <3>3. CASE up' = up BY <3>1, <3>2, <3>3
    <3>4. CASE up' = up \o <<f>> /\ m # n
      <4>1. <<f>> \in Seq(Asks) /\ DOMAIN <<f>> = {1} /\ <<f>>[1] = f BY <1>4, <1>9, AppendOf
      <4>2. \A i \in DOMAIN <<f>> : ~IsScoped(<<f>>[i], m) BY <1>4, <3>4, <4>1 DEF IsScoped
      <4> QED BY <1>9, <3>1, <3>2, <3>4, <4>1, <4>2, NumbersAddAsk
    <3> QED BY <1>5, <2>3, <3>3, <3>4
  <2> QED BY <2>2, <2>3
<1>i. Fused'
  <2> SUFFICES ASSUME NEW m \in Views, Fine(m)' PROVE Mended(m)'
    BY DEF Fused
  <2>0. Fine(m) /\ IsMounted(m) /\ Missing(m)' = Missing(m)
    BY <1>8, <1>9 DEF Fine, Missing, Rows
  <2>1. /\ \A r \in Missing(m), s \in view[m].shown : s < r
        /\ Complete(m, Missing(m), view[m].buffer, up, down, client.seq)
    BY <1>0, <1>3, <2>0 DEF Fused, Mended
  <2>2. Missing(m) \in SUBSET Nat BY <1>0, MissingType
  <2>3. CASE m = n
    <3>1. IsAck(h, m) /\ IsScoped(f, m) BY <1>2, <1>4, <2>3 DEF IsAck, IsScoped, n
    <3>2. \A r \in Missing(m) \cap view[m].buffer : r <= h.seq
      BY <1>0, <1>2, <1>4, <1>9, <3>1, NumbersTakeAck DEF Numbered, h
    <3>3. Complete(m, Missing(m), {}, up \o <<f>>, Tail(down), client.seq)
      BY <1>2, <1>4, <1>9, <2>1, <2>2, <3>1, <3>2, TakeAck DEF h
    <3>4. view'[m].buffer = {} BY <1>7, <2>0, <2>3
    <3>5. up' = up \o <<f>> BY <1>5, <2>0, <2>3
    <3> QED BY <1>2, <1>3, <1>8, <1>9, <1>13, <2>0, <2>1, <3>3, <3>4, <3>5 DEF Mended
  <2>4. CASE m # n
    <3>1. Complete(m, Missing(m), view[m].buffer, up, Tail(down), client.seq)
      <4>1. client.seq \in Nat BY <1>0, ClientFields
      <4> QED BY <1>2, <1>9, <2>1, <2>2, <2>4, <4>1, TakeTell DEF h, n
    <3>2. <<f>> \in Seq(Asks) BY <1>4, <1>9, AppendOf
    <3>3. Complete(m, Missing(m), view[m].buffer, up', Tail(down), client.seq)
      <4>1. Complete(m, Missing(m), view[m].buffer, up \o <<f>>, Tail(down), client.seq)
        BY <1>2, <1>9, <2>2, <3>1, <3>2, AddAsks
      <4> QED BY <1>5, <3>1, <4>1
    <3>4. view'[m] = view[m] BY <1>6, <2>4
    <3> QED BY <1>2, <1>3, <1>9, <1>13, <2>0, <2>1, <3>3, <3>4 DEF Mended
  <2> QED BY <2>3, <2>4
<1> QED BY <1>a, <1>b, <1>c, <1>d, <1>e, <1>f, <1>g, <1>h, <1>i DEF ChatIInv

(* A held-back row is applied over one that is missing only as history      *)
(* records.                                                                 *)
LEMMA NotSkipped ==
    ASSUME ChatIInv, Delivered("done"), NEW m \in Views, Head(down).view = m, Fine(m),
           ~(view[m].owed > 1 /\ Jumps(view[m], view[m].buffer)),
           NEW r \in Missing(m), r \notin view[m].buffer, NEW s \in view[m].buffer
    PROVE  ~(r < s)
<1> DEFINE v == view[m]
           h == Head(down)
<1>0. ChatTyped /\ Bounded /\ Handshake /\ Counted /\ Fused BY DEF ChatIInv
<1>1. /\ down # <<>> /\ h.type = "done" /\ h \in Tells /\ h = down[1] /\ 1 \in DOMAIN down
      /\ down \in Seq(Tells) /\ up \in Seq(Asks) /\ Tail(down) \in Seq(Tells) /\ Online
  <2>1. /\ down # <<>> /\ h.type = "done" /\ h \in Tells /\ h = down[1] /\ 1 \in DOMAIN down
        /\ down \in Seq(Tells) /\ Tail(down) \in Seq(Tells)
    BY <1>0, Told
  <2> QED BY <1>0, <2>1 DEF Handshake, ChatTyped
<1>2. /\ v.owed \in Nat /\ v.shown \subseteq 1 .. Len(own) /\ Len(own) \in Nat /\ IsMounted(m)
      /\ client.seq \in Nat /\ s \in Nat /\ s <= client.seq /\ v.buffer \in SUBSET Nat
  BY <1>0, ViewFields, ClientFields DEF Bounded, ChatTyped, Fine
<1>3. r \in Nat /\ r \in Rows /\ r > floor /\ r >= 1
  <2>1. r \in Nat /\ r \in Rows /\ r > floor BY <1>0, MissingType DEF Missing
  <2>2. r \in DOMAIN own /\ DOMAIN own = 1 .. Len(own) BY <1>0, <2>1 DEF Rows, ChatTyped
  <2> QED BY <1>2, <2>1, <2>2
<1>4. /\ \A x \in v.shown : x < r
      /\ Complete(m, Missing(m), v.buffer, up, down, client.seq)
  BY <1>0, <1>1 DEF Fused, Mended
<1>5. Applied(v) < r
  <2>1. Applied(v) \in v.shown \cup {0} BY <1>2, AppliedIsLast
  <2> QED BY <1>3, <1>4, <2>1
<1> SUFFICES ASSUME r < s PROVE FALSE OBVIOUS
<1>6. Jumps(v, v.buffer) BY <1>3, <1>5 DEF Jumps
<1>7. v.owed <= 1 BY <1>2, <1>6
<1>8. Cardinality(Hits(up, AskTokens(m))) + Cardinality(Hits(Tail(down), TellTokens(m))) <= 0
  <2>1. Cardinality(Hits(up, AskTokens(m))) \in Nat BY <1>1, HitsFinite
  <2>2. Cardinality(Hits(Tail(down), TellTokens(m))) \in Nat BY <1>1, HitsFinite
  <2>3. h \in TellTokens(m) BY <1>1, TokenFrames
  <2>4. Cardinality(Hits(down, TellTokens(m)))
           = Cardinality(Hits(Tail(down), TellTokens(m))) + (IF h \in TellTokens(m) THEN 1 ELSE 0)
    BY <1>1, HitsTail
  <2>5. v.owed >= Cardinality(Hits(up, AskTokens(m))) + Cardinality(Hits(down, TellTokens(m)))
    BY <1>0, <1>1, <1>2 DEF Counted
  <2> QED BY <1>2, <1>7, <2>1, <2>2, <2>3, <2>4, <2>5
<1>9. ~Owing(m, up, Tail(down), r) BY <1>1, <1>8, NoTokens
<1> DEFINE N == {x \in Missing(m) : x \notin v.buffer}
<1>10. Complete(m, N, {}, up, Tail(down), client.seq)
  <2>1. Missing(m) \in SUBSET Nat BY <1>0, MissingType
  <2>2. N \in SUBSET Missing(m) /\ N \cap v.buffer = {} OBVIOUS
  <2> HIDE DEF N
  <2> QED BY <1>1, <1>4, <2>1, <2>2, TakeDone
<1>11. r <= client.seq BY <1>2, <1>3
<1> QED BY <1>9, <1>10, <1>11 DEF Complete

LEMMA DoneKeeps ==
    ASSUME ChatIInv, Done
    PROVE  ChatIInv'
<1> DEFINE h == Head(down)
           n == h.view
<1>0. /\ ChatTyped /\ Bounded /\ Handshake /\ Unheard /\ Acquainted /\ Withdrawn /\ Counted
      /\ Numbered /\ Fused
  BY DEF ChatIInv
<1>1. /\ Delivered("done")
      /\ UNCHANGED <<log, socket, subs, up, client, pending, cuts, leaked, dropped, skipped>>
      /\ early' = IF view[n].owed > 1 /\ Jumps(view[n], view[n].buffer)
                  THEN early \cup {n} ELSE early
  BY DEF Done
<1>2. /\ down # <<>> /\ down' = Tail(down) /\ h.type = "done" /\ h \in Tells
      /\ h = down[1] /\ 1 \in DOMAIN down /\ down \in Seq(Tells) /\ down' \in Seq(Tells)
      /\ \A i \in DOMAIN down' : i + 1 \in DOMAIN down /\ down'[i] = down[i + 1] /\ i \in Nat \ {0}
      /\ \A i \in DOMAIN down : i # 1 =>
            i - 1 \in DOMAIN down' /\ down'[i - 1] = down[i] /\ i \in Nat
  BY <1>0, <1>1, Told
<1>3. n \in Views /\ Online BY <1>0, <1>2, TellFields DEF Handshake
<1>4. /\ UNCHANGED <<own, floor, boot, agree, socket, subs, up, client, pending, cuts, leaked,
                     dropped, skipped>>
      /\ up \in Seq(Asks) /\ socket \in Nat \ {0} /\ Len(own) \in Nat
      /\ early \subseteq early' /\ early' \subseteq Views
  BY <1>0, <1>1, <1>3 DEF log, ChatTyped
<1>5. In(down, "done", n) BY <1>2 DEF In
<1>6. /\ Cardinality(Hits(up, AskTokens(n))) \in Nat
      /\ Cardinality(Hits(down', TellTokens(n))) \in Nat
      /\ Cardinality(Hits(down, TellTokens(n))) = Cardinality(Hits(down', TellTokens(n))) + 1
  <2>1. Cardinality(Hits(up, AskTokens(n))) \in Nat BY <1>4, HitsFinite
  <2>2. Cardinality(Hits(down', TellTokens(n))) \in Nat BY <1>2, HitsFinite
  <2>3. h \in TellTokens(n) BY <1>2, TokenFrames
  <2>4. Cardinality(Hits(down, TellTokens(n)))
           = Cardinality(Hits(Tail(down), TellTokens(n))) + (IF h \in TellTokens(n) THEN 1 ELSE 0)
    BY <1>2, HitsTail
  <2> QED BY <1>2, <2>1, <2>2, <2>3, <2>4
<1>7. IsMounted(n) =>
         /\ view[n].owed - 1 \in Nat
         /\ view[n].owed - 1 >= Cardinality(Hits(up, AskTokens(n)))
                                  + Cardinality(Hits(down', TellTokens(n)))
  <2> SUFFICES ASSUME IsMounted(n)
               PROVE  /\ view[n].owed - 1 \in Nat
                      /\ view[n].owed - 1 >= Cardinality(Hits(up, AskTokens(n)))
                                               + Cardinality(Hits(down', TellTokens(n)))
    OBVIOUS
  <2>1. view[n].owed >= Cardinality(Hits(up, AskTokens(n)))
                          + Cardinality(Hits(down, TellTokens(n)))
    BY <1>0, <1>3 DEF Counted
  <2>2. view[n].owed \in Nat BY <1>0, <1>3, ViewFields
  <2> QED BY <1>6, <2>1, <2>2
<1>8. /\ \A m \in Views : m # n \/ ~IsMounted(m) => view'[m] = view[m]
      /\ view' \in [Views -> Mounts]
      /\ IsMounted(n) =>
            view'[n] = [view[n] EXCEPT !.shown = Applies(view[n], view[n].buffer), !.buffer = {},
                                       !.replaying = FALSE, !.upTo = None,
                                       !.owed = view[n].owed - 1]
  <2> DEFINE v == view[n]
             S == Applies(v, v.buffer)
             k == v.owed - 1
             w == [v EXCEPT !.shown = S, !.buffer = {}, !.replaying = FALSE, !.upTo = None,
                            !.owed = k]
  <2>1. view \in [Views -> Mounts] BY <1>0 DEF ChatTyped
  <2>2. CASE n \in Mounted
    <3>1. view' = [view EXCEPT ![n] = w] BY <2>2 DEF Done
    <3>2. v \in Mounts /\ S \in SUBSET Nat BY <1>0, <1>3, ViewFields DEF Applies
    <3>3. k \in Nat BY <1>7, <2>2 DEF Mounted, IsMounted
    <3> HIDE DEF v, S, k
    <3>4. w \in Mounts BY <3>2, <3>3 DEF Mounts, None
    <3> HIDE DEF w
    <3>5. /\ view'[n] = w /\ view' \in [Views -> Mounts]
          /\ \A m \in Views : m # n => view'[m] = view[m]
      BY <1>3, <2>1, <3>1, <3>4
    <3> QED BY <2>2, <3>5 DEF w, v, S, k, Mounted, IsMounted
  <2>3. CASE n \notin Mounted
    <3>1. view' = view BY <2>3 DEF Done
    <3> QED BY <1>3, <2>1, <2>3, <3>1 DEF Mounted, IsMounted
  <2> QED BY <2>2, <2>3
<1>9. IsMounted(n) => /\ view'[n].is = view[n].is /\ view'[n].sub = view[n].sub
                      /\ view'[n].upTo = None /\ ~view'[n].replaying /\ view'[n].buffer = {}
                      /\ view'[n].shown = Applies(view[n], view[n].buffer)
                      /\ view'[n].owed = view[n].owed - 1
  <2> SUFFICES ASSUME IsMounted(n)
               PROVE  /\ view'[n].is = view[n].is /\ view'[n].sub = view[n].sub
                      /\ view'[n].upTo = None /\ view'[n].replaying = FALSE
                      /\ view'[n].buffer = {}
                      /\ view'[n].shown = Applies(view[n], view[n].buffer)
                      /\ view'[n].owed = view[n].owed - 1
    OBVIOUS
  <2>1. view[n] \in Mounts BY <1>0, <1>3, ViewFields
  <2> QED BY <1>8, <2>1 DEF Mounts
<1> HIDE DEF h, n
<1>10. \A m \in Views : /\ IsMounted(m)' <=> IsMounted(m)
                        /\ view'[m].is = view[m].is /\ view'[m].sub = view[m].sub
  BY <1>8, <1>9 DEF IsMounted
<1>11. \A type, m : /\ In(down', type, m) => In(down, type, m)
                    /\ In(down, type, m) => (type = "done" /\ m = n) \/ In(down', type, m)
  BY <1>2, InTail DEF h, n
<1>12. (Online' <=> Online) /\ (EverReady' <=> EverReady) BY <1>4 DEF Online, EverReady
<1>a. ChatTyped' BY <1>0, <1>2, <1>4, <1>8 DEF ChatTyped
<1>b. Bounded'
  <2>1. \A i \in DOMAIN down' :
          /\ down'[i].type \in {"row", "other", "subscribed"} => down'[i].seq <= Len(own)
          /\ down'[i].type \in {"row", "other"} => down'[i].seq \in DOMAIN own
          /\ down'[i].type = "other" => ~own[down'[i].seq]
    BY <1>0, <1>2 DEF Bounded
  <2>2. ASSUME NEW m \in Views
        PROVE  /\ view'[m].shown \subseteq 1 .. Len(own) /\ view'[m].upTo <= Len(own)
               /\ \A s \in view'[m].buffer : s <= client.seq
    <3>1. CASE m = n /\ IsMounted(n)
      <4>1. view[n].shown \subseteq 1 .. Len(own) BY <1>0, <1>3 DEF Bounded
      <4>2. Applied(view[n]) \in Nat BY <1>4, <4>1, AppliedIsLast
      <4>3. client.seq \in Nat /\ client.seq <= Len(own) BY <1>0, ClientFields DEF Bounded
      <4>4. \A s \in view[n].buffer : s \in Nat /\ s <= client.seq
        BY <1>0, <1>3, ViewFields DEF Bounded
      <4>5. \A s \in view[n].buffer : s > Applied(view[n]) => s \in 1 .. Len(own)
        BY <1>4, <4>2, <4>3, <4>4
      <4>6. view'[n].shown \subseteq 1 .. Len(own) BY <1>9, <3>1, <4>1, <4>5 DEF Applies
      <4>7. view'[n].upTo <= Len(own) /\ view'[n].buffer = {} BY <1>4, <1>9, <3>1 DEF None
      <4> QED BY <3>1, <4>6, <4>7
    <3>2. CASE m # n \/ ~IsMounted(m)
      <4>1. view'[m] = view[m] BY <1>8, <3>2
      <4> QED BY <1>0, <4>1 DEF Bounded
    <3> QED BY <3>1, <3>2
  <2> QED BY <1>0, <1>4, <2>1, <2>2 DEF Bounded
<1>c. Handshake'
  <2>1. \A i \in DOMAIN up : up[i].type # "replay-from" BY <1>0, <1>3 DEF Handshake, Online
  <2>2. \A i \in DOMAIN down' : down'[i].type \notin Shake
    BY <1>0, <1>2, <1>3 DEF Handshake, Online
  <2> QED BY <1>0, <1>3, <1>4, <1>12, <2>1, <2>2 DEF Handshake, Online
<1>d. Unheard'
  <2>1. \A m \in Views : view[m].is = "none" =>
           \A i \in DOMAIN down' : down'[i].type \in {"subscribed", "done", "row"} =>
              down'[i].view # m
    BY <1>0, <1>2 DEF Unheard
  <2>2. \A m \in Views : ~IsMounted(m) => view'[m] = view[m] BY <1>8
  <2> QED BY <1>0, <1>4, <1>10, <2>1, <2>2 DEF Unheard
<1>e. Acquainted'
  <2>1. \A i \in DOMAIN down' : down'[i].type = "subscribed" => down'[i].sub = socket
    BY <1>0, <1>2 DEF Acquainted
  <2>3. ASSUME NEW m \in Views, IsMounted(m)
        PROVE  /\ view[m].sub # socket =>
                   /\ ~In(up, "replay-from-scoped", m) /\ ~In(down', "done", m)
                   /\ m \in subs \/ In(up, "subscribe", m) \/ In(pending, "subscribe", m)
                        => view'[m].owed > 0
               /\ Online => m \in subs \/ In(up, "subscribe", m)
    <3>1. CASE m = n
      <4>1. view[m].sub = socket BY <1>0, <1>5, <2>3, <3>1 DEF Acquainted
      <4> QED BY <1>0, <2>3, <4>1 DEF Acquainted
    <3>2. CASE m # n
      <4>1. view'[m] = view[m] BY <1>8, <3>2
      <4> QED BY <1>0, <1>11, <2>3, <4>1 DEF Acquainted
    <3> QED BY <3>1, <3>2
  <2> QED BY <1>0, <1>4, <1>10, <1>12, <2>1, <2>3 DEF Acquainted
<1>f. Withdrawn' BY <1>0, <1>4, <1>10 DEF Withdrawn, Farewell
<1>g. Counted'
  <2> SUFFICES ASSUME NEW m \in Views, IsMounted(m)
               PROVE  /\ view'[m].owed >= Cardinality(Hits(up, AskTokens(m)))
                                            + Cardinality(Hits(down', TellTokens(m)))
                      /\ view'[m].replaying => view'[m].owed > 0
                      /\ view'[m].replaying =>
                            In(up, "replay-from-scoped", m) \/ In(down', "done", m)
                      /\ ~view'[m].replaying => view'[m].buffer = {}
    BY <1>4, <1>10 DEF Counted
  <2>1. CASE m = n BY <1>7, <1>9, <2>1
  <2>2. CASE m # n
    <3>1. view'[m] = view[m] BY <1>8, <2>2
    <3>2. h \notin TellTokens(m) BY <1>2, <2>2, TokenFrames DEF n
    <3>3. Cardinality(Hits(down', TellTokens(m))) = Cardinality(Hits(down, TellTokens(m)))
      <4>1. Cardinality(Hits(down', TellTokens(m))) \in Nat BY <1>2, HitsFinite
      <4>2. Cardinality(Hits(down, TellTokens(m)))
               = Cardinality(Hits(Tail(down), TellTokens(m)))
                   + (IF h \in TellTokens(m) THEN 1 ELSE 0)
        BY <1>2, HitsTail DEF h
      <4> QED BY <1>2, <3>2, <4>1, <4>2
    <3> QED BY <1>0, <1>3, <1>11, <2>2, <3>1, <3>3 DEF Counted
  <2> QED BY <2>1, <2>2
<1>h. Numbered'
  <2> SUFFICES ASSUME NEW m \in Views
               PROVE  /\ AckAhead(m, view'[m].buffer, up, down')
                      /\ view'[m].replaying => ReplayAhead(m, view'[m].upTo, up, down')
    BY <1>4 DEF Numbered
  <2>1. /\ AckAhead(m, view[m].buffer, up, down)
        /\ view[m].replaying => ReplayAhead(m, view[m].upTo, up, down)
    BY <1>0 DEF Numbered
  <2>2. \A s \in view'[m].buffer : s \in view[m].buffer BY <1>8, <1>9
  <2>3. AckAhead(m, view'[m].buffer, up, Tail(down)) BY <1>2, <2>1, <2>2, NumbersTakeTell
  <2>4. view'[m].replaying => view'[m] = view[m] BY <1>8, <1>9
  <2>5. view'[m].replaying => ReplayAhead(m, view'[m].upTo, up, Tail(down))
    BY <1>2, <2>1, <2>4, NumbersTakeTell
  <2> QED BY <1>2, <2>3, <2>5
<1>i. Fused'
  <2> SUFFICES ASSUME NEW m \in Views, Fine(m)' PROVE Mended(m)'
    BY DEF Fused
  <2> DEFINE v == view[m]
             M == Missing(m)
  <2>0. Fine(m) /\ IsMounted(m) BY <1>4, <1>10 DEF Fine
  <2>1. /\ \A r \in M, s \in v.shown : s < r
        /\ Complete(m, M, v.buffer, up, down, client.seq)
    BY <1>0, <1>3, <2>0 DEF Fused, Mended
  <2>2. M \in SUBSET Nat /\ client.seq \in Nat BY <1>0, MissingType, ClientFields
  <2>3. CASE m # n
    <3>1. view'[m] = view[m] BY <1>8, <2>3
    <3>2. Missing(m)' = M BY <1>4, <3>1 DEF Missing, Rows
    <3>3. Complete(m, M, v.buffer, up, Tail(down), client.seq)
      <4> HIDE DEF M, v
      <4> QED BY <1>2, <1>4, <2>1, <2>2, <2>3, TakeTell DEF h, n
    <3> QED BY <1>2, <1>3, <1>4, <1>12, <2>1, <3>1, <3>2, <3>3 DEF Mended
  <2>4. CASE m = n
    <3>1. view'[m].shown = Applies(v, v.buffer) /\ view'[m].buffer = {} BY <1>9, <2>0, <2>4
    <3>2. v.shown \subseteq 1 .. Len(own) /\ v.buffer \in SUBSET Nat
      BY <1>0, ViewFields DEF Bounded
    <3>3. Applied(v) \in v.shown \cup {0} /\ Applied(v) \in Nat BY <1>4, <3>2, AppliedIsLast
    <3>4. \A r \in M : Applied(v) < r /\ r \in Nat
      <4>1. \A r \in M : r \in DOMAIN own /\ r \in Nat BY <1>0, MissingType
      <4>2. DOMAIN own = 1 .. Len(own) BY <1>0 DEF ChatTyped
      <4>3. \A r \in M : r >= 1 BY <1>4, <4>1, <4>2
      <4> QED BY <2>1, <3>3, <4>1, <4>3
    <3>5. Missing(m)' = {r \in M : r \notin view'[m].shown}
      BY <1>4, <3>1 DEF Missing, Rows, Applies
    <3>6. Missing(m)' \in SUBSET M /\ Missing(m)' \cap v.buffer = {}
      BY <3>1, <3>4, <3>5 DEF Applies
    <3>7. \A r \in Missing(m)', s \in view'[m].shown : s < r
      <4> SUFFICES ASSUME NEW r \in Missing(m)', NEW s \in view'[m].shown PROVE s < r
        OBVIOUS
      <4>1. CASE s \in v.shown BY <2>1, <3>6, <4>1
      <4>2. CASE s \in v.buffer
        <5>1. r \notin v.buffer /\ r \in M /\ r \in Nat /\ s \in Nat BY <3>2, <3>4, <3>6, <4>2
        <5>2. ~(v.owed > 1 /\ Jumps(v, v.buffer))
          BY <1>1, <1>3, <2>4, <1>4, m \notin early' DEF h, n, Fine
        <5>3. ~(r < s) BY <1>1, <2>0, <2>4, <4>2, <5>1, <5>2, NotSkipped DEF h, n
        <5>4. r # s BY <4>2, <5>1
        <5> QED BY <5>1, <5>3, <5>4
      <4> QED BY <3>1, <4>1, <4>2 DEF Applies
    <3>8. Complete(m, Missing(m)', {}, up, Tail(down), client.seq)
      <4> HIDE DEF M, v
      <4> QED BY <1>2, <1>4, <2>1, <2>2, <3>6, TakeDone DEF h
    <3> QED BY <1>2, <1>3, <1>4, <1>12, <3>1, <3>7, <3>8 DEF Mended
  <2> QED BY <2>3, <2>4
<1> QED BY <1>a, <1>b, <1>c, <1>d, <1>e, <1>f, <1>g, <1>h, <1>i DEF ChatIInv

-----------------------------------------------------------------------------
(* The views come and go. *)

(* A frame of a view is sent, or kept until the connection is there. *)
LEMMA Posted ==
    ASSUME ChatTyped, NEW f \in Asks, NEW sent \in BOOLEAN, sent => Sends(<<f>>),
           ~sent => UNCHANGED <<up, pending>>
    PROVE  /\ up' \in Seq(Asks) /\ pending' \in Seq(Asks)
           /\ Online /\ sent => up' = up \o <<f>>
           /\ ~(Online /\ sent) => up' = up
           /\ Online => pending' = pending
           /\ \A type, m : In(up', type, m) <=>
                 In(up, type, m) \/ (sent /\ Online /\ f.type = type /\ f.view = m)
           /\ \A type, m : In(pending', type, m) <=>
                 In(pending, type, m) \/ (sent /\ ~Online /\ f.type = type /\ f.view = m)
           /\ \A i \in DOMAIN up' : \/ i \in DOMAIN up /\ up'[i] = up[i]
                                    \/ up'[i] = f /\ sent /\ Online
           /\ \A i \in DOMAIN up : i \in DOMAIN up' /\ up'[i] = up[i]
           /\ \A i \in DOMAIN pending' : \/ i \in DOMAIN pending /\ pending'[i] = pending[i]
                                         \/ pending'[i] = f /\ sent /\ ~Online
<1>1. up \in Seq(Asks) /\ pending \in Seq(Asks) BY DEF ChatTyped
<1>2. ASSUME NEW s \in Seq(Asks)
      PROVE  /\ s \o <<f>> \in Seq(Asks)
             /\ \A type, m : In(s \o <<f>>, type, m) <=>
                   In(s, type, m) \/ (f.type = type /\ f.view = m)
             /\ \A i \in DOMAIN (s \o <<f>>) : \/ i \in DOMAIN s /\ (s \o <<f>>)[i] = s[i]
                                               \/ (s \o <<f>>)[i] = f
             /\ \A i \in DOMAIN s : i \in DOMAIN (s \o <<f>>) /\ (s \o <<f>>)[i] = s[i]
  BY <1>2, InOne
<1>3. CASE ~sent BY <1>1, <1>3
<1>4. CASE sent /\ Online
  <2>1. up' = up \o <<f>> /\ pending' = pending BY <1>4 DEF Sends, Online
  <2> QED BY <1>1, <1>2, <1>4, <2>1
<1>5. CASE sent /\ ~Online
  <2>1. pending' = pending \o <<f>> /\ up' = up BY <1>5 DEF Sends, Online
  <2> QED BY <1>1, <1>2, <1>5, <2>1
<1> QED BY <1>3, <1>4, <1>5

(* What that does to a view the frame is not of. *)
LEMMA NotItsFrame ==
    ASSUME ChatTyped, NEW f \in Asks, NEW m \in Views, f.view # m,
           f.type \in {"subscribe", "unsubscribe"},
           up' = up \/ up' = up \o <<f>>
    PROVE  /\ Cardinality(Hits(up', AskTokens(m))) = Cardinality(Hits(up, AskTokens(m)))
           /\ \A B, d, upTo : /\ AckAhead(m, B, up, d) => AckAhead(m, B, up', d)
                              /\ ReplayAhead(m, upTo, up, d) => ReplayAhead(m, upTo, up', d)
<1>1. CASE up' = up BY <1>1
<1>2. CASE up' = up \o <<f>>
  <2>1. up \in Seq(Asks) BY DEF ChatTyped
  <2>2. <<f>> \in Seq(Asks) /\ DOMAIN <<f>> = {1} /\ <<f>>[1] = f BY <2>1, AppendOf
  <2>3. \A i \in DOMAIN <<f>> : ~IsScoped(<<f>>[i], m) BY <2>2 DEF IsScoped
  <2>4. Cardinality(Hits(up', AskTokens(m))) = Cardinality(Hits(up, AskTokens(m)))
    <3>1. f \notin AskTokens(m) BY TokenFrames
    <3>2. \A j \in DOMAIN <<f>> : <<f>>[j] \notin AskTokens(m) BY <2>2, <3>1
    <3>3. Hits(up \o <<f>>, AskTokens(m)) = Hits(up, AskTokens(m)) BY <2>1, <2>2, <3>2, HitsNone
    <3> QED BY <1>2, <3>3
  <2>5. ASSUME NEW B, NEW d, NEW upTo
        PROVE  /\ AckAhead(m, B, up, d) => AckAhead(m, B, up', d)
               /\ ReplayAhead(m, upTo, up, d) => ReplayAhead(m, upTo, up', d)
    BY <1>2, <2>1, <2>2, <2>3, NumbersAddAsk
  <2> QED BY <2>4, <2>5
<1> QED BY <1>1, <1>2

(* The parts of the invariant that a sent frame leaves alone. *)
LEMMA PostKeeps ==
    ASSUME ChatIInv, NEW f \in Asks, f.type \in {"subscribe", "unsubscribe"},
           NEW sent \in BOOLEAN, sent => Sends(<<f>>), ~sent => UNCHANGED <<up, pending>>,
           NEW n \in Views, f.view = n, NEW w \in Mounts, view' = [view EXCEPT ![n] = w],
           w.shown = {}, w.buffer = {}, w.upTo = view[n].upTo, w.sub = view[n].sub, ~w.replaying,
           leaked' \in SUBSET Views, leaked \subseteq leaked',
           UNCHANGED <<log, socket, subs, down, client, cuts, early, dropped, skipped>>
    PROVE  /\ ChatTyped' /\ Bounded' /\ Handshake' /\ Numbered'
           /\ view'[n] = w /\ \A m \in Views : m # n => view'[m] = view[m]
           /\ \A m \in Views : m # n /\ Fine(m)' => Mended(m)'
           /\ \A m \in Views : m # n /\ IsMounted(m) /\ Online =>
                 view[m].owed >= Cardinality(Hits(up', AskTokens(m)))
                                   + Cardinality(Hits(down, TellTokens(m)))
<1>0. /\ ChatTyped /\ Bounded /\ Handshake /\ Unheard /\ Acquainted /\ Withdrawn /\ Counted
      /\ Numbered /\ Fused
  BY DEF ChatIInv
<1>1. /\ up' \in Seq(Asks) /\ pending' \in Seq(Asks)
      /\ up' = up \/ up' = up \o <<f>>
      /\ ~Online => up' = up
      /\ Online => pending' = pending
      /\ \A i \in DOMAIN up' : \/ i \in DOMAIN up /\ up'[i] = up[i]
                               \/ up'[i] = f
      /\ \A i \in DOMAIN pending' : \/ i \in DOMAIN pending /\ pending'[i] = pending[i]
                                    \/ pending'[i] = f
  BY <1>0, Posted
<1>2. /\ view'[n] = w /\ view' \in [Views -> Mounts]
      /\ \A m \in Views : m # n => view'[m] = view[m]
  BY <1>0 DEF ChatTyped
<1>3. /\ UNCHANGED <<own, floor, boot, agree, socket, subs, down, client, cuts, early, dropped,
                     skipped>>
      /\ down \in Seq(Tells)
  BY <1>0 DEF log, ChatTyped
<1>4. (Online' <=> Online) /\ (EverReady' <=> EverReady) BY <1>3 DEF Online, EverReady
<1>a. ChatTyped' BY <1>0, <1>1, <1>2, <1>3 DEF ChatTyped
<1>b. Bounded'
  <2>1. \A i \in DOMAIN up' : /\ up'[i].type = "replay-from-scoped" => up'[i].upTo <= Len(own)
                              /\ up'[i].type = "replay-from" => up'[i].since = client.asked
    BY <1>0, <1>1 DEF Bounded
  <2>2. \A m \in Views : /\ view'[m].shown \subseteq 1 .. Len(own) /\ view'[m].upTo <= Len(own)
                         /\ \A s \in view'[m].buffer : s <= client.seq
    BY <1>0, <1>2 DEF Bounded
  <2> QED BY <1>0, <1>3, <2>1, <2>2 DEF Bounded
<1>c. Handshake'
  <2>1. CASE Online
    <3>1. \A i \in DOMAIN up' : up'[i].type # "replay-from"
      BY <1>0, <1>1, <2>1 DEF Handshake, Online
    <3> QED BY <1>0, <1>1, <1>3, <1>4, <2>1, <3>1 DEF Handshake, Online
  <2>2. CASE ~Online
    <3>1. up' = up BY <1>1, <2>2
    <3>2. \A i \in DOMAIN pending' : pending'[i].type \in {"subscribe", "unsubscribe"}
      BY <1>0, <1>1 DEF Handshake
    <3> QED BY <1>0, <1>3, <1>4, <2>2, <3>1, <3>2 DEF Handshake
  <2> QED BY <2>1, <2>2
<1>d. Numbered'
  <2> SUFFICES ASSUME NEW m \in Views
               PROVE  /\ AckAhead(m, view'[m].buffer, up', down)
                      /\ view'[m].replaying => ReplayAhead(m, view'[m].upTo, up', down)
    BY <1>3 DEF Numbered
  <2>1. /\ AckAhead(m, view[m].buffer, up, down)
        /\ view[m].replaying => ReplayAhead(m, view[m].upTo, up, down)
    BY <1>0 DEF Numbered
  <2>2. CASE m # n
    <3>1. view'[m] = view[m] BY <1>2, <2>2
    <3>2. /\ AckAhead(m, view[m].buffer, up, down) => AckAhead(m, view[m].buffer, up', down)
          /\ ReplayAhead(m, view[m].upTo, up, down) => ReplayAhead(m, view[m].upTo, up', down)
      BY <1>0, <1>1, <2>2, NotItsFrame
    <3> QED BY <2>1, <3>1, <3>2
  <2>3. CASE m = n
    <3>1. \A k \in DOMAIN up' : IsScoped(up'[k], m) => k \in DOMAIN up /\ up'[k] = up[k]
      BY <1>1 DEF IsScoped
    <3>2. AckAhead(m, {}, up', down) BY <2>1, <3>1 DEF AckAhead
    <3> QED BY <1>2, <2>3, <3>2
  <2> QED BY <2>2, <2>3
<1>e. ASSUME NEW m \in Views, m # n, Fine(m)'
      PROVE  Mended(m)'
  <2>1. view'[m] = view[m] BY <1>2, <1>e
  <2>2. Fine(m) /\ Missing(m)' = Missing(m)
    BY <1>3, <1>e, <2>1 DEF Fine, IsMounted, Missing, Rows
  <2>3. Mended(m) /\ Missing(m) \in SUBSET Nat BY <1>0, <2>2, MissingType DEF Fused
  <2>4. Online => Complete(m, Missing(m), view[m].buffer, up', down, client.seq)
    <3> HAVE Online
    <3>1. Complete(m, Missing(m), view[m].buffer, up, down, client.seq) BY <2>3 DEF Mended
    <3>2. up \in Seq(Asks) /\ <<f>> \in Seq(Asks) BY <1>0, AppendOf DEF ChatTyped
    <3>3. Complete(m, Missing(m), view[m].buffer, up \o <<f>>, down, client.seq)
      BY <1>3, <2>3, <3>1, <3>2, AddAsks
    <3> QED BY <1>1, <3>1, <3>3
  <2> QED BY <1>3, <1>4, <2>1, <2>2, <2>3, <2>4 DEF Mended, Cursor
<1>f. ASSUME NEW m \in Views, m # n, IsMounted(m), Online
      PROVE  view[m].owed >= Cardinality(Hits(up', AskTokens(m)))
                               + Cardinality(Hits(down, TellTokens(m)))
  <2>1. Cardinality(Hits(up', AskTokens(m))) = Cardinality(Hits(up, AskTokens(m)))
    BY <1>0, <1>1, <1>f, NotItsFrame
  <2> QED BY <1>0, <1>f, <2>1 DEF Counted
<1> QED BY <1>2, <1>a, <1>b, <1>c, <1>d, <1>e, <1>f

LEMMA MountKeeps ==
    ASSUME ChatIInv, NEW n \in Views, Mount(n)
    PROVE  ChatIInv'
<1> DEFINE f == Request("subscribe", n)
           w == [view[n] EXCEPT !.is = "mounted", !.owed = 1]
<1>0. /\ ChatTyped /\ Bounded /\ Handshake /\ Unheard /\ Acquainted /\ Withdrawn /\ Counted
      /\ Numbered /\ Fused
  BY DEF ChatIInv
<1>1. /\ view[n].is = "none" /\ view' = [view EXCEPT ![n] = w]
      /\ EverReady => Sends(<<f>>)
      /\ ~EverReady => UNCHANGED <<up, pending>>
      /\ UNCHANGED <<log, socket, subs, down, client, cuts, history>>
  BY DEF Mount
<1>2. f \in Asks /\ f.type = "subscribe" /\ f.view = n BY SubscribeFrames
<1>3. /\ w \in Mounts /\ w.is = "mounted" /\ w.owed = 1 /\ w.sub = view[n].sub
      /\ w.upTo = view[n].upTo /\ w.replaying = view[n].replaying
      /\ w.buffer = view[n].buffer /\ w.shown = view[n].shown
  <2>1. view[n] \in Mounts BY <1>0, ViewFields
  <2> QED BY <2>1 DEF Mounts
<1>4. w.buffer = {} /\ w.shown = {} /\ ~w.replaying /\ ~IsMounted(n)
  BY <1>0, <1>1, <1>3 DEF Unheard, IsMounted
<1> HIDE DEF f, w
<1> DEFINE sent == EverReady
<1>5. sent \in BOOLEAN /\ (Online => sent) BY <1>0 DEF EverReady, Handshake
<1>6. /\ UNCHANGED <<own, floor, boot, agree, socket, subs, down, client, cuts, early, leaked,
                     dropped, skipped>>
      /\ leaked \in SUBSET Views /\ down \in Seq(Tells) /\ up \in Seq(Asks)
  BY <1>0, <1>1 DEF log, history, ChatTyped
<1>7. (sent => Sends(<<f>>)) /\ (~sent => UNCHANGED <<up, pending>>) BY <1>1
<1> HIDE DEF sent
<1>8. /\ ChatTyped' /\ Bounded' /\ Handshake' /\ Numbered'
      /\ view'[n] = w /\ \A m \in Views : m # n => view'[m] = view[m]
      /\ \A m \in Views : m # n /\ Fine(m)' => Mended(m)'
      /\ \A m \in Views : m # n /\ IsMounted(m) /\ Online =>
            view[m].owed >= Cardinality(Hits(up', AskTokens(m)))
                              + Cardinality(Hits(down, TellTokens(m)))
  BY <1>1, <1>2, <1>3, <1>4, <1>5, <1>6, <1>7, PostKeeps
<1>9. /\ Online => up' = up \o <<f>> /\ pending' = pending
      /\ \A type, m : In(up', type, m) <=>
            In(up, type, m) \/ (Online /\ type = "subscribe" /\ m = n)
      /\ \A type, m : In(pending', type, m) =>
            In(pending, type, m) \/ (type = "subscribe" /\ m = n)
      /\ \A i \in DOMAIN up' : \/ i \in DOMAIN up /\ up'[i] = up[i]
                               \/ up'[i] = f
      /\ \A i \in DOMAIN up : i \in DOMAIN up' /\ up'[i] = up[i]
      /\ \A i \in DOMAIN pending' : \/ i \in DOMAIN pending /\ pending'[i] = pending[i]
                                    \/ pending'[i] = f
  BY <1>0, <1>2, <1>5, <1>7, Posted
<1>10. \A m \in Views : m # n => (IsMounted(m)' <=> IsMounted(m)) BY <1>8 DEF IsMounted
<1>11. /\ \A i \in DOMAIN up : up[i].type # "replay-from" => up[i].view # n
       /\ \A i \in DOMAIN down : down[i].type \in {"subscribed", "done", "row"} => down[i].view # n
       /\ ~In(up, "unsubscribe", n) /\ ~In(pending, "unsubscribe", n)
       /\ ~In(up, "replay-from-scoped", n) /\ ~In(down, "done", n)
  BY <1>0, <1>1 DEF Unheard, In
<1>12. (Online' <=> Online) BY <1>6 DEF Online
<1>d. Unheard'
  <2> SUFFICES ASSUME NEW m \in Views
               PROVE  /\ view'[m].is = "none" =>
                            /\ m \notin subs
                            /\ \A i \in DOMAIN up' : up'[i].type # "replay-from" => up'[i].view # m
                            /\ \A i \in DOMAIN pending' : pending'[i].view # m
                            /\ \A i \in DOMAIN down :
                                  down[i].type \in {"subscribed", "done", "row"} =>
                                     down[i].view # m
                      /\ In(up', "unsubscribe", m) \/ In(pending', "unsubscribe", m) =>
                            view'[m].is = "disposed"
                      /\ view'[m].is # "mounted" => /\ view'[m].buffer = {} /\ view'[m].shown = {}
                                                    /\ ~view'[m].replaying
    BY <1>6 DEF Unheard, IsMounted
  <2>1. CASE m = n BY <1>3, <1>8, <1>9, <1>11, <2>1
  <2>2. CASE m # n
    <3>1. view'[m] = view[m] BY <1>8, <2>2
    <3> QED BY <1>0, <1>2, <1>9, <2>2, <3>1 DEF Unheard, IsMounted
  <2> QED BY <2>1, <2>2
<1>e. Acquainted'
  <2> SUFFICES ASSUME NEW m \in Views
               PROVE  /\ view'[m].sub <= socket /\ (view'[m].sub = socket => Online)
                      /\ view'[m].is = "mounted" /\ view'[m].sub # socket =>
                            /\ ~In(up', "replay-from-scoped", m) /\ ~In(down, "done", m)
                            /\ m \in subs \/ In(up', "subscribe", m) \/ In(pending', "subscribe", m)
                                  => view'[m].owed > 0
                      /\ Online /\ view'[m].is = "mounted" => m \in subs \/ In(up', "subscribe", m)
    BY <1>0, <1>6, <1>12 DEF Acquainted, IsMounted
  <2>1. CASE m = n BY <1>0, <1>3, <1>8, <1>9, <1>11, <2>1 DEF Acquainted
  <2>2. CASE m # n
    <3>1. view'[m] = view[m] BY <1>8, <2>2
    <3> QED BY <1>0, <1>9, <2>2, <3>1 DEF Acquainted, IsMounted
  <2> QED BY <2>1, <2>2
<1>f. Withdrawn'
  <2> SUFFICES ASSUME NEW m \in Views, view'[m].is # "mounted", m \notin leaked
               PROVE  /\ m \in subs => \E i \in DOMAIN up' : up'[i] = Farewell(m)
                      /\ \A i \in DOMAIN up' : up'[i].type = "subscribe" /\ up'[i].view = m =>
                            \E j \in DOMAIN up' : i < j /\ up'[j] = Farewell(m)
                      /\ ~In(pending', "subscribe", m)
    BY <1>6 DEF Withdrawn, Farewell, IsMounted
  <2>1. m # n /\ ~IsMounted(m) BY <1>3, <1>8 DEF IsMounted
  <2>2. ASSUME NEW i \in DOMAIN up', up'[i].type = "subscribe", up'[i].view = m
        PROVE  \E j \in DOMAIN up' : i < j /\ up'[j] = Farewell(m)
    <3>1. i \in DOMAIN up /\ up'[i] = up[i] BY <1>2, <1>9, <2>1, <2>2
    <3> QED BY <1>0, <1>9, <2>1, <2>2, <3>1 DEF Withdrawn
  <2> QED BY <1>0, <1>9, <2>1, <2>2 DEF Withdrawn
<1>g. Counted'
  <2> SUFFICES ASSUME NEW m \in Views, view'[m].is = "mounted"
               PROVE  /\ Online => view'[m].owed >= Cardinality(Hits(up', AskTokens(m)))
                                                      + Cardinality(Hits(down, TellTokens(m)))
                      /\ view'[m].replaying => view'[m].owed > 0
                      /\ view'[m].replaying /\ Online =>
                            In(up', "replay-from-scoped", m) \/ In(down, "done", m)
                      /\ ~view'[m].replaying => view'[m].buffer = {}
    BY <1>6, <1>12 DEF Counted, IsMounted
  <2>1. CASE m = n
    <3>1. Hits(up, AskTokens(m)) = {}
      <4>1. ASSUME NEW i \in DOMAIN up PROVE up[i] \notin AskTokens(m)
        <5>1. up[i] \in Asks BY <1>6, SeqHas
        <5> QED BY <1>11, <2>1, <5>1, TokenFrames
      <4> QED BY <4>1 DEF Hits
    <3>2. Hits(down, TellTokens(m)) = {}
      <4>1. ASSUME NEW i \in DOMAIN down PROVE down[i] \notin TellTokens(m)
        <5>1. down[i] \in Tells BY <1>6, SeqHas
        <5> QED BY <1>11, <2>1, <5>1, TokenFrames
      <4> QED BY <4>1 DEF Hits
    <3>3. Cardinality({}) = 0 BY FS_EmptySet
    <3>4. Cardinality(Hits(up \o <<f>>, AskTokens(m)))
             = Cardinality(Hits(up, AskTokens(m))) + (IF f \in AskTokens(m) THEN 1 ELSE 0)
      BY <1>2, <1>6, HitsOne
    <3>5. f \in AskTokens(m) BY <1>2, <2>1, TokenFrames
    <3>6. Cardinality(Hits(up \o <<f>>, AskTokens(m))) = 1 BY <3>1, <3>3, <3>4, <3>5
    <3>7. view'[m].owed = 1 /\ view'[m].buffer = {} /\ ~view'[m].replaying
      BY <1>3, <1>4, <1>8, <2>1
    <3>8. Online => view'[m].owed >= Cardinality(Hits(up', AskTokens(m)))
                                       + Cardinality(Hits(down, TellTokens(m)))
      <4> HAVE Online
      <4>1. Cardinality(Hits(up', AskTokens(m))) = 1 BY <1>9, <3>6
      <4>2. Cardinality(Hits(down, TellTokens(m))) = 0 BY <3>2, <3>3
      <4> QED BY <3>7, <4>1, <4>2
    <3> QED BY <3>7, <3>8
  <2>2. CASE m # n
    <3>1. view'[m] = view[m] /\ IsMounted(m) BY <1>8, <2>2 DEF IsMounted
    <3> QED BY <1>0, <1>8, <1>9, <2>2, <3>1 DEF Counted
  <2> QED BY <2>1, <2>2
<1>i. Fused'
  <2> SUFFICES ASSUME NEW m \in Views, Fine(m)' PROVE Mended(m)'
    BY DEF Fused
  <2>1. CASE m # n BY <1>8, <2>1
  <2>2. CASE m = n
    <3>1. view'[m].shown = {} /\ view'[m].owed = 1 BY <1>3, <1>4, <1>8, <2>2
    <3>2. ASSUME Online
          PROVE  Complete(m, Missing(m)', view'[m].buffer, up', down, client.seq)
      <4>1. In(up', "subscribe", m) BY <1>9, <2>2, <3>2
      <4>2. \A j \in DOMAIN down : ~IsOwn(down[j], m) BY <1>11, <2>2 DEF IsOwn
      <4> QED BY <4>1, <4>2, Asking
    <3> QED BY <1>6, <1>12, <3>1, <3>2 DEF Mended
  <2> QED BY <2>1, <2>2
<1> QED BY <1>8, <1>d, <1>e, <1>f, <1>g, <1>i DEF ChatIInv

LEMMA DisposeKeeps ==
    ASSUME ChatIInv, NEW n \in Views, Dispose(n)
    PROVE  ChatIInv'
<1> DEFINE f == [type |-> "unsubscribe", view |-> n, sub |-> view[n].sub]
           w == [view[n] EXCEPT !.is = "disposed", !.buffer = {}, !.replaying = FALSE,
                                !.shown = {}, !.owed = 0]
           sent == view[n].sub # None
<1>0. /\ ChatTyped /\ Bounded /\ Handshake /\ Unheard /\ Acquainted /\ Withdrawn /\ Counted
      /\ Numbered /\ Fused
  BY DEF ChatIInv
<1>1. /\ IsMounted(n) /\ view' = [view EXCEPT ![n] = w]
      /\ sent => Sends(<<f>>)
      /\ ~sent => UNCHANGED <<up, pending>>
      /\ leaked' = IF view[n].owed > 0 /\ view[n].sub # socket THEN leaked \cup {n} ELSE leaked
      /\ UNCHANGED <<log, socket, subs, down, client, cuts, early, dropped, skipped>>
  BY DEF Dispose, Withdraws, IsMounted
<1>2. f \in Asks /\ f.type = "unsubscribe" /\ f.view = n /\ f.sub = view[n].sub
  BY <1>0, ViewFields DEF Asks
<1>3. /\ w \in Mounts /\ w.is = "disposed" /\ w.owed = 0 /\ w.sub = view[n].sub
      /\ w.upTo = view[n].upTo /\ w.replaying = FALSE /\ w.buffer = {} /\ w.shown = {}
  <2>1. view[n] \in Mounts BY <1>0, ViewFields
  <2> QED BY <2>1 DEF Mounts
<1>4. sent \in BOOLEAN /\ (view[n].sub = socket => sent /\ f = Farewell(n))
  BY <1>0 DEF ChatTyped, None, Farewell
<1> HIDE DEF f, w, sent
<1>5. /\ UNCHANGED <<own, floor, boot, agree, socket, subs, down, client, cuts, early, dropped,
                     skipped>>
      /\ leaked' \in SUBSET Views /\ leaked \subseteq leaked'
      /\ down \in Seq(Tells) /\ up \in Seq(Asks)
  BY <1>0, <1>1 DEF log, ChatTyped
<1>6. /\ ChatTyped' /\ Bounded' /\ Handshake' /\ Numbered'
      /\ view'[n] = w /\ \A m \in Views : m # n => view'[m] = view[m]
      /\ \A m \in Views : m # n /\ Fine(m)' => Mended(m)'
      /\ \A m \in Views : m # n /\ IsMounted(m) /\ Online =>
            view[m].owed >= Cardinality(Hits(up', AskTokens(m)))
                              + Cardinality(Hits(down, TellTokens(m)))
  BY <1>1, <1>2, <1>3, <1>4, <1>5, PostKeeps
<1>7. /\ Online /\ sent => up' = up \o <<f>>
      /\ Online => pending' = pending
      /\ \A type, m : In(up', type, m) <=>
            In(up, type, m) \/ (sent /\ Online /\ type = "unsubscribe" /\ m = n)
      /\ \A type, m : In(pending', type, m) =>
            In(pending, type, m) \/ (type = "unsubscribe" /\ m = n)
      /\ \A i \in DOMAIN up' : \/ i \in DOMAIN up /\ up'[i] = up[i]
                               \/ up'[i] = f
      /\ \A i \in DOMAIN up : i \in DOMAIN up' /\ up'[i] = up[i]
      /\ \A i \in DOMAIN pending' : \/ i \in DOMAIN pending /\ pending'[i] = pending[i]
                                    \/ pending'[i] = f
  BY <1>0, <1>1, <1>2, <1>4, Posted
<1>8. (Online' <=> Online) BY <1>5 DEF Online
<1>d. Unheard'
  <2> SUFFICES ASSUME NEW m \in Views
               PROVE  /\ view'[m].is = "none" =>
                            /\ m \notin subs
                            /\ \A i \in DOMAIN up' : up'[i].type # "replay-from" => up'[i].view # m
                            /\ \A i \in DOMAIN pending' : pending'[i].view # m
                            /\ \A i \in DOMAIN down :
                                  down[i].type \in {"subscribed", "done", "row"} =>
                                     down[i].view # m
                      /\ In(up', "unsubscribe", m) \/ In(pending', "unsubscribe", m) =>
                            view'[m].is = "disposed"
                      /\ view'[m].is # "mounted" => /\ view'[m].buffer = {} /\ view'[m].shown = {}
                                                    /\ ~view'[m].replaying
    BY <1>5 DEF Unheard, IsMounted
  <2>1. CASE m = n BY <1>3, <1>6, <2>1
  <2>2. CASE m # n
    <3>1. view'[m] = view[m] BY <1>6, <2>2
    <3> QED BY <1>0, <1>2, <1>7, <2>2, <3>1 DEF Unheard, IsMounted
  <2> QED BY <2>1, <2>2
<1>e. Acquainted'
  <2> SUFFICES ASSUME NEW m \in Views
               PROVE  /\ view'[m].sub <= socket /\ (view'[m].sub = socket => Online)
                      /\ view'[m].is = "mounted" /\ view'[m].sub # socket =>
                            /\ ~In(up', "replay-from-scoped", m) /\ ~In(down, "done", m)
                            /\ m \in subs \/ In(up', "subscribe", m) \/ In(pending', "subscribe", m)
                                  => view'[m].owed > 0
                      /\ Online /\ view'[m].is = "mounted" => m \in subs \/ In(up', "subscribe", m)
    BY <1>0, <1>5, <1>8 DEF Acquainted, IsMounted
  <2>1. CASE m = n BY <1>0, <1>3, <1>6, <2>1 DEF Acquainted
  <2>2. CASE m # n
    <3>1. view'[m] = view[m] BY <1>6, <2>2
    <3> QED BY <1>0, <1>7, <2>2, <3>1 DEF Acquainted, IsMounted
  <2> QED BY <2>1, <2>2
<1>f. Withdrawn'
  <2> SUFFICES ASSUME NEW m \in Views, view'[m].is # "mounted", m \notin leaked'
               PROVE  /\ m \in subs => \E i \in DOMAIN up' : up'[i] = Farewell(m)
                      /\ \A i \in DOMAIN up' : up'[i].type = "subscribe" /\ up'[i].view = m =>
                            \E j \in DOMAIN up' : i < j /\ up'[j] = Farewell(m)
                      /\ ~In(pending', "subscribe", m)
    BY <1>5 DEF Withdrawn, Farewell, IsMounted
  <2>1. CASE m # n
    <3>1. ~IsMounted(m) /\ m \notin leaked BY <1>5, <1>6, <2>1 DEF IsMounted
    <3>2. ASSUME NEW i \in DOMAIN up', up'[i].type = "subscribe", up'[i].view = m
          PROVE  \E j \in DOMAIN up' : i < j /\ up'[j] = Farewell(m)
      <4>1. i \in DOMAIN up /\ up'[i] = up[i] BY <1>2, <1>7, <3>2
      <4> QED BY <1>0, <1>7, <3>1, <3>2, <4>1 DEF Withdrawn
    <3> QED BY <1>0, <1>7, <3>1, <3>2 DEF Withdrawn
  <2>2. CASE m = n /\ view[n].sub = socket
    <3>1. Online /\ sent /\ f = Farewell(m) BY <1>0, <1>4, <2>2 DEF Acquainted
    <3>2. up' = up \o <<f>> /\ pending' = <<>> BY <1>0, <1>7, <3>1 DEF Handshake
    <3>3. Len(up) + 1 \in DOMAIN up' /\ up'[Len(up) + 1] = Farewell(m)
          /\ \A i \in DOMAIN up : i < Len(up) + 1
      BY <1>2, <1>5, <3>1, <3>2, InOne
    <3>4. ASSUME NEW i \in DOMAIN up', up'[i].type = "subscribe", up'[i].view = m
          PROVE  \E j \in DOMAIN up' : i < j /\ up'[j] = Farewell(m)
      <4>1. i \in DOMAIN up BY <1>2, <1>7, <3>4
      <4> QED BY <3>3, <4>1
    <3>5. ~In(pending', "subscribe", m) BY <3>2 DEF In
    <3> QED BY <3>3, <3>4, <3>5
  <2>3. CASE m = n /\ view[n].sub # socket
    <3>1. view[n].owed = 0
      <4>1. view[n].owed \in Nat BY <1>0, ViewFields
      <4> QED BY <1>1, <2>3, <4>1
    <3>2. m \notin subs /\ ~In(up, "subscribe", m) /\ ~In(pending, "subscribe", m)
      BY <1>0, <1>1, <2>3, <3>1 DEF Acquainted
    <3>3. ~In(up', "subscribe", m) /\ ~In(pending', "subscribe", m) BY <1>7, <3>2
    <3> QED BY <3>2, <3>3 DEF In
  <2> QED BY <2>1, <2>2, <2>3
<1>g. Counted'
  <2> SUFFICES ASSUME NEW m \in Views, view'[m].is = "mounted"
               PROVE  /\ Online => view'[m].owed >= Cardinality(Hits(up', AskTokens(m)))
                                                      + Cardinality(Hits(down, TellTokens(m)))
                      /\ view'[m].replaying => view'[m].owed > 0
                      /\ view'[m].replaying /\ Online =>
                            In(up', "replay-from-scoped", m) \/ In(down, "done", m)
                      /\ ~view'[m].replaying => view'[m].buffer = {}
    BY <1>5, <1>8 DEF Counted, IsMounted
  <2>1. m # n BY <1>3, <1>6
  <2>2. view'[m] = view[m] /\ IsMounted(m) BY <1>6, <2>1 DEF IsMounted
  <2> QED BY <1>0, <1>6, <1>7, <2>1, <2>2 DEF Counted
<1>i. Fused'
  <2> SUFFICES ASSUME NEW m \in Views, Fine(m)' PROVE Mended(m)'
    BY DEF Fused
  <2>1. m # n BY <1>3, <1>6 DEF Fine, IsMounted
  <2> QED BY <1>6, <2>1
<1> QED BY <1>6, <1>d, <1>e, <1>f, <1>g, <1>i DEF ChatIInv

-----------------------------------------------------------------------------
(* The invariant holds. *)

LEMMA InitIsSound == Init => ChatIInv
<1> SUFFICES ASSUME Init PROVE ChatIInv
  OBVIOUS
<1>1. /\ own = <<>> /\ floor = 0 /\ boot = 1 /\ agree = TRUE
      /\ socket = 1 /\ subs = {} /\ up = <<>> /\ down = <<>>
      /\ client = [state |-> "away", seq |-> 0, epoch |-> None, asked |-> 0]
      /\ pending = <<>> /\ cuts = 0
      /\ early = {} /\ leaked = {} /\ dropped = {} /\ skipped = FALSE
      /\ view \in [Views -> Mounts]
  BY DEF Init, Mounts, None
<1>2. \A m \in Views : /\ view[m].is = "none" /\ view[m].sub = 0 /\ view[m].upTo = 0
                       /\ view[m].replaying = FALSE /\ view[m].buffer = {}
                       /\ view[m].shown = {}
  BY DEF Init, None
<1>3. DOMAIN up = {} /\ DOMAIN down = {} /\ DOMAIN pending = {} /\ Len(own) = 0 BY <1>1
<1>4. ~Online /\ \A m \in Views : ~IsMounted(m) BY <1>1, <1>2 DEF Online, IsMounted
<1>a. ChatTyped
  <2>1. own \in Seq(BOOLEAN) /\ up \in Seq(Asks) /\ down \in Seq(Tells) /\ pending \in Seq(Asks)
    BY <1>1
  <2>2. client \in [state : {"away", "connecting", "recovering", "connected"},
                   seq : Nat, epoch : Nat, asked : Nat]
    BY <1>1 DEF None
  <2>3. floor \in Nat /\ boot \in Nat \ {0} /\ socket \in Nat \ {0} /\ cuts \in Nat
    <3>1. floor = 0 /\ boot = 1 /\ socket = 1 /\ cuts = 0 BY <1>1
    <3> QED BY <3>1
  <2>5. agree \in BOOLEAN /\ skipped \in BOOLEAN
    <3>1. agree = TRUE /\ skipped = FALSE BY <1>1
    <3> QED BY <3>1
  <2>4. /\ subs \subseteq Views /\ early \subseteq Views /\ leaked \subseteq Views
        /\ dropped \subseteq Nat /\ view \in [Views -> Mounts]
    BY <1>1
  <2> QED BY <2>1, <2>2, <2>3, <2>4, <2>5 DEF ChatTyped
<1>b. Bounded BY <1>1, <1>2, <1>3 DEF Bounded
<1>c. Handshake BY <1>1, <1>3, <1>4 DEF Handshake
<1>d. Unheard BY <1>1, <1>2, <1>3 DEF Unheard, In
<1>e. Acquainted BY <1>1, <1>2, <1>3, <1>4 DEF Acquainted
<1>f. Withdrawn BY <1>1, <1>3, <1>4 DEF Withdrawn, In
<1>g. Counted BY <1>4 DEF Counted
<1>h. Numbered BY <1>2, <1>3 DEF Numbered, AckAhead
<1>i. Fused BY <1>4 DEF Fused, Fine
<1> QED BY <1>a, <1>b, <1>c, <1>d, <1>e, <1>f, <1>g, <1>h, <1>i DEF ChatIInv

LEMMA StaysSound ==
    ASSUME ChatIInv, UNCHANGED vars
    PROVE  ChatIInv'
<1>1. UNCHANGED <<own, floor, boot, agree, socket, subs, up, down, client, pending, view, cuts,
                  early, leaked, dropped, skipped>>
  BY DEF vars, log, wire, history
<1>0. /\ ChatTyped /\ Bounded /\ Handshake /\ Unheard /\ Acquainted /\ Withdrawn /\ Counted
      /\ Numbered /\ Fused
  BY DEF ChatIInv
<1>a. ChatTyped' BY <1>0, <1>1 DEF ChatTyped
<1>b. Bounded' BY <1>0, <1>1 DEF Bounded
<1>c. Handshake' BY <1>0, <1>1 DEF Handshake, Online, EverReady
<1>d. Unheard' BY <1>0, <1>1 DEF Unheard, IsMounted
<1>e. Acquainted' BY <1>0, <1>1 DEF Acquainted, IsMounted, Online
<1>f. Withdrawn' BY <1>0, <1>1 DEF Withdrawn, IsMounted, Farewell
<1>g. Counted' BY <1>0, <1>1 DEF Counted, IsMounted, Online
<1>h. Numbered' BY <1>0, <1>1 DEF Numbered
<1>i. Fused' BY <1>0, <1>1 DEF Fused, Fine, Mended, IsMounted, Online, Missing, Rows, Cursor
<1> QED BY <1>a, <1>b, <1>c, <1>d, <1>e, <1>f, <1>g, <1>h, <1>i DEF ChatIInv

LEMMA StepKeeps == ChatIInv /\ [Next]_vars => ChatIInv'
<1> SUFFICES ASSUME ChatIInv, [Next]_vars PROVE ChatIInv'
  OBVIOUS
<1>1. CASE ServerStep
  BY <1>1, ServerReplayKeeps, SubscribeKeeps, UnsubscribeKeeps, ReplayScopedKeeps DEF ServerStep
<1>2. CASE ClientStep
  BY <1>2, ClientAckKeeps, ClientCompleteKeeps, ClientGoneKeeps, ClientOtherKeeps, SubscribedKeeps,
     ClientRowKeeps, DoneKeeps DEF ClientStep
<1>3. CASE Connect BY <1>3, ConnectKeeps
<1>4. CASE Cut BY <1>4, CutKeeps
<1>5. CASE Restart BY <1>5, RestartKeeps
<1>6. ASSUME NEW mine \in BOOLEAN, Publish(mine) PROVE ChatIInv' BY <1>6, PublishKeeps
<1>7. ASSUME NEW m \in Views, Mount(m) PROVE ChatIInv' BY <1>7, MountKeeps
<1>8. ASSUME NEW m \in Views, Dispose(m) PROVE ChatIInv' BY <1>8, DisposeKeeps
<1>9. CASE UNCHANGED vars BY <1>9, StaysSound
<1> QED BY <1>1, <1>2, <1>3, <1>4, <1>5, <1>6, <1>7, <1>8, <1>9 DEF Next

(* No step of a gateway, a client or a view breaks the invariant. *)
THEOREM Invariance == Spec => []ChatIInv
<1>1. Init => ChatIInv BY InitIsSound
<1>2. ChatIInv /\ [Next]_vars => ChatIInv' BY StepKeeps
<1> QED BY <1>1, <1>2, PTL DEF Spec

(* The gateway keeps no subscription of a view that is disposed: its        *)
(* unsubscribe is under way, or the view was disposed before it knew its   *)
(* subscription (subscribe and its dispose in api.ts, onSubscribe).        *)
THEOREM SubscriptionsAreOwned == Spec => []SubscriptionsOwned
<1>1. ASSUME ChatIInv PROVE SubscriptionsOwned
  <2> SUFFICES ASSUME NEW m \in subs
               PROVE  \/ m \in Mounted \cup leaked
                      \/ \E i \in DOMAIN up :
                            up[i] = [type |-> "unsubscribe", view |-> m, sub |-> socket]
    BY DEF SubscriptionsOwned
  <2>1. m \in Views /\ Withdrawn BY <1>1 DEF ChatIInv, ChatTyped
  <2>2. CASE IsMounted(m) BY <2>1, <2>2 DEF IsMounted, Mounted
  <2>3. CASE ~IsMounted(m) /\ m \notin leaked
    BY <2>1, <2>3 DEF Withdrawn, Farewell
  <2> QED BY <2>2, <2>3
<1>2. ChatIInv => SubscriptionsOwned BY <1>1
<1> QED BY <1>2, Invariance, PTL

(* A mounted, connected view for which nothing is in flight shows every row *)
(* of its session since the boot, but for the losses the property names:   *)
(* the live stream, the client's replay and the view's own scoped replay   *)
(* meet without a gap, and the check on sequence numbers that drops what   *)
(* was seen before (applyEnvelope in dedup.ts) hides no row for good.      *)
THEOREM QuietShowsAll == Spec => []QuietIsShown
<1>1. ASSUME ChatIInv PROVE QuietIsShown
  <2> SUFFICES ASSUME NEW m \in Views, Settled(m), NEW r \in Rows, r > floor,
                      r \notin view[m].shown
               PROVE  FALSE
    BY DEF QuietIsShown
  <2>1. Counted /\ Fused BY <1>1 DEF ChatIInv
  <2>2. Online /\ up = <<>> /\ down = <<>> /\ Fine(m) /\ IsMounted(m)
    BY DEF Settled, Online, Fine, IsMounted, Mounted
  <2>3. DOMAIN up = {} /\ DOMAIN down = {} BY <2>2
  <2>4. view[m].buffer = {} BY <2>1, <2>2, <2>3 DEF Counted, In
  <2>5. Complete(m, Missing(m), view[m].buffer, up, down, client.seq)
    BY <2>1, <2>2 DEF Fused, Mended
  <2>6. r \in Missing(m) BY DEF Missing
  <2>7. Coming(m, up, down, r) BY <2>4, <2>5, <2>6 DEF Complete
  <2> QED BY <2>3, <2>7 DEF Coming, In
<1>2. ChatIInv => QuietIsShown BY <1>1
<1> QED BY <1>2, Invariance, PTL

-----------------------------------------------------------------------------
(***************************************************************************)
(* The connection itself, ClientConnection: one attempt at a time, and what *)
(* it accepts it writes, for any set of sockets and any bound on envelopes *)
(* and faults.                                                             *)
(*                                                                         *)
(* Everything hangs on the socket in ws being the only one that opens or is *)
(* open: then a dial, a timer and a socket replace each other one for one, *)
(* and a connection that says connected writes to an open socket, or to    *)
(* one whose close it is about to hear of.  Both are only promised while   *)
(* no resync has outlived its socket.                                      *)
(***************************************************************************)
CONSTANT Sockets
VARIABLES state, ws, sockets, owed, dials, timers, handle, resyncs, disposed, pendingSend,
          written, accepted, unheard, sends, faults, outlived

NoSocket == CHOOSE w : w \notin Sockets

Client == INSTANCE ClientConnection
             WITH socket <- sockets, None <- NoSocket, MaxSends <- MaxLog, MaxFaults <- MaxCuts

LEMMA ConnectionBounds == NoSocket \notin Sockets /\ MaxLog \in Nat /\ MaxCuts \in Nat
BY ChatBounds, NoSetContainsEverything DEF NoSocket

ClientTyped ==
    /\ state \in {"idle", "connecting", "connected", "recovering", "reconnecting",
                  "offline", "unpaired", "stopped"}
    /\ ws \in Sockets \cup {NoSocket}
    /\ sockets \in [Sockets -> {"new", "opening", "open", "closing", "closed"}]
    /\ owed \in [Sockets -> {"nothing", "hello", "replay"}]
    /\ dials \in Nat /\ timers \in Nat /\ handle \in BOOLEAN
    /\ resyncs \subseteq Sockets /\ disposed \in BOOLEAN
    /\ faults \in 0 .. MaxCuts /\ outlived \in BOOLEAN

Up(w) == sockets[w] \in {"opening", "open"}

(* The socket of the connection was made and has not closed, what a resync *)
(* is about has been open, a timer that can be cleared is armed, and       *)
(* nothing is under way before start().                                    *)
SocketGood ==
    /\ ws # NoSocket => sockets[ws] \in {"opening", "open", "closing"}
    /\ \A w \in resyncs : sockets[w] \notin {"new", "opening"}
    /\ handle => timers > 0
    /\ state = "idle" => dials = 0 /\ timers = 0 /\ ws = NoSocket /\ resyncs = {}

(* A dial, a timer or a socket, one of them at most. *)
Single ==
    ~outlived => /\ \A w \in Sockets : Up(w) => ws = w
                 /\ dials + timers <= 1
                 /\ ws # NoSocket => dials = 0 /\ timers = 0

(* Connected means that there is an open socket, or one that is closing. *)
Connected == state = "connected" => Client!Writable \/ Client!Dying \/ outlived \/ disposed

(* A connection that was rejected has nothing under way. *)
Ended == state \in Client!Final /\ ~outlived => dials = 0 /\ timers = 0 /\ ws = NoSocket

(* What was written is older than what is queued, each in its order, and    *)
(* nothing is queued while connected.                                      *)
Increasing(s) == \A i, j \in DOMAIN s : i < j => s[i] < s[j]
Ordered ==
    /\ pendingSend \in Seq(1 .. sends) /\ written \in Seq(1 .. sends)
    /\ accepted \subseteq 1 .. sends /\ unheard \subseteq 1 .. sends /\ sends \in 0 .. MaxLog
    /\ Increasing(written) /\ Increasing(pendingSend)
    /\ \A i \in DOMAIN written, j \in DOMAIN pendingSend : written[i] < pendingSend[j]
    /\ state = "connected" => pendingSend = <<>>

(* What send() took is on the wire, in the queue, or was given to a socket *)
(* that was closing.                                                       *)
NothingLost ==
    \/ outlived \/ disposed \/ state \in Client!Final
    \/ accepted \subseteq Client!ToSet(written) \cup Client!ToSet(pendingSend) \cup unheard

ClientIInv ==
    ClientTyped /\ SocketGood /\ Single /\ Connected /\ Ended /\ Ordered /\ NothingLost

-----------------------------------------------------------------------------
LEMMA SeqElements ==
    ASSUME NEW S, NEW s \in Seq(S)
    PROVE  DOMAIN s = 1 .. Len(s) /\ Len(s) \in Nat /\ \A i \in DOMAIN s : s[i] \in S
OBVIOUS

LEMMA AppendIncreases ==
    ASSUME NEW m \in Nat, NEW n \in Nat, n = m + 1, NEW s \in Seq(1 .. m), Increasing(s)
    PROVE  /\ Increasing(Append(s, n)) /\ Append(s, n) \in Seq(1 .. n)
           /\ \A i \in DOMAIN Append(s, n) :
                Append(s, n)[i] = n \/ (i \in DOMAIN s /\ Append(s, n)[i] = s[i])
<1> DEFINE t == s \o <<n>>
<1>1. DOMAIN s = 1 .. Len(s) /\ Len(s) \in Nat /\ \A i \in DOMAIN s : s[i] \in 1 .. m
  BY SeqElements
<1>2. n \in 1 .. n /\ 1 .. m \subseteq 1 .. n OBVIOUS
<1>3. s \in Seq(1 .. n) BY <1>2
<1>4. Append(s, n) = t BY <1>2, <1>3, AppendOf
<1>5. /\ t \in Seq(1 .. n)
      /\ \A i \in DOMAIN t : \/ i \in DOMAIN s /\ t[i] = s[i]
                             \/ i = Len(s) + 1 /\ t[i] = n
  <2> DEFINE S == 1 .. n
  <2>1. n \in S /\ s \in Seq(S) BY <1>2, <1>3
  <2> HIDE DEF S
  <2>2. /\ s \o <<n>> \in Seq(S)
        /\ \A i \in DOMAIN (s \o <<n>>) : \/ i \in DOMAIN s /\ (s \o <<n>>)[i] = s[i]
                                          \/ i = Len(s) + 1 /\ (s \o <<n>>)[i] = n
    BY <2>1, InOne
  <2> QED BY <2>2 DEF S
<1> HIDE DEF t
<1>6. ASSUME NEW i \in DOMAIN t, NEW j \in DOMAIN t, i < j PROVE t[i] < t[j]
  <2>1. CASE i \in DOMAIN s /\ t[i] = s[i] /\ j \in DOMAIN s /\ t[j] = s[j]
    BY <1>6, <2>1 DEF Increasing
  <2>2. CASE i \in DOMAIN s /\ t[i] = s[i] /\ j = Len(s) + 1 /\ t[j] = n
    <3>1. s[i] \in 1 .. m BY <1>1, <2>2
    <3> QED BY <2>2, <3>1
  <2>3. CASE i = Len(s) + 1
    <3>1. j \in DOMAIN s \/ j = Len(s) + 1 BY <1>5
    <3> QED BY <1>1, <1>6, <2>3, <3>1
  <2> QED BY <1>5, <2>1, <2>2, <2>3
<1>7. Increasing(t) BY <1>6 DEF Increasing
<1> QED BY <1>4, <1>5, <1>7

(* Steps that leave the queue alone. *)
LEMMA QueueStays ==
    ASSUME ClientIInv, UNCHANGED Client!sending, state' = "connected" => state = "connected"
    PROVE  Ordered'
  BY DEF ClientIInv, Ordered, Client!sending

(* Steps that forget it: a rejection and stop(). *)
LEMMA QueueDropped ==
    ASSUME ClientIInv, pendingSend' = <<>>, UNCHANGED <<written, accepted, unheard, sends>>
    PROVE  Ordered'
  BY DEF ClientIInv, Ordered, Increasing

(* Two sequences, one after the other. *)
LEMMA BothIn ==
    ASSUME NEW S, NEW s \in Seq(S), NEW t \in Seq(S)
    PROVE  Client!ToSet(s \o t) = Client!ToSet(s) \cup Client!ToSet(t)
<1>1. /\ s \o t \in Seq(S) /\ Len(s) \in Nat /\ Len(t) \in Nat
      /\ DOMAIN (s \o t) = 1 .. Len(s) + Len(t) /\ DOMAIN s = 1 .. Len(s) /\ DOMAIN t = 1 .. Len(t)
      /\ \A i \in DOMAIN s : (s \o t)[i] = s[i]
      /\ \A i \in DOMAIN t : (s \o t)[Len(s) + i] = t[i]
      /\ \A i \in DOMAIN (s \o t) : i \in DOMAIN s \/ i - Len(s) \in DOMAIN t
  OBVIOUS
<1>2. ASSUME NEW i \in DOMAIN (s \o t)
      PROVE  (s \o t)[i] \in Client!ToSet(s) \cup Client!ToSet(t)
  <2>1. CASE i \in DOMAIN s BY <1>1, <2>1 DEF Client!ToSet
  <2>2. CASE i - Len(s) \in DOMAIN t
    <3>1. Len(s) + (i - Len(s)) = i BY <1>1
    <3>2. (s \o t)[i] = t[i - Len(s)] BY <1>1, <2>2, <3>1
    <3> QED BY <2>2, <3>2 DEF Client!ToSet
  <2> QED BY <1>1, <2>1, <2>2
<1>3. ASSUME NEW i \in DOMAIN s PROVE s[i] \in Client!ToSet(s \o t)
  <2>1. i \in DOMAIN (s \o t) /\ (s \o t)[i] = s[i] BY <1>1
  <2> QED BY <2>1 DEF Client!ToSet
<1>4. ASSUME NEW i \in DOMAIN t PROVE t[i] \in Client!ToSet(s \o t)
  <2>1. Len(s) + i \in DOMAIN (s \o t) /\ (s \o t)[Len(s) + i] = t[i] BY <1>1
  <2> QED BY <2>1 DEF Client!ToSet
<1> QED BY <1>2, <1>3, <1>4 DEF Client!ToSet

(* enterReady writes the queue to the socket, or to one that is closing, or *)
(* to none; in the first two cases everything is accounted for as before.  *)
LEMMA QueueFlushed ==
    ASSUME ClientIInv, Client!Flushes, UNCHANGED sends
    PROVE  /\ Ordered'
           /\ \/ Client!Writable
              \/ Client!Dying
              => Client!ToSet(written') \cup Client!ToSet(pendingSend') \cup unheard'
                   = Client!ToSet(written) \cup Client!ToSet(pendingSend) \cup unheard
<1>1. /\ pendingSend \in Seq(1 .. sends) /\ written \in Seq(1 .. sends) /\ pendingSend' = <<>>
      /\ sends' = sends /\ accepted' = accepted
  BY DEF ClientIInv, Ordered, Client!Flushes
<1>2. Client!ToSet(pendingSend) \subseteq 1 .. sends /\ Client!ToSet(pendingSend') = {}
  <2>1. \A i \in DOMAIN pendingSend : pendingSend[i] \in 1 .. sends BY <1>1, SeqElements
  <2>2. DOMAIN pendingSend' = {} BY <1>1
  <2> QED BY <2>1, <2>2 DEF Client!ToSet
<1>3. /\ Client!Writable => written' = written \o pendingSend
      /\ ~Client!Writable => written' = written
      /\ Client!Dying => unheard' = unheard \cup Client!ToSet(pendingSend)
      /\ ~Client!Dying => unheard' = unheard
  BY DEF Client!Flushes, Client!Writes
<1>4. unheard' \subseteq 1 .. sends /\ accepted' \subseteq 1 .. sends
  BY <1>1, <1>2, <1>3 DEF ClientIInv, Ordered
<1>5. ASSUME Client!Writable PROVE Ordered'
  <2>1. written' = written \o pendingSend BY <1>5 DEF Client!Flushes, Client!Writes
  <2>2. /\ written' \in Seq(1 .. sends) /\ DOMAIN written' = 1 .. Len(written) + Len(pendingSend)
        /\ \A i \in DOMAIN written' :
             \/ i \in DOMAIN written /\ written'[i] = written[i]
             \/ /\ i > Len(written) /\ i - Len(written) \in DOMAIN pendingSend
                /\ written'[i] = pendingSend[i - Len(written)]
    BY <1>1, <2>1
  <2>3. Increasing(written)'
    <3> SUFFICES ASSUME NEW i \in DOMAIN written', NEW j \in DOMAIN written', i < j
                 PROVE  written'[i] < written'[j]
      BY DEF Increasing
    <3>1. /\ Increasing(written) /\ Increasing(pendingSend)
          /\ \A x \in DOMAIN written, y \in DOMAIN pendingSend : written[x] < pendingSend[y]
      BY DEF ClientIInv, Ordered
    <3>2. DOMAIN written = 1 .. Len(written) /\ Len(written) \in Nat BY <1>1
    <3>3. i \in Int /\ j \in Int BY <1>1, <2>2, <3>2
    <3>4. CASE i \in DOMAIN written /\ j \in DOMAIN written
      BY <2>2, <3>1, <3>4 DEF Increasing
    <3>5. CASE i \in DOMAIN written /\ j \notin DOMAIN written
      BY <2>2, <3>1, <3>5
    <3>6. CASE i \notin DOMAIN written
      <4>1. j \notin DOMAIN written BY <2>2, <3>6, <3>2, <3>3
      <4>2. i - Len(written) < j - Len(written) BY <3>2, <3>3
      <4> QED BY <2>2, <3>1, <3>6, <4>1, <4>2 DEF Increasing
    <3> QED BY <3>4, <3>5, <3>6
  <2> QED BY <1>1, <1>4, <2>1, <2>2, <2>3 DEF ClientIInv, Ordered, Increasing
<1>6. ASSUME ~Client!Writable PROVE Ordered'
  BY <1>1, <1>3, <1>4, <1>6 DEF ClientIInv, Ordered, Increasing
<1>7. CASE Client!Writable
  <2>1. Client!ToSet(written') = Client!ToSet(written) \cup Client!ToSet(pendingSend)
    <3> DEFINE S == 1 .. sends
    <3>1. pendingSend \in Seq(S) /\ written \in Seq(S) BY <1>1
    <3> HIDE DEF S
    <3>2. Client!ToSet(written \o pendingSend)
            = Client!ToSet(written) \cup Client!ToSet(pendingSend)
      BY <3>1, BothIn
    <3>3. written' = written \o pendingSend BY <1>3, <1>7
    <3> QED BY <3>2, <3>3
  <2>2. ~Client!Dying BY <1>7 DEF Client!Writable, Client!Dying
  <2> QED BY <1>2, <1>3, <1>5, <1>7, <2>1, <2>2
<1>8. CASE ~Client!Writable /\ Client!Dying BY <1>2, <1>3, <1>6, <1>8
<1> QED BY <1>5, <1>6, <1>7, <1>8

(* send() puts its envelope behind all the others, wherever it goes. *)
LEMMA QueueGrows ==
    ASSUME ClientIInv, Client!Send
    PROVE  Ordered'
<1>1. /\ pendingSend \in Seq(1 .. sends) /\ written \in Seq(1 .. sends) /\ sends \in Nat
      /\ sends' = sends + 1 /\ sends' \in 0 .. MaxLog /\ state' = state
      /\ accepted \subseteq 1 .. sends /\ unheard \subseteq 1 .. sends
  BY ConnectionBounds DEF ClientIInv, Ordered, Client!Send
<1>2. /\ Seq(1 .. sends) \subseteq Seq(1 .. sends') /\ 1 .. sends \subseteq 1 .. sends'
      /\ sends' \in 1 .. sends'
  BY <1>1
<1>3. \A s \in Seq(1 .. sends) : Increasing(s) =>
        /\ Increasing(Append(s, sends')) /\ Append(s, sends') \in Seq(1 .. sends')
        /\ \A i \in DOMAIN Append(s, sends') :
             Append(s, sends')[i] = sends' \/ (i \in DOMAIN s /\ Append(s, sends')[i] = s[i])
  BY <1>1, AppendIncreases
<1>4. /\ Increasing(written) /\ Increasing(pendingSend)
      /\ \A i \in DOMAIN written, j \in DOMAIN pendingSend : written[i] < pendingSend[j]
      /\ \A i \in DOMAIN written : written[i] \in 1 .. sends
      /\ state = "connected" => pendingSend = <<>>
  BY DEF ClientIInv, Ordered
<1>5. accepted' \subseteq 1 .. sends'
  BY <1>1, <1>2 DEF Client!Send
<1>6. CASE /\ state = "connected" /\ Client!Writes(<<sends + 1>>)
           /\ UNCHANGED pendingSend
  <2>1. \A x \in Client!ToSet(<<sends + 1>>) : x = sends' BY <1>1 DEF Client!ToSet
  <2>2. unheard' \subseteq 1 .. sends'
    BY <1>1, <1>2, <1>6, <2>1 DEF Client!Writes
  <2>3. CASE written' = written BY <1>1, <1>2, <1>4, <1>5, <1>6, <2>2, <2>3 DEF Ordered
  <2>4. CASE written' = written \o <<sends + 1>>
    <3>1. written' = Append(written, sends')
      BY <1>1, <1>2, <2>4, AppendOf
    <3> QED BY <1>1, <1>2, <1>3, <1>4, <1>5, <1>6, <2>2, <3>1 DEF Ordered, Increasing
  <2> QED BY <1>6, <2>3, <2>4 DEF Client!Writes
<1>7. CASE /\ Client!Queues /\ pendingSend' = Append(pendingSend, sends')
           /\ UNCHANGED <<written, unheard>>
  <2>1. state # "connected" BY <1>7 DEF Client!Queues
  <2>2. Increasing(pendingSend') /\ pendingSend' \in Seq(1 .. sends') /\ Increasing(written')
    BY <1>3, <1>4, <1>1, <1>7
  <2>3. \A j \in DOMAIN pendingSend' :
          \/ pendingSend'[j] = sends'
          \/ j \in DOMAIN pendingSend /\ pendingSend'[j] = pendingSend[j]
    BY <1>1, <1>3, <1>4, <1>7
  <2>4. \A i \in DOMAIN written', j \in DOMAIN pendingSend' : written'[i] < pendingSend'[j]
    BY <1>1, <1>4, <1>7, <2>3
  <2> QED BY <1>1, <1>2, <1>5, <1>7, <2>1, <2>2, <2>4 DEF Ordered
<1>8. CASE state # "connected" /\ UNCHANGED <<pendingSend, written, accepted, unheard>>
  BY <1>1, <1>2, <1>4, <1>5, <1>8 DEF Ordered
<1> QED BY <1>1, <1>6, <1>7, <1>8 DEF Client!Send

(* What send() takes goes onto the wire, to a socket that is closing, or   *)
(* into the queue, while there is one of the three.                        *)
LEMMA TakenIsKept ==
    ASSUME ClientIInv, Client!Send
    PROVE  NothingLost'
<1> SUFFICES ASSUME ~outlived, ~disposed, state \notin Client!Final
             PROVE  accepted' \subseteq Client!ToSet(written') \cup Client!ToSet(pendingSend')
                                         \cup unheard'
  BY DEF NothingLost, Client!Send
<1>1. /\ pendingSend \in Seq(1 .. sends) /\ written \in Seq(1 .. sends) /\ sends \in Nat
      /\ accepted \subseteq Client!ToSet(written) \cup Client!ToSet(pendingSend) \cup unheard
      /\ state = "connected" => Client!Writable \/ Client!Dying
  BY ConnectionBounds DEF ClientIInv, Ordered, NothingLost, Connected
<1> DEFINE S == 1 .. sends + 1   one == <<sends + 1>>
<1>2. pendingSend \in Seq(S) /\ written \in Seq(S) /\ one \in Seq(S) /\ sends + 1 \in S
  BY <1>1
<1>3. sends + 1 \in Client!ToSet(one) BY DEF Client!ToSet
<1> HIDE DEF S, one
<1>4. CASE /\ state = "connected" /\ Client!Writes(one)
           /\ accepted' = accepted \cup {sends + 1} /\ UNCHANGED pendingSend
  <2>1. CASE Client!Writable
    <3>1. written' = written \o one /\ unheard' = unheard
      BY <1>4, <2>1 DEF Client!Writes, Client!Writable, Client!Dying
    <3>2. Client!ToSet(written') = Client!ToSet(written) \cup Client!ToSet(one)
      BY <1>2, <3>1, BothIn
    <3> QED BY <1>1, <1>3, <1>4, <3>1, <3>2
  <2>2. CASE Client!Dying
    <3>1. written' = written /\ unheard' = unheard \cup Client!ToSet(one)
      BY <1>4, <2>2 DEF Client!Writes, Client!Writable, Client!Dying
    <3> QED BY <1>1, <1>3, <1>4, <3>1
  <2> QED BY <1>1, <1>4, <2>1, <2>2
<1>5. CASE /\ pendingSend' = Append(pendingSend, sends + 1)
           /\ accepted' = accepted \cup {sends + 1} /\ UNCHANGED <<written, unheard>>
  <2>1. pendingSend' = pendingSend \o one
    BY <1>2, <1>5, AppendOf DEF one
  <2>2. Client!ToSet(pendingSend') = Client!ToSet(pendingSend) \cup Client!ToSet(one)
    BY <1>2, <2>1, BothIn
  <2> QED BY <1>1, <1>3, <1>5, <2>2
<1>6. CASE UNCHANGED <<pendingSend, written, accepted, unheard>> BY <1>1, <1>6
<1> QED BY <1>4, <1>5, <1>6 DEF Client!Send, one

(* A step that neither sends nor changes what is known about the past. *)
LEMMA AccountStays ==
    ASSUME ClientIInv, UNCHANGED Client!sending,
           outlived => outlived', disposed => disposed',
           state \in Client!Final => state' \in Client!Final \/ outlived' \/ disposed'
    PROVE  NothingLost'
  BY DEF ClientIInv, NothingLost, Client!sending

-----------------------------------------------------------------------------
(* Hanging live closes the connection's socket and no other. *)
LEMMA Hangup ==
    ASSUME ClientTyped, Client!HangsUp
    PROVE  /\ sockets' \in [Sockets -> {"new", "opening", "open", "closing", "closed"}]
           /\ owed' \in [Sockets -> {"nothing", "hello", "replay"}]
           /\ \A w \in Sockets : sockets'[w] = IF w = ws THEN "closing" ELSE sockets[w]
  BY ConnectionBounds DEF ClientTyped, Client!HangsUp, Client!Hangs

LEMMA RetryTypes ==
    ASSUME ClientTyped, NEW armed \in Nat, Client!Retries(armed)
    PROVE  /\ state' \in {"idle", "connecting", "connected", "recovering", "reconnecting",
                          "offline", "unpaired", "stopped"}
           /\ handle' \in BOOLEAN /\ timers' \in Nat
<1>1. CASE disposed \/ state \in Client!Final BY <1>1 DEF ClientTyped, Client!Retries
<1>2. CASE ~(disposed \/ state \in Client!Final) BY <1>2 DEF Client!Retries
<1> QED BY <1>1, <1>2

LEMMA StartKeeps ==
    ASSUME ClientIInv, Client!Start
    PROVE  ClientIInv'
<1>1. ClientTyped' BY DEF ClientIInv, ClientTyped, Client!Start
<1>2. SocketGood' BY DEF ClientIInv, SocketGood, Client!Start
<1>3. Single' BY DEF ClientIInv, Single, Up, SocketGood, Client!Start
<1>4. Connected' BY DEF Connected, Client!Start
<1>5. Ordered' BY QueueStays DEF Client!Start
<1>6. NothingLost' BY AccountStays DEF Client!Start, Client!Final
<1>7. Ended' BY DEF Ended, Client!Start, Client!Final
<1> QED BY <1>1, <1>2, <1>3, <1>4, <1>5, <1>6, <1>7 DEF ClientIInv

LEMMA TimerFiresKeeps ==
    ASSUME ClientIInv, Client!TimerFires
    PROVE  ClientIInv'
<1>1. ClientTyped'
  <2>1. timers' \in Nat BY DEF ClientIInv, ClientTyped, Client!TimerFires
  <2>2. /\ dials' \in Nat /\ handle' \in BOOLEAN
        /\ state' \in {"idle", "connecting", "connected", "recovering", "reconnecting",
                       "offline", "unpaired", "stopped"}
    <3>1. CASE disposed BY <3>1 DEF ClientIInv, ClientTyped, Client!TimerFires
    <3>2. CASE ~disposed
      <4>1. state' = "connecting" /\ dials' = dials + 1 /\ handle' = FALSE
        BY <3>2 DEF Client!TimerFires
      <4>2. dials' \in Nat BY <4>1 DEF ClientIInv, ClientTyped
      <4> QED BY <4>1, <4>2
    <3> QED BY <3>1, <3>2
  <2> QED BY <2>2 DEF ClientIInv, ClientTyped, Client!TimerFires
<1>2. SocketGood' BY DEF ClientIInv, SocketGood, Up, Client!TimerFires
<1>3. Single' BY DEF ClientIInv, Single, Up, ClientTyped, Client!TimerFires
<1>4. Connected' BY DEF Connected, Client!TimerFires
<1>5. Ordered' BY QueueStays DEF Client!TimerFires
<1>6. NothingLost' BY AccountStays DEF ClientIInv, Ended, Client!TimerFires
<1>7. Ended'
  BY DEF ClientIInv, Ended, Client!Final, Client!TimerFires
<1> QED BY <1>1, <1>2, <1>3, <1>4, <1>5, <1>6, <1>7 DEF ClientIInv

LEMMA DialFailsKeeps ==
    ASSUME ClientIInv, Client!DialFails
    PROVE  ClientIInv'
<1>1. ClientTyped'
  BY ConnectionBounds, RetryTypes
     DEF ClientIInv, ClientTyped, Client!DialFails, Client!Faults
<1>2. SocketGood' BY DEF ClientIInv, SocketGood, Up, ClientTyped, Client!Retries, Client!DialFails
<1>3. Single' BY DEF ClientIInv, Single, Up, ClientTyped, Client!Retries, Client!DialFails
<1>4. Connected' BY DEF ClientIInv, Connected, Client!Writable, Client!Dying, Client!Retries, Client!DialFails
<1>5. Ordered' BY QueueStays DEF Client!DialFails, Client!Retries
<1>6. NothingLost' BY AccountStays DEF ClientIInv, Client!Retries, Client!DialFails
<1>7. Ended'
  BY DEF ClientIInv, Ended, Client!Final, Client!Retries, Client!DialFails
<1> QED BY <1>1, <1>2, <1>3, <1>4, <1>5, <1>6, <1>7 DEF ClientIInv

LEMMA DialSucceedsKeeps ==
    ASSUME ClientIInv, Client!DialSucceeds
    PROVE  ClientIInv'
<1>1. ClientTyped' BY DEF ClientIInv, ClientTyped, Client!DialSucceeds
<1>2. SocketGood' BY DEF ClientIInv, SocketGood, Up, ClientTyped, Client!DialSucceeds
<1>3. Single' BY ConnectionBounds DEF ClientIInv, Single, Up, ClientTyped, Client!DialSucceeds
<1>4. Connected' BY DEF ClientIInv, Connected, Client!Writable, Client!Dying, Single, Client!DialSucceeds
<1>5. Ordered' BY QueueStays DEF Client!DialSucceeds
<1>6. NothingLost' BY AccountStays DEF Client!DialSucceeds
<1>7. Ended' BY DEF ClientIInv, Ended, Client!DialSucceeds
<1> QED BY <1>1, <1>2, <1>3, <1>4, <1>5, <1>6, <1>7 DEF ClientIInv

LEMMA OpensKeeps ==
    ASSUME ClientIInv, NEW w \in Sockets, Client!Opens(w)
    PROVE  ClientIInv'
<1>1. ClientTyped' BY DEF ClientIInv, ClientTyped, Client!Opens, Client!timing
<1>2. SocketGood' BY DEF ClientIInv, SocketGood, Up, Client!Opens, Client!timing
<1>3. Single' BY DEF ClientIInv, Single, Up, Client!Opens, Client!timing
<1>4. Connected' BY DEF ClientIInv, Connected, Client!Writable, Client!Dying, Client!Opens
<1>5. Ordered' BY QueueStays DEF Client!Opens
<1>6. NothingLost' BY AccountStays DEF Client!Opens
<1>7. Ended' BY DEF ClientIInv, Ended, Client!Opens, Client!timing
<1> QED BY <1>1, <1>2, <1>3, <1>4, <1>5, <1>6, <1>7 DEF ClientIInv

LEMMA FallsKeeps ==
    ASSUME ClientIInv, NEW w \in Sockets, Client!Falls(w)
    PROVE  ClientIInv'
<1>1. ClientTyped'
  BY ConnectionBounds
     DEF ClientIInv, ClientTyped, Client!Falls, Client!Faults, Client!Hangs, Client!timing
<1>2. SocketGood'
  BY DEF ClientIInv, SocketGood, ClientTyped, Client!Falls, Client!Hangs, Client!timing
<1>3. Single'
  BY DEF ClientIInv, Single, Up, ClientTyped, Client!Falls, Client!Hangs, Client!timing
<1>4. Connected'
  BY DEF ClientIInv, ClientTyped, Connected, Client!Writable, Client!Dying, Client!Falls,
         Client!Hangs
<1>5. Ordered' BY QueueStays DEF Client!Falls
<1>6. NothingLost' BY AccountStays DEF Client!Falls
<1>7. Ended' BY DEF ClientIInv, Ended, Client!Falls, Client!timing
<1> QED BY <1>1, <1>2, <1>3, <1>4, <1>5, <1>6, <1>7 DEF ClientIInv

LEMMA ClosesKeeps ==
    ASSUME ClientIInv, NEW w \in Sockets, Client!Closes(w)
    PROVE  ClientIInv'
<1>1. ClientTyped'
  <2>1. /\ state' \in {"idle", "connecting", "connected", "recovering", "reconnecting",
                       "offline", "unpaired", "stopped"}
        /\ handle' \in BOOLEAN /\ timers' \in Nat /\ ws' \in Sockets \cup {NoSocket}
    <3>1. CASE Client!IsCurrent(w)
      <4>1. Client!Retries(timers) /\ ws' = NoSocket BY <3>1 DEF Client!Closes
      <4> QED BY <4>1, RetryTypes DEF ClientIInv, ClientTyped
    <3>2. CASE ~Client!IsCurrent(w)
      <4>1. UNCHANGED <<ws, state, timers, handle>> BY <3>2 DEF Client!Closes
      <4> QED BY <4>1 DEF ClientIInv, ClientTyped
    <3> QED BY <3>1, <3>2
  <2> QED BY <2>1 DEF ClientIInv, ClientTyped, Client!Closes
<1>2. SocketGood'
  BY DEF ClientIInv, SocketGood, Up, ClientTyped, Client!Closes, Client!IsCurrent, Client!Retries
<1>3. Single'
  BY ConnectionBounds
     DEF ClientIInv, Single, Up, ClientTyped, Client!Closes, Client!IsCurrent, Client!Retries
<1>4. Connected'
  BY DEF ClientIInv, Connected, Client!Writable, Client!Dying, Client!Closes, Client!IsCurrent, Client!Retries,
         Client!Final
<1>5. Ordered' BY QueueStays DEF Client!Closes, Client!Retries
<1>6. NothingLost' BY AccountStays DEF Client!Closes, Client!Retries
<1>7. Ended'
  BY ConnectionBounds
     DEF ClientIInv, ClientTyped, Ended, Client!Final, Client!Closes, Client!IsCurrent, Client!Retries
<1> QED BY <1>1, <1>2, <1>3, <1>4, <1>5, <1>6, <1>7 DEF ClientIInv

LEMMA HelloAckSameKeeps ==
    ASSUME ClientIInv, NEW w \in Sockets, Client!HelloAckSame(w)
    PROVE  ClientIInv'
<1>1. ClientTyped' BY DEF ClientIInv, ClientTyped, Client!HelloAckSame, Client!timing
<1>2. SocketGood' BY DEF ClientIInv, SocketGood, Up, Client!HelloAckSame, Client!timing
<1>3. Single' BY DEF ClientIInv, Single, Up, Client!HelloAckSame, Client!timing
<1>4. Connected' BY DEF Connected, Client!HelloAckSame
<1>5. Ordered' BY QueueStays DEF Client!HelloAckSame
<1>6. NothingLost'
  BY AccountStays, ConnectionBounds
     DEF ClientIInv, Ended, Client!HelloAckSame, Client!IsCurrent
<1>7. Ended' BY DEF Ended, Client!HelloAckSame, Client!Final
<1> QED BY <1>1, <1>2, <1>3, <1>4, <1>5, <1>6, <1>7 DEF ClientIInv

LEMMA HelloAckEpochChangedKeeps ==
    ASSUME ClientIInv, NEW w \in Sockets, Client!HelloAckEpochChanged(w)
    PROVE  ClientIInv'
<1>1. ClientTyped' BY DEF ClientIInv, ClientTyped, Client!HelloAckEpochChanged, Client!timing
<1>2. SocketGood'
  BY DEF ClientIInv, SocketGood, Up, Client!HelloAckEpochChanged, Client!Answered, Client!timing
<1>3. Single' BY DEF ClientIInv, Single, Up, Client!HelloAckEpochChanged, Client!timing
<1>4. Connected' BY DEF Connected, Client!HelloAckEpochChanged
<1>5. Ordered' BY QueueStays DEF Client!HelloAckEpochChanged
<1>6. NothingLost'
  BY AccountStays, ConnectionBounds
     DEF ClientIInv, Ended, Client!HelloAckEpochChanged, Client!IsCurrent
<1>7. Ended' BY DEF Ended, Client!HelloAckEpochChanged, Client!Final
<1> QED BY <1>1, <1>2, <1>3, <1>4, <1>5, <1>6, <1>7 DEF ClientIInv

LEMMA HelloRejectedKeeps ==
    ASSUME ClientIInv, NEW w \in Sockets, Client!HelloRejected(w)
    PROVE  ClientIInv'
<1>1. ClientTyped'
  BY DEF ClientIInv, ClientTyped, Client!HelloRejected, Client!HangsUp, Client!Hangs,
         Client!Final, Client!timing
<1>2. SocketGood'
  BY DEF ClientIInv, SocketGood, ClientTyped, Client!HelloRejected, Client!HangsUp, Client!Hangs,
         Client!Final, Client!timing
<1>3. Single'
  BY DEF ClientIInv, Single, Up, ClientTyped, Client!HelloRejected, Client!HangsUp, Client!Hangs,
         Client!timing
<1>4. Connected' BY DEF Connected, Client!HelloRejected, Client!Final
<1>5. Ordered' BY QueueDropped DEF Client!HelloRejected
<1>6. NothingLost' BY DEF NothingLost, Client!HelloRejected
<1>7. Ended'
  BY ConnectionBounds
     DEF ClientIInv, Ended, Single, Client!HelloRejected, Client!IsCurrent, Client!timing
<1> QED BY <1>1, <1>2, <1>3, <1>4, <1>5, <1>6, <1>7 DEF ClientIInv

LEMMA ReplayCompleteKeeps ==
    ASSUME ClientIInv, NEW w \in Sockets, Client!ReplayComplete(w)
    PROVE  ClientIInv'
<1>1. ClientTyped'
  BY DEF ClientIInv, ClientTyped, Client!ReplayComplete, Client!EntersReady, Client!timing
<1>2. SocketGood'
  BY DEF ClientIInv, SocketGood, Up, Client!ReplayComplete, Client!EntersReady, Client!timing
<1>3. Single' BY DEF ClientIInv, Single, Up, Client!ReplayComplete, Client!timing
<1>4. Connected'
  BY ConnectionBounds
     DEF ClientIInv, Connected, Client!Writable, Client!Dying, Single, Up, Client!ReplayComplete,
         Client!Answered
<1>5. Ordered' BY QueueStays, QueueFlushed DEF Client!ReplayComplete, Client!EntersReady
<1>6. NothingLost'
  <2>1. Client!Writable
    BY ConnectionBounds
       DEF Client!ReplayComplete, Client!Answered, Client!IsCurrent, Client!Writable
  <2>2. CASE Client!AwaitsReplay
    <3>1. Client!Flushes /\ UNCHANGED sends /\ state \notin Client!Final
      BY <2>2 DEF Client!ReplayComplete, Client!EntersReady, Client!AwaitsReplay, Client!Final
    <3>2. Client!ToSet(written') \cup Client!ToSet(pendingSend') \cup unheard'
            = Client!ToSet(written) \cup Client!ToSet(pendingSend) \cup unheard
      BY <2>1, <3>1, QueueFlushed
    <3>3. accepted' = accepted BY <3>1 DEF Client!Flushes
    <3> QED BY <3>1, <3>2, <3>3 DEF ClientIInv, NothingLost, Client!ReplayComplete
  <2>3. CASE ~Client!AwaitsReplay BY <2>3, AccountStays DEF Client!ReplayComplete
  <2> QED BY <2>2, <2>3
<1>7. Ended'
  BY DEF ClientIInv, Ended, Client!Final, Client!ReplayComplete, Client!EntersReady, Client!timing
<1> QED BY <1>1, <1>2, <1>3, <1>4, <1>5, <1>6, <1>7 DEF ClientIInv

LEMMA ReplayGoneKeeps ==
    ASSUME ClientIInv, NEW w \in Sockets, Client!ReplayGone(w)
    PROVE  ClientIInv'
<1>1. ClientTyped' BY DEF ClientIInv, ClientTyped, Client!ReplayGone, Client!timing
<1>2. SocketGood'
  BY DEF ClientIInv, SocketGood, Up, Client!ReplayGone, Client!Answered, Client!AwaitsReplay,
         Client!timing
<1>3. Single' BY DEF ClientIInv, Single, Up, Client!ReplayGone, Client!timing
<1>4. Connected' BY DEF ClientIInv, Connected, Client!Writable, Client!Dying, Client!ReplayGone
<1>5. Ordered' BY QueueStays DEF Client!ReplayGone
<1>6. NothingLost' BY AccountStays DEF Client!ReplayGone
<1>7. Ended' BY DEF ClientIInv, Ended, Client!ReplayGone, Client!timing
<1> QED BY <1>1, <1>2, <1>3, <1>4, <1>5, <1>6, <1>7 DEF ClientIInv

LEMMA ResyncDoneKeeps ==
    ASSUME ClientIInv, NEW w \in Sockets, Client!ResyncDone(w)
    PROVE  ClientIInv'
<1>1. ClientTyped'
  BY DEF ClientIInv, ClientTyped, Client!ResyncDone, Client!ResyncReturns, Client!EntersReady,
         Client!timing
<1>2. SocketGood'
  BY DEF ClientIInv, SocketGood, Up, Client!ResyncDone, Client!ResyncReturns, Client!EntersReady,
         Client!timing
<1>3. Single' BY DEF ClientIInv, Single, Up, Client!ResyncDone, Client!ResyncReturns, Client!timing
<1>4. Connected'
  BY ConnectionBounds DEF ClientIInv, Connected, Client!Writable, Client!Dying, SocketGood, Up, Client!ResyncDone,
     Client!ResyncReturns, Client!IsCurrent
<1>5. Ordered' BY QueueFlushed DEF Client!ResyncDone, Client!EntersReady
<1>6. NothingLost'
  <2>1. CASE outlived' BY <2>1 DEF NothingLost
  <2>2. CASE ~outlived'
    <3>1. ws = w /\ w \in resyncs /\ outlived' = outlived /\ ~outlived
      BY <2>2 DEF Client!ResyncDone, Client!ResyncReturns, Client!IsCurrent, ClientIInv, ClientTyped
    <3>2. Client!Writable \/ Client!Dying
      BY <3>1, ConnectionBounds DEF ClientIInv, SocketGood, Client!Writable, Client!Dying
    <3>3. /\ Client!Flushes /\ UNCHANGED sends /\ accepted' = accepted /\ disposed' = disposed
      BY DEF Client!ResyncDone, Client!EntersReady, Client!Flushes
    <3>4. Client!ToSet(written') \cup Client!ToSet(pendingSend') \cup unheard'
            = Client!ToSet(written) \cup Client!ToSet(pendingSend) \cup unheard
      BY <3>2, <3>3, QueueFlushed
    <3>5. state \notin Client!Final BY <3>1, ConnectionBounds DEF ClientIInv, Ended
    <3> QED BY <3>1, <3>3, <3>4, <3>5 DEF ClientIInv, NothingLost
  <2> QED BY <2>1, <2>2
<1>7. Ended' BY DEF Ended, Client!ResyncDone, Client!EntersReady, Client!Final
<1> QED BY <1>1, <1>2, <1>3, <1>4, <1>5, <1>6, <1>7 DEF ClientIInv

LEMMA ResyncFailsKeeps ==
    ASSUME ClientIInv, NEW w \in Sockets, Client!ResyncFails(w)
    PROVE  ClientIInv'
<1>1. ClientTyped'
  <2>1. faults' \in 0 .. MaxCuts
    BY ConnectionBounds DEF ClientIInv, ClientTyped, Client!ResyncFails, Client!Faults
  <2>2. outlived' \in BOOLEAN /\ resyncs' \subseteq Sockets
    BY DEF ClientIInv, ClientTyped, Client!ResyncFails, Client!ResyncReturns
  <2> QED BY <2>1, <2>2, Hangup, RetryTypes DEF ClientIInv, ClientTyped, Client!ResyncFails
<1>2. SocketGood'
  BY Hangup
     DEF ClientIInv, SocketGood, ClientTyped, Client!ResyncFails, Client!ResyncReturns,
         Client!Retries
<1>3. Single'
  <2> SUFFICES ASSUME ~outlived'
               PROVE  /\ \A v \in Sockets : ~Up(v)'
                      /\ dials' + timers' <= 1 /\ ws' = NoSocket
    BY DEF Single
  <2>1. ws = w /\ ~outlived /\ ws # NoSocket
    BY ConnectionBounds DEF Client!ResyncFails, Client!ResyncReturns, Client!IsCurrent
  <2>2. \A v \in Sockets : ~Up(v)'
    BY <2>1, Hangup DEF ClientIInv, Single, Up, Client!ResyncFails
  <2> QED BY <2>1, <2>2 DEF ClientIInv, Single, Client!ResyncFails, Client!Retries
<1>4. Connected' BY DEF Connected, Client!ResyncFails, Client!Retries, Client!Final
<1>5. Ordered' BY QueueStays DEF Client!ResyncFails, Client!Retries
<1>6. NothingLost' BY AccountStays DEF Client!ResyncFails, Client!ResyncReturns, Client!Retries
<1>7. Ended'
  <2> SUFFICES ASSUME state' \in Client!Final, ~outlived' PROVE FALSE BY DEF Ended
  <2>1. ws = w /\ ~outlived /\ ws # NoSocket
    BY ConnectionBounds DEF Client!ResyncFails, Client!ResyncReturns, Client!IsCurrent
  <2>2. state \in Client!Final BY DEF Client!ResyncFails, Client!Retries, Client!Final
  <2> QED BY <2>1, <2>2 DEF ClientIInv, Ended
<1> QED BY <1>1, <1>2, <1>3, <1>4, <1>5, <1>6, <1>7 DEF ClientIInv

LEMMA StopKeeps ==
    ASSUME ClientIInv, Client!Stop
    PROVE  ClientIInv'
<1>1. ClientTyped'
  <2>1. timers' \in Nat
    <3>1. CASE handle BY DEF ClientIInv, ClientTyped, SocketGood, Client!Stop, Client!ClearsTimer
    <3>2. CASE ~handle BY <3>2 DEF ClientIInv, ClientTyped, Client!Stop, Client!ClearsTimer
    <3> QED BY <3>1, <3>2
  <2> QED BY <2>1, Hangup DEF ClientIInv, ClientTyped, Client!Stop
<1>2. SocketGood'
  BY DEF ClientIInv, SocketGood, ClientTyped, Client!Stop, Client!HangsUp, Client!Hangs
<1>3. Single'
  BY DEF ClientIInv, Single, Up, ClientTyped, Client!Stop, Client!ClearsTimer, Client!HangsUp,
         Client!Hangs
<1>4. Connected' BY DEF Connected, Client!Stop
<1>5. Ordered' BY QueueDropped DEF Client!Stop
<1>6. NothingLost' BY DEF NothingLost, Client!Stop
<1>7. Ended' BY DEF Ended, Client!Stop, Client!Final
<1> QED BY <1>1, <1>2, <1>3, <1>4, <1>5, <1>6, <1>7 DEF ClientIInv

LEMMA SendKeeps ==
    ASSUME ClientIInv, Client!Send
    PROVE  ClientIInv'
<1>1. ClientTyped' BY DEF ClientIInv, ClientTyped, Client!Send, Client!timing
<1>2. SocketGood' BY DEF ClientIInv, SocketGood, Up, Client!Send, Client!timing
<1>3. Single' BY DEF ClientIInv, Single, Up, Client!Send, Client!timing
<1>4. Connected' BY DEF ClientIInv, Connected, Client!Writable, Client!Dying, Client!Send
<1>5. Ordered' BY QueueGrows
<1>6. NothingLost' BY TakenIsKept
<1>7. Ended' BY DEF ClientIInv, Ended, Client!Send, Client!timing
<1> QED BY <1>1, <1>2, <1>3, <1>4, <1>5, <1>6, <1>7 DEF ClientIInv

-----------------------------------------------------------------------------
LEMMA ClientInitIInv == Client!Init => ClientIInv
<1> SUFFICES ASSUME Client!Init PROVE ClientIInv OBVIOUS
<1>1. ClientTyped
  <2>1. 0 \in 0 .. MaxCuts BY ConnectionBounds
  <2> QED BY <2>1 DEF Client!Init, ClientTyped
<1>2. Ordered BY ConnectionBounds DEF Client!Init, Ordered, Increasing
<1> QED
  BY <1>1, <1>2 DEF Client!Init, ClientIInv, SocketGood, Single, Up, Connected, Ended,
         Client!Final, NothingLost, Client!ToSet

LEMMA ClientStepKeeps == ClientIInv /\ [Client!Next]_(Client!vars) => ClientIInv'
<1> SUFFICES ASSUME ClientIInv, [Client!Next]_(Client!vars) PROVE ClientIInv' OBVIOUS
<1>1. CASE Client!Start \/ Client!Dial \/ Client!DialFails \/ Client!Stop \/ Client!Send
  BY <1>1, StartKeeps, TimerFiresKeeps, DialSucceedsKeeps, DialFailsKeeps, StopKeeps, SendKeeps
     DEF Client!Dial
<1>2. ASSUME NEW w \in Sockets,
             Client!Opens(w) \/ Client!Falls(w) \/ Client!Closes(w)
             \/ Client!Answer(w) \/ Client!Resync(w)
      PROVE  ClientIInv'
  BY <1>2, OpensKeeps, FallsKeeps, ClosesKeeps, HelloAckSameKeeps, HelloAckEpochChangedKeeps,
     HelloRejectedKeeps, ReplayCompleteKeeps, ReplayGoneKeeps, ResyncDoneKeeps, ResyncFailsKeeps
     DEF Client!Answer, Client!Resync
<1>3. CASE UNCHANGED Client!vars
  BY <1>3
     DEF Client!vars, Client!timing, Client!sending, ClientIInv, ClientTyped, SocketGood, Single,
         Up, Connected, Client!Writable, Client!Dying, Ended, Ordered, NothingLost
<1> QED BY <1>1, <1>2, <1>3 DEF Client!Next

LEMMA ClientInvariance == Client!Spec => []ClientIInv
  BY ClientInitIInv, ClientStepKeeps, PTL DEF Client!Spec

-----------------------------------------------------------------------------
(* The state machine of client-connection.ts stays within its types. *)
THEOREM ClientTypeCorrect == Client!Spec => []Client!TypeOK
<1>1. ClientIInv => Client!TypeOK BY DEF ClientIInv, ClientTyped, Ordered, Client!TypeOK
<1> QED BY <1>1, ClientInvariance, PTL

(* A dial, an armed timer and a socket that opens, is open or is still      *)
(* this.ws exclude each other, while no resync has outlived its socket     *)
(* (connect, scheduleReconnect, forceReconnect).                           *)
THEOREM OneAttemptAlways == Client!Spec => []Client!OneAttempt
<1>1. ClientIInv => Client!OneAttempt
  <2> DEFINE live == {w \in Sockets : sockets[w] \in {"opening", "open"} \/ ws = w}
  <2> SUFFICES ASSUME ClientIInv, ~outlived PROVE dials + timers + Cardinality(live) <= 1
    BY DEF Client!OneAttempt, Client!Cardinality, Cardinality
  <2>1. /\ dials \in Nat /\ timers \in Nat /\ dials + timers <= 1
        /\ ws # NoSocket => dials = 0 /\ timers = 0
        /\ \A w \in live : w = ws
        /\ \A w \in live : ws # NoSocket
    BY ConnectionBounds DEF ClientIInv, ClientTyped, Single, Up
  <2> HIDE DEF live
  <2>2. CASE live = {}
    <3>1. Cardinality(live) = 0 BY <2>2, FS_EmptySet
    <3> QED BY <2>1, <3>1
  <2>3. CASE live # {}
    <3>1. live = {ws} /\ ws # NoSocket BY <2>1, <2>3
    <3>2. Cardinality(live) = 1 BY <3>1, FS_Singleton
    <3> QED BY <2>1, <3>1, <3>2
  <2> QED BY <2>2, <2>3
<1> QED BY <1>1, ClientInvariance, PTL

(* An envelope that send() took is on the wire or queued, but for a stop, a *)
(* rejection, a resync that outlived its socket and a write to a socket    *)
(* whose close is still to be heard; and envelopes are written once and in *)
(* the order of their sending (send, enterReady, writeDirect).             *)
THEOREM AcceptedIsWrittenAlways == Client!Spec => []Client!AcceptedIsWritten
<1>1. ClientIInv => Client!AcceptedIsWritten
  BY DEF ClientIInv, NothingLost, Ordered, Increasing, Client!AcceptedIsWritten
<1> QED BY <1>1, ClientInvariance, PTL

(* What a step of a stopped connection may do. *)
StaysStopped ==
    disposed => /\ dials' <= dials /\ timers' <= timers
                /\ dials = 0 /\ resyncs = {} /\ ws = NoSocket
                     => UNCHANGED <<state, ws, written>>

(* After stop() no dial and no timer is begun, and when what was under way *)
(* is over the connection stays as it is (stop, connect,                   *)
(* scheduleReconnect).                                                     *)
THEOREM StopIsFinalAlways == Client!Spec => Client!StopIsFinal
<1>1. ASSUME ClientIInv, [Client!Next]_(Client!vars) PROVE StaysStopped
  <2> SUFFICES ASSUME disposed
               PROVE  /\ dials' <= dials /\ timers' <= timers
                      /\ dials = 0 /\ resyncs = {} /\ ws = NoSocket
                           => UNCHANGED <<state, ws, written>>
    BY DEF StaysStopped
  <2>1. dials \in Nat /\ timers \in Nat /\ (handle => timers > 0)
    BY <1>1 DEF ClientIInv, ClientTyped, SocketGood
  <2>2. CASE Client!Start \/ Client!Stop BY <2>2 DEF Client!Start, Client!Stop
  <2>3. CASE Client!TimerFires BY <2>1, <2>3 DEF Client!TimerFires, Client!sending
  <2>4. CASE Client!DialSucceeds \/ Client!DialFails
    <3>1. dials > 0 /\ dials' = dials - 1 BY <2>4 DEF Client!DialSucceeds, Client!DialFails
    <3>2. timers' = timers
      <4>1. CASE Client!DialSucceeds BY <4>1 DEF Client!DialSucceeds
      <4>2. CASE Client!DialFails BY <4>2 DEF Client!DialFails, Client!Retries
      <4> QED BY <2>4, <4>1, <4>2
    <3> QED BY <2>1, <3>1, <3>2
  <2>5. CASE Client!Send
    BY <2>1, <2>5 DEF Client!Send, Client!timing, Client!Writes, Client!Writable
  <2>6. ASSUME NEW w \in Sockets, Client!Opens(w) \/ Client!Falls(w) \/ Client!Closes(w)
        PROVE  /\ dials' <= dials /\ timers' <= timers
               /\ ws = NoSocket => UNCHANGED <<state, ws, written>>
    <3>1. CASE Client!Opens(w) \/ Client!Falls(w)
      <4>1. UNCHANGED Client!timing /\ UNCHANGED Client!sending /\ UNCHANGED <<state, ws>>
        BY <3>1 DEF Client!Opens, Client!Falls
      <4> QED BY <2>1, <4>1 DEF Client!timing, Client!sending
    <3>2. CASE Client!Closes(w) /\ Client!IsCurrent(w)
      <4>1. ws # NoSocket BY <3>2, ConnectionBounds DEF Client!IsCurrent
      <4>2. dials' = dials /\ timers' = timers BY <3>2 DEF Client!Closes, Client!Retries
      <4> QED BY <2>1, <4>1, <4>2
    <3>3. CASE Client!Closes(w) /\ ~Client!IsCurrent(w)
      BY <2>1, <3>3 DEF Client!Closes, Client!sending
    <3> QED BY <2>6, <3>1, <3>2, <3>3
  <2>7. ASSUME NEW w \in Sockets, Client!Answer(w)
        PROVE  UNCHANGED <<dials, timers>> /\ ws # NoSocket
    BY <2>7, ConnectionBounds
       DEF Client!Answer, Client!HelloAckSame, Client!HelloAckEpochChanged,
           Client!HelloRejected, Client!ReplayComplete, Client!ReplayGone, Client!IsCurrent,
           Client!timing
  <2>8. ASSUME NEW w \in Sockets, Client!Resync(w)
        PROVE  UNCHANGED <<dials, timers>> /\ resyncs # {}
    BY <2>8
       DEF Client!Resync, Client!ResyncDone, Client!ResyncFails, Client!ResyncReturns,
           Client!Retries, Client!timing
  <2>9. CASE UNCHANGED Client!vars BY <2>1, <2>9 DEF Client!vars, Client!timing, Client!sending
  <2> QED BY <1>1, <2>1, <2>2, <2>3, <2>4, <2>5, <2>6, <2>7, <2>8, <2>9
          DEF Client!Next, Client!Dial
<1>2. ClientIInv /\ [Client!Next]_(Client!vars) => [StaysStopped]_(Client!vars) BY <1>1
<1>3. Client!StopIsFinal <=> [][StaysStopped]_(Client!vars)
  BY DEF Client!StopIsFinal, StaysStopped
<1> QED BY <1>2, <1>3, ClientInvariance, PTL DEF Client!Spec
=============================================================================
