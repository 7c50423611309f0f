------------------------------ MODULE EventLog ------------------------------
(***************************************************************************)
(* packages/event-log: the SQLite-backed log every client resumes from.    *)
(*                                                                         *)
(* A row is [seq, ts, epoch, res]; channel and payload are not told apart  *)
(* by any decision the log takes, and res stands for (resource_kind,       *)
(* resource_id), with KindOf giving the kind.  committed and the three     *)
(* variables after it are history: what was ever inserted, which inserts   *)
(* were never reported to the caller, and which rows a SCOPED removal      *)
(* (prune of one kind, delete of one resource) took away.                  *)
(***************************************************************************)
EXTENDS Integers, FiniteSets

CONSTANTS Kinds,      \* resource kinds
          Resources,  \* resources, each of one kind
          KindOf,     \* [Resources -> Kinds]
          PageSizes,  \* limits a replay caller asks for
          MaxSeq,     \* bound: rows ever inserted
          MaxEpoch,   \* bound: server boots
          MaxClock    \* bound: ticks of Date.now

ASSUME LogAssumption ==
    /\ KindOf \in [Resources -> Kinds]
    /\ PageSizes \subseteq Nat \ {0}
    /\ MaxSeq \in Nat /\ MaxEpoch \in Nat \ {0} /\ MaxClock \in Nat

VARIABLES rows,        \* table events
          lastSeq,     \* sqlite_sequence of the AUTOINCREMENT key
          epochFirst,  \* _meta epoch_first_seq:<epoch>, 0 when absent
          resFirst,    \* _meta resource_epoch_first_seq:<kind>:<id>:<epoch>
          epoch,       \* _epoch of the open instance
          mode,        \* "open" or "readonly" (_readonly)
          now,         \* Date.now
          reader,      \* one caller streaming pages (replayAll)
          committed, phantom, holes, erased

logVars == <<rows, lastSeq, epochFirst, resFirst>>
modeVars == <<epoch, mode, now>>
history == <<committed, phantom, holes, erased>>
vars == <<rows, lastSeq, epochFirst, resFirst, epoch, mode, now, reader,
          committed, phantom, holes, erased>>

Epochs == 1..MaxEpoch
Row == [seq : 1..MaxSeq, ts : 0..MaxClock, epoch : Epochs, res : Resources]
AnyKind == "any"

(* Appends whose caller got the record back. *)
Acked == committed \ phantom

-----------------------------------------------------------------------------
(* Reads *)

EpochRows == {r \in rows : r.epoch = epoch}
ResourceRows(res) == {r \in EpochRows : r.res = res}

(* Mutants: the bound of the comparison one too high, and one side of it lost. *)
FloorMovedLate(S, first, since) ==
    first # 0 /\ \A r \in S : r.seq > first /\ r.seq > since + 2
FloorMovedAnywhere(S, first, since) ==
    first # 0 /\ \A r \in S : r.seq > since + 1

(* "oldest == null", or "oldest > firstSeq and sinceSeq + 1 < oldest", *)
(* over the rows S whose first sequence number on record is first.     *)
FloorMoved(S, first, since) ==
    /\ first # 0
    /\ \A r \in S : r.seq > first /\ r.seq > since + 1

TooOld(since) == FloorMoved(EpochRows, epochFirst[epoch], since)
ResourceTooOld(res, since) ==
    FloorMoved(ResourceRows(res), resFirst[res][epoch], since)

(* ... ORDER BY seq LIMIT limit *)
Page(S, limit) ==
    {r \in S : Cardinality({q \in S : q.seq < r.seq}) < limit}

EventsAfter(since) == {r \in EpochRows : r.seq > since}

-----------------------------------------------------------------------------
(* Appends *)

(* Mutants: a counter read twice; the key without AUTOINCREMENT. *)
RowAtSkipping(i, res) ==
    [seq |-> lastSeq + i + 1, ts |-> now, epoch |-> epoch, res |-> res]
RowAtReusing(i, res) ==
    [seq |-> Cardinality(rows) + i, ts |-> now, epoch |-> epoch, res |-> res]

RowAt(i, res) ==
    [seq |-> lastSeq + i, ts |-> now, epoch |-> epoch, res |-> res]

RecordEpochFirst(seq) ==
    [epochFirst EXCEPT ![epoch] = IF @ = 0 THEN seq ELSE @]

(* Mutant: INSERT OR REPLACE where the code has INSERT OR IGNORE. *)
RecordResourceLatest(first, res, seq) == [first EXCEPT ![res][epoch] = seq]

RecordResourceFirst(first, res, seq) ==
    [first EXCEPT ![res][epoch] = IF @ = 0 THEN seq ELSE @]

Writable == mode = "open"

Publish(res) ==
    /\ Writable
    /\ lastSeq < MaxSeq
    /\ rows' = rows \cup {RowAt(1, res)}
    /\ lastSeq' = lastSeq + 1
    /\ epochFirst' = RecordEpochFirst(lastSeq + 1)
    /\ resFirst' = RecordResourceFirst(resFirst, res, lastSeq + 1)
    /\ committed' = committed \cup {RowAt(1, res)}
    /\ UNCHANGED <<modeVars, reader, phantom, holes, erased>>

(* publish() runs its three statements outside a transaction: a full disk *)
(* can fail the second or the third after the row itself is committed.     *)
PublishTorn(res) ==
    /\ Writable
    /\ lastSeq < MaxSeq
    /\ rows' = rows \cup {RowAt(1, res)}
    /\ lastSeq' = lastSeq + 1
    /\ \/ UNCHANGED epochFirst
       \/ epochFirst' = RecordEpochFirst(lastSeq + 1)
    /\ committed' = committed \cup {RowAt(1, res)}
    /\ phantom' = phantom \cup {RowAt(1, res)}
    /\ mode' = "readonly"
    /\ UNCHANGED <<resFirst, epoch, now, reader, holes, erased>>

(* Disk full on the insert itself, or anywhere in a batch: nothing stays. *)
AppendRefused ==
    /\ Writable
    /\ mode' = "readonly"
    /\ UNCHANGED <<logVars, epoch, now, reader, history>>

PublishBatch(r1, r2) ==
    /\ Writable
    /\ lastSeq + 1 < MaxSeq
    /\ LET batch == {RowAt(1, r1), RowAt(2, r2)} IN
       /\ rows' = rows \cup batch
       /\ committed' = committed \cup batch
    /\ lastSeq' = lastSeq + 2
    /\ epochFirst' = RecordEpochFirst(lastSeq + 1)
    /\ resFirst' = RecordResourceFirst(
                     RecordResourceFirst(resFirst, r1, lastSeq + 1),
                     r2, lastSeq + 2)
    /\ UNCHANGED <<modeVars, reader, phantom, holes, erased>>

-----------------------------------------------------------------------------
(* Removals *)

InScope(kind) == IF kind = AnyKind THEN rows
                 ELSE {r \in rows : KindOf[r.res] = kind}

Expired(kind, cutoff) == {r \in InScope(kind) : r.ts < cutoff}

(* The oldest rows of S beyond the newest maxRows. *)
Excess(S, maxRows) ==
    {r \in S : Cardinality({q \in S : q.seq > r.seq}) >= maxRows}

(* prune({ maxAgeMs }), prune({ maxRows }) and both, age first; cutoff 0 *)
(* and maxRows MaxSeq stand for an option left out.                      *)
Prune(kind, cutoff, maxRows) ==
    LET old == Expired(kind, cutoff)
        gone == old \cup Excess(InScope(kind) \ old, maxRows)
    IN  /\ Writable
        /\ gone # {}
        /\ rows' = rows \ gone
        /\ holes' = IF kind = AnyKind THEN holes ELSE holes \cup gone
        /\ UNCHANGED <<lastSeq, epochFirst, resFirst, modeVars, reader,
                       committed, phantom, erased>>

DeleteByResource(res) ==
    /\ Writable
    /\ \E r \in rows : r.res = res
    /\ rows' = {r \in rows : r.res # res}
    /\ resFirst' = [resFirst EXCEPT ![res] = [e \in Epochs |-> 0]]
    /\ erased' = erased \cup {e \in committed : e.res = res}
    /\ UNCHANGED <<lastSeq, epochFirst, modeVars, reader, committed,
                   phantom, holes>>

-----------------------------------------------------------------------------
(* Streaming replay: one page per call, other calls in between *)

Idle == [status |-> "idle", since |-> 0, cursor |-> 0, got |-> {}]

(* Another epoch is answered epoch-mismatch, and no stream starts. *)
ReplayStart(since) ==
    /\ reader.status # "streaming"
    /\ since <= lastSeq
    /\ reader' = [status |-> "streaming", since |-> since,
                  cursor |-> since, got |-> {}]
    /\ UNCHANGED <<logVars, modeVars, history>>

ReplayGone ==
    /\ reader.status = "streaming"
    /\ TooOld(reader.cursor)
    /\ reader' = Idle
    /\ UNCHANGED <<logVars, modeVars, history>>

(* done = fewer rows than the limit; nextCursor = seq of the last row *)
ReplayNext(limit) ==
    LET page == Page(EventsAfter(reader.cursor), limit) IN
    /\ reader.status = "streaming"
    /\ ~TooOld(reader.cursor)
    /\ \/ /\ page = {}
          /\ reader' = [reader EXCEPT !.status = "done"]
       \/ \E last \in page :
            /\ \A r \in page : r.seq <= last.seq
            /\ reader' = [reader EXCEPT
                 !.status = IF Cardinality(page) < limit THEN "done" ELSE @,
                 !.cursor = last.seq,
                 !.got = @ \cup page]
    /\ UNCHANGED <<logVars, modeVars, history>>

-----------------------------------------------------------------------------
(* Health and lifecycle *)

EnterReadOnly ==
    /\ mode = "open"
    /\ mode' = "readonly"
    /\ UNCHANGED <<logVars, epoch, now, reader, history>>

ExitReadOnly ==
    /\ mode = "readonly"
    /\ mode' = "open"
    /\ UNCHANGED <<logVars, epoch, now, reader, history>>

(* The process ends, by close() (every later call throws) or by a crash, *)
(* and the next boot opens the same file under the bumped epoch.           *)
Reopen ==
    /\ epoch < MaxEpoch
    /\ epoch' = epoch + 1
    /\ mode' = "open"
    /\ reader' = Idle
    /\ UNCHANGED <<logVars, now, history>>

Tick ==
    /\ now < MaxClock
    /\ now' = now + 1
    /\ UNCHANGED <<logVars, epoch, mode, reader, history>>

Init ==
    /\ rows = {} /\ lastSeq = 0
    /\ epochFirst = [e \in Epochs |-> 0]
    /\ resFirst = [r \in Resources |-> [e \in Epochs |-> 0]]
    /\ epoch = 1 /\ mode = "open" /\ now = 0
    /\ reader = Idle
    /\ committed = {} /\ phantom = {} /\ holes = {} /\ erased = {}

Next ==
    \/ \E r \in Resources : Publish(r) \/ PublishTorn(r)
    \/ \E r1, r2 \in Resources : PublishBatch(r1, r2)
    \/ AppendRefused
    \/ \E k \in Kinds \cup {AnyKind}, c \in 0..now, n \in 0..Cardinality(rows) :
         Prune(k, c, n)
    \/ \E r \in Resources : DeleteByResource(r)
    \/ \E s \in 0..MaxSeq : ReplayStart(s)
    \/ \E n \in PageSizes : ReplayNext(n)
    \/ ReplayGone
    \/ EnterReadOnly \/ ExitReadOnly \/ Reopen \/ Tick

Spec == Init /\ [][Next]_vars

-----------------------------------------------------------------------------
(* Properties *)

Reader == [status : {"idle", "streaming", "done"},
           since : 0..MaxSeq, cursor : 0..MaxSeq, got : SUBSET Row]

(* Every variable keeps its type; rows and the history sets hold rows only. *)
TypeOK ==
    /\ rows \in SUBSET Row
    /\ lastSeq \in 0..MaxSeq
    /\ epochFirst \in [Epochs -> 0..MaxSeq]
    /\ resFirst \in [Resources -> [Epochs -> 0..MaxSeq]]
    /\ epoch \in Epochs
    /\ mode \in {"open", "readonly"}
    /\ now \in 0..MaxClock
    /\ reader \in Reader
    /\ committed \in SUBSET Row
    /\ phantom \in SUBSET Row
    /\ holes \in SUBSET Row
    /\ erased \in SUBSET Row

(* A sequence number names one event for ever: neither pruning the log      *)
(* down to nothing nor a reboot hands a client's cursor to another event.   *)
SeqNeverReused == \A e, f \in committed : e.seq = f.seq => e = f

(* Pages read one after the other, with publishes and prunes between them, *)
(* leave no acknowledged event of the range out: what is missing was told  *)
(* with too-old, or was removed by a scoped prune or a resource delete.    *)
StreamHasNoGap ==
    \A e \in Acked \ (holes \cup erased) :
        /\ e.epoch = epoch
        /\ e.seq > reader.since
        /\ e.seq <= reader.cursor
        => e \in reader.got

(* replayPageByResource: a caller not told too-old is missing no event of  *)
(* that resource, whatever prunes of whatever kind took from the others,   *)
(* unless the resource itself was deleted.                                 *)
ResourceReplayHasNoGap ==
    \A e \in Acked \ erased :
        e.epoch = epoch /\ e \notin rows
            => \A since \in 0..(e.seq - 1) : ResourceTooOld(e.res, since)

(* too-old is only answered to a caller that really lost something: an      *)
(* event of this epoch after its cursor is no longer in the log, or the     *)
(* epoch has no row left at all.                                            *)
TooOldIsReal ==
    \A since \in 0..MaxSeq :
        TooOld(since) /\ EpochRows # {}
            => \E e \in committed : /\ e.epoch = epoch
                                    /\ e.seq > since
                                    /\ e \notin rows
=============================================================================
