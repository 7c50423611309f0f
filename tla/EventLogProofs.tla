--------------------------- MODULE EventLogProofs ---------------------------
(***************************************************************************)
(* The event log's guarantees for every set of resources, page size and    *)
(* bound.  The inductive invariant says, of every acknowledged event, that *)
(* either its row is still there or the whole epoch (the whole resource)   *)
(* only has later rows left while an earlier first sequence number is on   *)
(* record: that is what lets one comparison of two numbers decide whether  *)
(* a cursor is too old.                                                    *)
(***************************************************************************)
EXTENDS EventLog, FiniteSetTheorems, TLAPS

(* Rows and history only hold inserted events, each under its own number. *)
Recorded ==
    /\ rows \subseteq committed
    /\ IsFiniteSet(rows)
    /\ \A e \in committed : e.seq <= lastSeq /\ e.epoch <= epoch /\ e.ts <= now
    /\ SeqNeverReused
    /\ \A e, f \in committed : e.seq < f.seq => e.ts <= f.ts

FirstsBehind ==
    /\ \A x \in Epochs : epochFirst[x] <= lastSeq
    /\ \A r \in Resources, x \in Epochs : resFirst[r][x] <= lastSeq

EpochFloor ==
    \A e \in Acked \ (holes \cup erased) :
        e.epoch = epoch =>
            /\ epochFirst[epoch] # 0
            /\ epochFirst[epoch] <= e.seq
            /\ e \in rows \/ \A r \in EpochRows : r.seq > e.seq

ResourceFloor ==
    \A e \in Acked \ erased :
        e.epoch = epoch =>
            /\ resFirst[e.res][epoch] # 0
            /\ resFirst[e.res][epoch] <= e.seq
            /\ e \in rows \/ \A r \in ResourceRows(e.res) : r.seq > e.seq

ReaderBehind == reader.cursor <= lastSeq

IInv ==
    /\ TypeOK
    /\ Recorded
    /\ FirstsBehind
    /\ EpochFloor
    /\ ResourceFloor
    /\ ReaderBehind
    /\ StreamHasNoGap

-----------------------------------------------------------------------------
(* Types *)

(* A row appended under the bound is a row (publish, event-log.ts). *)
LEMMA RowAtType ==
    ASSUME TypeOK, NEW i \in {1, 2}, lastSeq + i <= MaxSeq,
           NEW res \in Resources
    PROVE  RowAt(i, res) \in Row
  BY LogAssumption DEF RowAt, Row, TypeOK, Epochs

(* Recording a first sequence number keeps both _meta tables in their type. *)
LEMMA FirstTypes ==
    ASSUME TypeOK, NEW seq \in 0..MaxSeq
    PROVE  /\ RecordEpochFirst(seq) \in [Epochs -> 0..MaxSeq]
           /\ \A f \in [Resources -> [Epochs -> 0..MaxSeq]], r \in Resources :
                RecordResourceFirst(f, r, seq)
                    \in [Resources -> [Epochs -> 0..MaxSeq]]
  BY LogAssumption DEF RecordEpochFirst, RecordResourceFirst, TypeOK, Epochs

(* Every step of the log keeps every variable in its type. *)
THEOREM TypeCorrect == Spec => []TypeOK
<1>1. Init => TypeOK
  BY LogAssumption DEF Init, TypeOK, Epochs, Reader, Idle
<1>2. TypeOK /\ [Next]_vars => TypeOK'
  <2> SUFFICES ASSUME TypeOK, [Next]_vars PROVE TypeOK'
    OBVIOUS
  <2> USE LogAssumption
  <2>1. ASSUME NEW r \in Resources, Publish(r) PROVE TypeOK'
    <3>1. RowAt(1, r) \in Row /\ lastSeq + 1 \in 0..MaxSeq
      BY <2>1, RowAtType DEF Publish, TypeOK
    <3>2. QED
      BY <2>1, <3>1, FirstTypes DEF Publish, TypeOK, modeVars
  <2>2. ASSUME NEW r \in Resources, PublishTorn(r) PROVE TypeOK'
    <3>1. RowAt(1, r) \in Row /\ lastSeq + 1 \in 0..MaxSeq
      BY <2>2, RowAtType DEF PublishTorn, TypeOK
    <3>2. QED
      BY <2>2, <3>1, FirstTypes DEF PublishTorn, TypeOK
  <2>3. ASSUME NEW r1 \in Resources, NEW r2 \in Resources, PublishBatch(r1, r2)
        PROVE TypeOK'
    <3>1. /\ RowAt(1, r1) \in Row /\ RowAt(2, r2) \in Row
          /\ lastSeq + 1 \in 0..MaxSeq /\ lastSeq + 2 \in 0..MaxSeq
      BY <2>3, RowAtType DEF PublishBatch, TypeOK
    <3>2. resFirst' \in [Resources -> [Epochs -> 0..MaxSeq]]
      BY <2>3, <3>1, FirstTypes DEF PublishBatch, TypeOK
    <3>3. QED
      BY <2>3, <3>1, <3>2, FirstTypes DEF PublishBatch, TypeOK, modeVars
  <2>4. CASE AppendRefused
    BY <2>4 DEF AppendRefused, TypeOK, logVars, history
  <2>5. ASSUME NEW k \in Kinds \cup {AnyKind}, NEW c \in 0..now,
               NEW n \in 0..Cardinality(rows), Prune(k, c, n)
        PROVE TypeOK'
    <3>1. Expired(k, c) \cup Excess(InScope(k) \ Expired(k, c), n) \subseteq rows
      BY DEF Expired, Excess, InScope
    <3>2. QED
      BY <2>5, <3>1 DEF Prune, TypeOK, modeVars
  <2>6. ASSUME NEW r \in Resources, DeleteByResource(r) PROVE TypeOK'
    BY <2>6 DEF DeleteByResource, TypeOK, modeVars
  <2>7. ASSUME NEW s \in 0..MaxSeq, ReplayStart(s) PROVE TypeOK'
    BY <2>7 DEF ReplayStart, TypeOK, logVars, modeVars, history, Reader
  <2>8. ASSUME NEW n \in PageSizes, ReplayNext(n) PROVE TypeOK'
    <3>1. Page(EventsAfter(reader.cursor), n) \subseteq Row
      BY DEF Page, EventsAfter, EpochRows, TypeOK
    <3>2. \A last \in Page(EventsAfter(reader.cursor), n) : last.seq \in 0..MaxSeq
      BY <3>1 DEF Row
    <3>3. reader' \in Reader
      <4> DEFINE page == Page(EventsAfter(reader.cursor), n)
      <4>1. reader \in Reader /\ page \subseteq Row /\ reader.got \cup page \in SUBSET Row
        BY <3>1 DEF TypeOK, Reader
      <4>2. PICK status \in {"idle", "streaming", "done"} :
              status = IF Cardinality(page) < n THEN "done" ELSE reader.status
        BY <4>1 DEF Reader
      <4> HIDE DEF page
      <4>3. CASE reader' = [reader EXCEPT !.status = "done"]
        BY <4>1, <4>3 DEF Reader
      <4>4. ASSUME NEW last \in page,
                   reader' = [reader EXCEPT !.status = status, !.cursor = last.seq,
                                            !.got = reader.got \cup page]
            PROVE  reader' \in Reader
        BY <3>2, <4>1, <4>4 DEF Reader, page
      <4> QED BY <2>8, <4>2, <4>3, <4>4 DEF ReplayNext, page
    <3>4. QED
      BY <2>8, <3>3 DEF ReplayNext, TypeOK, logVars, modeVars, history
  <2>9. CASE ReplayGone
    BY <2>9 DEF ReplayGone, TypeOK, logVars, modeVars, history, Reader, Idle
  <2>10. CASE EnterReadOnly
    BY <2>10 DEF EnterReadOnly, TypeOK, logVars, history
  <2>11. CASE ExitReadOnly
    BY <2>11 DEF ExitReadOnly, TypeOK, logVars, history
  <2>12. CASE Reopen
    BY <2>12 DEF Reopen, TypeOK, logVars, history, Reader, Idle, Epochs
  <2>13. CASE Tick
    BY <2>13 DEF Tick, TypeOK, logVars, history
  <2>14. CASE UNCHANGED vars
    BY <2>14 DEF vars, TypeOK
  <2>15. QED
    BY <2>1, <2>2, <2>3, <2>4, <2>5, <2>6, <2>7, <2>8, <2>9, <2>10, <2>11,
       <2>12, <2>13, <2>14 DEF Next
<1>3. QED
  BY <1>1, <1>2, PTL DEF Spec

-----------------------------------------------------------------------------
(* Removal by age and by count takes the oldest rows of its scope *)

(* More rows lie above a lower sequence number, and fewer below it: what   *)
(* prune's OFFSET/LIMIT counts, and a page's LIMIT.                        *)
LEMMA LaterCounted ==
    ASSUME NEW S, IsFiniteSet(S), NEW a \in Int, NEW b \in Int, a <= b,
           \A q \in S : q.seq \in Int
    PROVE  /\ Cardinality({q \in S : q.seq > b}) <= Cardinality({q \in S : q.seq > a})
           /\ Cardinality({q \in S : q.seq < a}) <= Cardinality({q \in S : q.seq < b})
           /\ Cardinality({q \in S : q.seq > b}) \in Nat
           /\ Cardinality({q \in S : q.seq > a}) \in Nat
           /\ Cardinality({q \in S : q.seq < a}) \in Nat
           /\ Cardinality({q \in S : q.seq < b}) \in Nat
<1> DEFINE Above(x) == {q \in S : q.seq > x}
           Below(x) == {q \in S : q.seq < x}
<1>1. \A x \in Int : /\ IsFiniteSet(Above(x)) /\ Cardinality(Above(x)) \in Nat
                     /\ IsFiniteSet(Below(x)) /\ Cardinality(Below(x)) \in Nat
  <2> TAKE x \in Int
  <2>1. Above(x) \in SUBSET S /\ Below(x) \in SUBSET S
    OBVIOUS
  <2>2. IsFiniteSet(Above(x)) /\ IsFiniteSet(Below(x))
    BY <2>1, FS_Subset
  <2>3. QED
    BY <2>2, FS_CardinalityType
<1>2. Above(b) \in SUBSET Above(a) /\ Below(a) \in SUBSET Below(b)
  OBVIOUS
<1>3. Cardinality(Above(b)) <= Cardinality(Above(a))
  BY <1>1, <1>2, FS_Subset
<1>4. Cardinality(Below(a)) <= Cardinality(Below(b))
  BY <1>1, <1>2, FS_Subset
<1>5. QED
  BY <1>1, <1>3, <1>4

(* What prune leaves of its scope is newer than everything it took. *)
LEMMA PruneTakesOldest ==
    ASSUME IInv, NEW kind \in Kinds \cup {AnyKind}, NEW cutoff \in 0..now,
           NEW n \in Nat,
           NEW e \in rows, NEW r \in rows,
           e \in Expired(kind, cutoff)
                 \cup Excess(InScope(kind) \ Expired(kind, cutoff), n),
           r \in InScope(kind),
           r \notin Expired(kind, cutoff)
                    \cup Excess(InScope(kind) \ Expired(kind, cutoff), n)
    PROVE  r.seq > e.seq
<1> DEFINE S == InScope(kind) \ Expired(kind, cutoff)
<1>1. /\ e \in committed /\ r \in committed /\ e \in Row /\ r \in Row
      /\ SeqNeverReused
      /\ \A x, y \in committed : x.seq < y.seq => x.ts <= y.ts
  BY DEF IInv, Recorded, TypeOK
<1>2. e.seq \in Int /\ r.seq \in Int /\ e.ts \in Int /\ r.ts \in Int /\ cutoff \in Int
  BY <1>1, LogAssumption DEF Row
<1>3. e # r => e.seq # r.seq
  BY <1>1 DEF SeqNeverReused
<1>4. SUFFICES ASSUME r.seq < e.seq PROVE FALSE
  BY <1>2, <1>3
<1>5. CASE e \in Expired(kind, cutoff)
  <2>1. e.ts < cutoff /\ ~(r.ts < cutoff)
    BY <1>5 DEF Expired
  <2>2. r.ts <= e.ts
    BY <1>1, <1>4
  <2>3. QED
    BY <2>1, <2>2, <1>2
<1>6. CASE e \in Excess(S, n)
  <2>1. S \in SUBSET rows /\ IsFiniteSet(S)
    <3>1. S \in SUBSET rows
      BY DEF InScope
    <3>2. QED
      BY <3>1, FS_Subset DEF IInv, Recorded
  <2>2. \A q \in S : q.seq \in Int
    BY <2>1 DEF IInv, TypeOK, Row
  <2>3. Cardinality({q \in S : q.seq > e.seq}) >= n
    BY <1>6 DEF Excess
  <2>4. r \in S /\ ~(Cardinality({q \in S : q.seq > r.seq}) >= n)
    BY DEF Excess
  <2> HIDE DEF S
  <2>4a. r.seq <= e.seq
    BY <1>2, <1>4
  <2>5. /\ Cardinality({q \in S : q.seq > e.seq}) <= Cardinality({q \in S : q.seq > r.seq})
        /\ Cardinality({q \in S : q.seq > e.seq}) \in Nat
        /\ Cardinality({q \in S : q.seq > r.seq}) \in Nat
    BY <2>1, <2>2, <2>4a, <1>2, LaterCounted, Zenon
  <2>6. n \in Int
    OBVIOUS
  <2>7. QED
    BY <2>3, <2>4, <2>5, <2>6
<1>7. QED
  BY <1>5, <1>6

-----------------------------------------------------------------------------
(* Appends: publish, a torn publish and a batch differ in the rows they add *)
(* and in which first sequence numbers they get to record.                  *)
LEMMA Appended ==
    ASSUME IInv, TypeOK', NEW N, N \subseteq Row, IsFiniteSet(N),
           rows' = rows \cup N, committed' = committed \cup N,
           phantom \subseteq phantom', lastSeq < lastSeq',
           UNCHANGED <<epoch, now, reader, holes, erased>>,
           \A x \in N : /\ x.seq > lastSeq /\ x.seq <= lastSeq'
                       /\ x.ts = now /\ x.epoch = epoch,
           \A x, y \in N : x.seq = y.seq => x = y,
           FirstsBehind',
           epochFirst[epoch] # 0 => epochFirst'[epoch] = epochFirst[epoch],
           \A r \in Resources : resFirst[r][epoch] # 0
                               => resFirst'[r][epoch] = resFirst[r][epoch],
           \A x \in N \ phantom' :
              /\ epochFirst'[epoch] # 0 /\ epochFirst'[epoch] <= x.seq
              /\ resFirst'[x.res][epoch] # 0 /\ resFirst'[x.res][epoch] <= x.seq
    PROVE  IInv'
<1> USE LogAssumption
<1>1. /\ \A x \in committed \cup N : x.seq \in Int /\ x.ts \in Int
      /\ \A x \in committed \cup N : x.epoch \in Int /\ x.res \in Resources
      /\ lastSeq \in Int /\ lastSeq' \in Int
      /\ epoch \in Int /\ now \in Int
  <2>1. /\ committed \subseteq Row /\ lastSeq \in 0..MaxSeq
        /\ epoch \in Epochs /\ now \in 0..MaxClock
    BY DEF IInv, TypeOK
  <2>2. lastSeq' \in 0..MaxSeq
    BY DEF TypeOK
  <2>3. \A x \in Row : /\ x.seq \in Int /\ x.ts \in Int
                      /\ x.epoch \in Int /\ x.res \in Resources
    BY DEF Row, Epochs
  <2>4. epoch \in Int
    BY <2>1 DEF Epochs
  <2>5. QED
    BY <2>1, <2>2, <2>3, <2>4
<1>2. \A x \in committed : x.seq <= lastSeq /\ x.epoch <= epoch /\ x.ts <= now
  BY DEF IInv, Recorded
<1>3. Recorded'
  <2>1. rows' \subseteq committed' /\ IsFiniteSet(rows')
    BY FS_Union DEF IInv, Recorded
  <2>2. \A x \in committed' : x.seq <= lastSeq' /\ x.epoch <= epoch' /\ x.ts <= now'
    BY <1>1, <1>2
  <2>3. SeqNeverReused'
    BY <1>1, <1>2 DEF SeqNeverReused, IInv, Recorded
  <2>4. \A x, y \in committed' : x.seq < y.seq => x.ts <= y.ts
    BY <1>1, <1>2 DEF IInv, Recorded
  <2>5. QED
    BY <2>1, <2>2, <2>3, <2>4 DEF Recorded
<1>4. Acked' \subseteq Acked \cup (N \ phantom')
  BY DEF Acked
<1>5. EpochFloor'
  <2> SUFFICES ASSUME NEW e \in (Acked \ (holes \cup erased))', e.epoch = epoch
               PROVE  /\ epochFirst'[epoch] # 0
                      /\ epochFirst'[epoch] <= e.seq
                      /\ e \in rows' \/ \A r \in EpochRows' : r.seq > e.seq
    BY DEF EpochFloor
  <2>1. CASE e \in N \ phantom'
    BY <2>1
  <2>2. CASE e \in Acked
    <3>1. /\ epochFirst[epoch] # 0 /\ epochFirst[epoch] <= e.seq
          /\ e \in rows \/ \A r \in EpochRows : r.seq > e.seq
      BY <2>2 DEF EpochFloor, IInv
    <3>2. e \in committed
      BY <2>2 DEF Acked
    <3>3. ASSUME NEW r \in EpochRows' PROVE r \in EpochRows \/ r.seq > e.seq
      BY <1>1, <1>2, <3>2 DEF EpochRows
    <3>4. QED
      BY <3>1, <3>3
  <2>3. QED
    BY <1>4, <2>1, <2>2
<1>6. ResourceFloor'
  <2> SUFFICES ASSUME NEW e \in (Acked \ erased)', e.epoch = epoch
               PROVE  /\ resFirst'[e.res][epoch] # 0
                      /\ resFirst'[e.res][epoch] <= e.seq
                      /\ e \in rows' \/ \A r \in ResourceRows(e.res)' : r.seq > e.seq
    BY DEF ResourceFloor
  <2>1. CASE e \in N \ phantom'
    BY <2>1
  <2>2. CASE e \in Acked
    <3>1. e \in committed /\ e.res \in Resources
      BY <2>2, <1>1 DEF Acked
    <3>2. /\ resFirst[e.res][epoch] # 0 /\ resFirst[e.res][epoch] <= e.seq
          /\ e \in rows \/ \A r \in ResourceRows(e.res) : r.seq > e.seq
      BY <2>2 DEF ResourceFloor, IInv
    <3>3. ASSUME NEW r \in ResourceRows(e.res)'
          PROVE  r \in ResourceRows(e.res) \/ r.seq > e.seq
      BY <1>1, <1>2, <3>1 DEF ResourceRows, EpochRows
    <3>4. QED
      BY <3>1, <3>2, <3>3
  <2>3. QED
    BY <1>4, <2>1, <2>2
<1>7. ReaderBehind' /\ StreamHasNoGap'
  <2>1. reader.cursor \in Int /\ reader.cursor <= lastSeq
    BY DEF IInv, ReaderBehind, TypeOK, Reader
  <2>2. \A x \in N : ~(x.seq <= reader.cursor)
    BY <1>1, <2>1
  <2>3. StreamHasNoGap
    BY DEF IInv
  <2>4. QED
    BY <1>1, <1>4, <2>1, <2>2, <2>3 DEF StreamHasNoGap, ReaderBehind
<1>8. QED
  BY <1>3, <1>5, <1>6, <1>7 DEF IInv

(* INSERT OR IGNORE: a first sequence number, once on record, stays, and    *)
(* after an append there is one.                                           *)
LEMMA FirstsAppended ==
    ASSUME IInv, NEW seq \in Int, seq > lastSeq
    PROVE  /\ \A x \in Epochs : RecordEpochFirst(seq)[x] <= seq
           /\ RecordEpochFirst(seq)[epoch] # 0
           /\ epochFirst[epoch] # 0
                 => RecordEpochFirst(seq)[epoch] = epochFirst[epoch]
           /\ \A f \in [Resources -> [Epochs -> 0..MaxSeq]], res \in Resources :
                (\A r \in Resources, x \in Epochs : f[r][x] < seq) =>
                /\ \A r \in Resources, x \in Epochs :
                     RecordResourceFirst(f, res, seq)[r][x] <= seq
                /\ RecordResourceFirst(f, res, seq)[res][epoch] # 0
                /\ \A r \in Resources : f[r][epoch] # 0
                     => RecordResourceFirst(f, res, seq)[r][epoch] = f[r][epoch]
<1>1. /\ epoch \in Epochs /\ epochFirst \in [Epochs -> 0..MaxSeq]
      /\ lastSeq \in Nat /\ \A x \in Epochs : epochFirst[x] <= lastSeq
      /\ MaxSeq \in Nat
  BY LogAssumption DEF IInv, TypeOK, FirstsBehind
<1>2. /\ \A x \in Epochs : RecordEpochFirst(seq)[x] <= seq
      /\ RecordEpochFirst(seq)[epoch] # 0
      /\ epochFirst[epoch] # 0
            => RecordEpochFirst(seq)[epoch] = epochFirst[epoch]
  BY <1>1 DEF RecordEpochFirst
<1>3. ASSUME NEW f \in [Resources -> [Epochs -> 0..MaxSeq]], NEW res \in Resources,
             \A r \in Resources, x \in Epochs : f[r][x] < seq
      PROVE  /\ \A r \in Resources, x \in Epochs :
                  RecordResourceFirst(f, res, seq)[r][x] <= seq
             /\ RecordResourceFirst(f, res, seq)[res][epoch] # 0
             /\ \A r \in Resources : f[r][epoch] # 0
                  => RecordResourceFirst(f, res, seq)[r][epoch] = f[r][epoch]
  BY <1>1, <1>3 DEF RecordResourceFirst
<1>4. QED
  BY <1>2, <1>3

(* publish() that returns its record. *)
LEMMA PublishStep ==
    ASSUME IInv, TypeOK', NEW res \in Resources, Publish(res)
    PROVE  IInv'
<1> DEFINE new == RowAt(1, res)
<1>1. /\ new \in Row /\ new.seq = lastSeq + 1 /\ new.ts = now
      /\ new.epoch = epoch /\ new.res = res
  BY RowAtType DEF RowAt, Publish, IInv, TypeOK
<1>2. lastSeq \in Int /\ lastSeq + 1 \in Int /\ lastSeq + 1 > lastSeq
  BY DEF IInv, TypeOK
<1>3. IsFiniteSet({new})
  BY FS_Singleton
<1>4. /\ resFirst \in [Resources -> [Epochs -> 0..MaxSeq]]
      /\ \A r \in Resources, x \in Epochs : resFirst[r][x] < lastSeq + 1
  BY <1>2, LogAssumption DEF IInv, TypeOK, FirstsBehind
<1>5. /\ FirstsBehind'
      /\ epochFirst'[epoch] # 0 /\ epochFirst'[epoch] <= lastSeq + 1
      /\ resFirst'[res][epoch] # 0 /\ resFirst'[res][epoch] <= lastSeq + 1
      /\ epochFirst[epoch] # 0 => epochFirst'[epoch] = epochFirst[epoch]
      /\ \A r \in Resources : resFirst[r][epoch] # 0
            => resFirst'[r][epoch] = resFirst[r][epoch]
  BY <1>2, <1>4, FirstsAppended DEF Publish, FirstsBehind, IInv, TypeOK
<1>6. /\ rows' = rows \cup {new} /\ committed' = committed \cup {new}
      /\ phantom' = phantom /\ lastSeq' = lastSeq + 1
      /\ UNCHANGED <<epoch, now, reader, holes, erased>>
  BY DEF Publish, modeVars
<1> HIDE DEF new
<1>7. QED
  BY <1>1, <1>2, <1>3, <1>5, <1>6, Appended

(* publish() that throws after the row is committed. *)
LEMMA PublishTornStep ==
    ASSUME IInv, TypeOK', NEW res \in Resources, PublishTorn(res)
    PROVE  IInv'
<1> DEFINE new == RowAt(1, res)
<1>1. /\ new \in Row /\ new.seq = lastSeq + 1 /\ new.ts = now
      /\ new.epoch = epoch /\ new.res = res
  BY RowAtType DEF RowAt, PublishTorn, IInv, TypeOK
<1>2. lastSeq \in Int /\ lastSeq + 1 \in Int /\ lastSeq + 1 > lastSeq
  BY DEF IInv, TypeOK
<1>3. IsFiniteSet({new})
  BY FS_Singleton
<1>4. \A r \in Resources, x \in Epochs : resFirst[r][x] <= lastSeq + 1
  BY <1>2, LogAssumption DEF IInv, TypeOK, FirstsBehind
<1>5. \A x \in Epochs : epochFirst[x] <= lastSeq + 1
  BY <1>2, LogAssumption DEF IInv, TypeOK, FirstsBehind
<1>6. /\ FirstsBehind'
      /\ epochFirst[epoch] # 0 => epochFirst'[epoch] = epochFirst[epoch]
      /\ \A r \in Resources : resFirst[r][epoch] # 0
            => resFirst'[r][epoch] = resFirst[r][epoch]
  BY <1>2, <1>4, <1>5, FirstsAppended DEF PublishTorn, FirstsBehind
<1>7. /\ rows' = rows \cup {new} /\ committed' = committed \cup {new}
      /\ phantom' = phantom \cup {new} /\ lastSeq' = lastSeq + 1
      /\ UNCHANGED <<epoch, now, reader, holes, erased>>
  BY DEF PublishTorn
<1> HIDE DEF new
<1>8. QED
  BY <1>1, <1>2, <1>3, <1>6, <1>7, Appended

(* publishBatch(). *)
LEMMA PublishBatchStep ==
    ASSUME IInv, TypeOK', NEW r1 \in Resources, NEW r2 \in Resources,
           PublishBatch(r1, r2)
    PROVE  IInv'
<1> DEFINE a == RowAt(1, r1)
           b == RowAt(2, r2)
           mid == RecordResourceFirst(resFirst, r1, lastSeq + 1)
<1>1. /\ a \in Row /\ a.seq = lastSeq + 1 /\ a.ts = now
      /\ a.epoch = epoch /\ a.res = r1
      /\ b \in Row /\ b.seq = lastSeq + 2 /\ b.ts = now
      /\ b.epoch = epoch /\ b.res = r2
  BY RowAtType, LogAssumption DEF RowAt, PublishBatch, IInv, TypeOK
<1>2. /\ lastSeq \in Int /\ lastSeq + 1 \in 0..MaxSeq /\ lastSeq + 2 \in Int
      /\ MaxSeq \in Int
  BY LogAssumption DEF IInv, TypeOK, PublishBatch
<1>3. IsFiniteSet({a, b})
  <2>1. {a, b} = {a} \cup {b}
    OBVIOUS
  <2>2. IsFiniteSet({a}) /\ IsFiniteSet({b})
    BY FS_Singleton
  <2> HIDE DEF a, b
  <2>3. IsFiniteSet({a} \cup {b})
    BY <2>2, FS_Union
  <2>4. QED
    BY <2>1, <2>3
<1>4. /\ resFirst \in [Resources -> [Epochs -> 0..MaxSeq]]
      /\ \A r \in Resources, x \in Epochs : resFirst[r][x] < lastSeq + 1
      /\ epoch \in Epochs
  BY <1>2, LogAssumption DEF IInv, TypeOK, FirstsBehind
<1>5. /\ mid \in [Resources -> [Epochs -> 0..MaxSeq]]
      /\ \A r \in Resources, x \in Epochs : mid[r][x] <= lastSeq + 1
      /\ mid[r1][epoch] # 0
      /\ \A r \in Resources : resFirst[r][epoch] # 0
            => mid[r][epoch] = resFirst[r][epoch]
  <2>1. mid \in [Resources -> [Epochs -> 0..MaxSeq]]
    BY <1>2, <1>4, FirstTypes DEF IInv
  <2>2. lastSeq + 1 \in Int /\ lastSeq + 1 > lastSeq
    BY <1>2
  <2>3. QED
    BY <1>4, <2>1, <2>2, FirstsAppended
<1>6. \A r \in Resources, x \in Epochs : mid[r][x] < lastSeq + 2
  BY <1>2, <1>5
<1>7. resFirst' = RecordResourceFirst(mid, r2, lastSeq + 2)
  BY DEF PublishBatch
<1> HIDE DEF mid
<1>8. /\ \A r \in Resources, x \in Epochs : resFirst'[r][x] <= lastSeq + 2
      /\ resFirst'[r2][epoch] # 0
      /\ \A r \in Resources : mid[r][epoch] # 0
            => resFirst'[r][epoch] = mid[r][epoch]
  BY <1>2, <1>5, <1>6, <1>7, FirstsAppended
<1>9. resFirst'[r1][epoch] # 0 /\ resFirst'[r1][epoch] <= lastSeq + 1
  BY <1>4, <1>5, <1>8
<1>10. /\ \A x \in Epochs : epochFirst'[x] <= lastSeq + 1
       /\ epochFirst'[epoch] # 0
       /\ epochFirst[epoch] # 0 => epochFirst'[epoch] = epochFirst[epoch]
  BY <1>2, FirstsAppended DEF PublishBatch
<1>11. /\ rows' = rows \cup {a, b} /\ committed' = committed \cup {a, b}
       /\ phantom' = phantom /\ lastSeq' = lastSeq + 2
       /\ UNCHANGED <<epoch, now, reader, holes, erased>>
  BY DEF PublishBatch, modeVars
<1>12. FirstsBehind'
  <2>1. \A x \in Epochs : epochFirst'[x] \in Int
    BY DEF TypeOK
  <2>2. QED
    BY <1>2, <1>8, <1>10, <1>11, <2>1 DEF FirstsBehind
<1>13. /\ epochFirst'[epoch] <= lastSeq + 2
       /\ resFirst'[r2][epoch] <= lastSeq + 2
  BY <1>4, <1>8, <1>11, <1>12 DEF FirstsBehind
<1>14. \A r \in Resources : resFirst[r][epoch] # 0
         => resFirst'[r][epoch] = resFirst[r][epoch]
  BY <1>5, <1>8
<1> HIDE DEF a, b
<1>15. /\ \A x \in {a, b} : /\ x.seq > lastSeq /\ x.seq <= lastSeq'
                            /\ x.ts = now /\ x.epoch = epoch
       /\ \A x, y \in {a, b} : x.seq = y.seq => x = y
       /\ lastSeq < lastSeq'
  BY <1>1, <1>2, <1>11
<1>16. \A x \in {a, b} :
         /\ epochFirst'[epoch] # 0 /\ epochFirst'[epoch] <= x.seq
         /\ resFirst'[x.res][epoch] # 0 /\ resFirst'[x.res][epoch] <= x.seq
  BY <1>1, <1>4, <1>8, <1>9, <1>10, <1>13
<1>17. {a, b} \subseteq Row
  BY <1>1
<1>18. QED
  BY <1>3, <1>10, <1>11, <1>12, <1>14, <1>15, <1>16, <1>17, Appended

-----------------------------------------------------------------------------
(* Removals *)

(* prune(): within its scope what goes is older than what stays. *)
LEMMA PruneStep ==
    ASSUME IInv, TypeOK', NEW kind \in Kinds \cup {AnyKind},
           NEW cutoff \in 0..now, NEW n \in Nat,
           Prune(kind, cutoff, n)
    PROVE  IInv'
<1> DEFINE gone == Expired(kind, cutoff)
                   \cup Excess(InScope(kind) \ Expired(kind, cutoff), n)
<1>1. /\ gone \subseteq InScope(kind) /\ gone \subseteq rows /\ rows' = rows \ gone
      /\ UNCHANGED <<lastSeq, epochFirst, resFirst, epoch, mode, now, reader,
                     committed, phantom, erased>>
      /\ holes \subseteq holes'
      /\ kind # AnyKind => gone \subseteq holes'
  BY DEF Prune, modeVars, Expired, Excess, InScope
<1>2. ASSUME NEW e \in gone, NEW r \in rows', r \in InScope(kind)
      PROVE  r.seq > e.seq
  BY <1>1, <1>2, PruneTakesOldest
<1> HIDE DEF gone
<1>3. Recorded'
  <2>1. IsFiniteSet(rows')
    BY <1>1, FS_Subset DEF IInv, Recorded
  <2>2. QED
    BY <1>1, <2>1 DEF IInv, Recorded, SeqNeverReused
<1>4. FirstsBehind' /\ ReaderBehind'
  BY <1>1 DEF IInv, FirstsBehind, ReaderBehind
<1>5. EpochFloor'
  <2> SUFFICES ASSUME NEW e \in (Acked \ (holes \cup erased))', e.epoch = epoch
               PROVE  /\ epochFirst[epoch] # 0 /\ epochFirst[epoch] <= e.seq
                      /\ e \in rows' \/ \A r \in EpochRows' : r.seq > e.seq
    BY <1>1 DEF EpochFloor
  <2>1. e \in Acked \ (holes \cup erased)
    BY <1>1 DEF Acked
  <2>2. /\ epochFirst[epoch] # 0 /\ epochFirst[epoch] <= e.seq
        /\ e \in rows \/ \A r \in EpochRows : r.seq > e.seq
    BY <2>1 DEF IInv, EpochFloor
  <2>3. EpochRows' \subseteq EpochRows
    BY <1>1 DEF EpochRows
  <2>4. CASE e \in gone
    <3>1. InScope(kind) = rows
      BY <1>1, <2>4 DEF InScope
    <3>2. QED
      BY <1>1, <1>2, <2>2, <2>4, <3>1 DEF EpochRows
  <2>5. CASE e \notin gone
    BY <1>1, <2>2, <2>3, <2>5
  <2>6. QED
    BY <2>4, <2>5
<1>6. ResourceFloor'
  <2> SUFFICES ASSUME NEW e \in (Acked \ erased)', e.epoch = epoch
               PROVE  /\ resFirst[e.res][epoch] # 0 /\ resFirst[e.res][epoch] <= e.seq
                      /\ e \in rows' \/ \A r \in ResourceRows(e.res)' : r.seq > e.seq
    BY <1>1 DEF ResourceFloor
  <2>1. e \in Acked \ erased
    BY <1>1 DEF Acked
  <2>2. /\ resFirst[e.res][epoch] # 0 /\ resFirst[e.res][epoch] <= e.seq
        /\ e \in rows \/ \A r \in ResourceRows(e.res) : r.seq > e.seq
    BY <2>1 DEF IInv, ResourceFloor
  <2>3. ResourceRows(e.res)' \subseteq ResourceRows(e.res)
    BY <1>1 DEF ResourceRows, EpochRows
  <2>4. CASE e \in gone
    <3>1. \A r \in ResourceRows(e.res)' : r \in rows' /\ r \in rows /\ r.res = e.res
      BY <1>1 DEF ResourceRows, EpochRows
    <3>2. \A r \in ResourceRows(e.res)' : r \in InScope(kind)
      BY <1>1, <2>4, <3>1 DEF InScope
    <3>3. QED
      BY <1>2, <2>2, <2>4, <3>1, <3>2
  <2>5. CASE e \notin gone
    BY <1>1, <2>2, <2>3, <2>5
  <2>6. QED
    BY <2>4, <2>5
<1>7. StreamHasNoGap'
  BY <1>1 DEF IInv, StreamHasNoGap, Acked
<1>8. QED
  BY <1>3, <1>4, <1>5, <1>6, <1>7 DEF IInv

(* deleteByResource(): the resource's rows and first numbers go together. *)
LEMMA DeleteStep ==
    ASSUME IInv, TypeOK', NEW res \in Resources, DeleteByResource(res)
    PROVE  IInv'
<1>1. /\ rows' = {r \in rows : r.res # res}
      /\ UNCHANGED <<lastSeq, epochFirst, epoch, mode, now, reader,
                     committed, phantom, holes>>
      /\ erased' = erased \cup {e \in committed : e.res = res}
      /\ resFirst' = [resFirst EXCEPT ![res] = [e \in Epochs |-> 0]]
  BY DEF DeleteByResource, modeVars
<1>2. Recorded'
  <2>1. rows' \subseteq rows
    BY <1>1
  <2>2. IsFiniteSet(rows')
    BY <2>1, FS_Subset DEF IInv, Recorded
  <2>3. QED
    BY <1>1, <2>1, <2>2 DEF IInv, Recorded, SeqNeverReused
<1>3. FirstsBehind' /\ ReaderBehind'
  <2>1. resFirst \in [Resources -> [Epochs -> 0..MaxSeq]] /\ 0 <= lastSeq
    BY LogAssumption DEF IInv, TypeOK
  <2>2. \A r \in Resources, x \in Epochs : resFirst'[r][x] <= lastSeq
    BY <1>1, <2>1 DEF IInv, FirstsBehind
  <2>3. QED
    BY <1>1, <2>2 DEF IInv, FirstsBehind, ReaderBehind
<1>4. EpochFloor'
  BY <1>1 DEF IInv, EpochFloor, EpochRows, Acked
<1>5. ResourceFloor'
  <2> SUFFICES ASSUME NEW e \in (Acked \ erased)', e.epoch = epoch
               PROVE  /\ resFirst'[e.res][epoch] # 0
                      /\ resFirst'[e.res][epoch] <= e.seq
                      /\ e \in rows' \/ \A r \in ResourceRows(e.res)' : r.seq > e.seq
    BY <1>1 DEF ResourceFloor
  <2>1. e \in Acked \ erased /\ e.res # res /\ e.res \in Resources
    BY <1>1 DEF Acked, IInv, TypeOK, Row
  <2>2. /\ resFirst[e.res][epoch] # 0 /\ resFirst[e.res][epoch] <= e.seq
        /\ e \in rows \/ \A r \in ResourceRows(e.res) : r.seq > e.seq
    BY <2>1 DEF IInv, ResourceFloor
  <2>3. resFirst'[e.res] = resFirst[e.res]
    BY <1>1, <2>1 DEF IInv, TypeOK
  <2>4. ResourceRows(e.res)' \subseteq ResourceRows(e.res)
    BY <1>1 DEF ResourceRows, EpochRows
  <2>5. QED
    BY <1>1, <2>1, <2>2, <2>3, <2>4
<1>6. StreamHasNoGap'
  BY <1>1 DEF IInv, StreamHasNoGap, Acked
<1>7. QED
  BY <1>2, <1>3, <1>4, <1>5, <1>6 DEF IInv

-----------------------------------------------------------------------------
(* Steps that leave the table alone *)

(* A step that writes neither the table nor _meta leaves all but the reader. *)
LEMMA TableKept ==
    ASSUME IInv, UNCHANGED <<logVars, history, epoch>>, now <= now', now' \in Int
    PROVE  Recorded' /\ FirstsBehind' /\ EpochFloor' /\ ResourceFloor'
<1>1. UNCHANGED <<rows, lastSeq, epochFirst, resFirst, epoch,
                  committed, phantom, holes, erased>>
  BY DEF logVars, history
<1>2. \A e \in committed : e.ts <= now'
  BY DEF IInv, TypeOK, Row, Recorded
<1>3. QED
  BY <1>1, <1>2 DEF IInv, Recorded, SeqNeverReused, FirstsBehind, EpochFloor,
     ResourceFloor, EpochRows, ResourceRows, Acked

(* A page that is not refused starts right after the cursor. *)
LEMMA PageHasNoGap ==
    ASSUME IInv, ~TooOld(reader.cursor), NEW limit \in PageSizes,
           NEW last \in Page(EventsAfter(reader.cursor), limit),
           NEW e \in Acked \ (holes \cup erased), e.epoch = epoch,
           e.seq > reader.cursor, e.seq <= last.seq
    PROVE  e \in Page(EventsAfter(reader.cursor), limit)
<1> DEFINE S == EventsAfter(reader.cursor)
<1>1. /\ S \subseteq rows /\ last \in EpochRows /\ last \in S
      /\ Cardinality({q \in S : q.seq < last.seq}) < limit
  BY DEF Page, EventsAfter, EpochRows
<1>2. /\ rows \subseteq Row /\ e \in Row /\ reader.cursor \in Int
      /\ limit \in Int /\ epochFirst \in [Epochs -> 0..MaxSeq] /\ epoch \in Epochs
      /\ MaxSeq \in Nat
  BY LogAssumption DEF IInv, TypeOK, Acked, Reader
<1>3. \A q \in Row : q.seq \in Int
  BY DEF Row
<1>4. e \in rows
  <2>1. /\ epochFirst[epoch] # 0 /\ epochFirst[epoch] <= e.seq
        /\ e \in rows \/ \A r \in EpochRows : r.seq > e.seq
    BY DEF IInv, EpochFloor
  <2>2. SUFFICES ASSUME \A r \in EpochRows : r.seq > e.seq PROVE FALSE
    BY <2>1
  <2>3. /\ \A r \in EpochRows : r.seq \in Int
        /\ epochFirst[epoch] \in Int /\ e.seq \in Int
    BY <1>2, <1>3 DEF EpochRows
  <2>4. TooOld(reader.cursor)
    BY <1>2, <2>1, <2>2, <2>3 DEF TooOld, FloorMoved
  <2>5. QED
    BY <2>4
<1>5. e \in S
  BY <1>4 DEF EventsAfter, EpochRows
<1>6. IsFiniteSet(S)
  BY <1>1, FS_Subset DEF IInv, Recorded
<1>7. last.seq \in Int /\ e.seq \in Int /\ \A q \in S : q.seq \in Int
  BY <1>1, <1>2, <1>3
<1> HIDE DEF S
<1>8. /\ Cardinality({q \in S : q.seq < e.seq}) <= Cardinality({q \in S : q.seq < last.seq})
      /\ Cardinality({q \in S : q.seq < e.seq}) \in Nat
      /\ Cardinality({q \in S : q.seq < last.seq}) \in Nat
  BY <1>6, <1>7, LaterCounted, Zenon
<1>9. Cardinality({q \in S : q.seq < e.seq}) < limit
  BY <1>1, <1>2, <1>8
<1>10. QED
  BY <1>5, <1>9 DEF Page, S

(* One more page of a replay. *)
LEMMA ReplayNextStep ==
    ASSUME IInv, TypeOK', NEW limit \in PageSizes, ReplayNext(limit)
    PROVE  IInv'
<1> DEFINE page == Page(EventsAfter(reader.cursor), limit)
<1>1. UNCHANGED <<logVars, modeVars, history>> /\ ~TooOld(reader.cursor)
  BY DEF ReplayNext
<1>2. Recorded' /\ FirstsBehind' /\ EpochFloor' /\ ResourceFloor'
  BY <1>1, TableKept DEF modeVars, IInv, TypeOK
<1>3. page \subseteq rows
  BY DEF Page, EventsAfter, EpochRows
<1>4. reader \in Reader /\ reader.cursor \in Int /\ lastSeq \in Int
  BY DEF IInv, TypeOK, Reader
<1> HIDE DEF page
<1>5. CASE page = {} /\ reader' = [reader EXCEPT !.status = "done"]
  <2>1. /\ reader'.cursor = reader.cursor /\ reader'.since = reader.since
        /\ reader'.got = reader.got
    BY <1>4, <1>5 DEF Reader
  <2>2. ReaderBehind' /\ StreamHasNoGap'
    BY <1>1, <2>1 DEF IInv, ReaderBehind, StreamHasNoGap, Acked, history, logVars,
       modeVars
  <2>3. QED
    BY <1>2, <2>2 DEF IInv
<1>6. ASSUME NEW last \in page,
             reader' = [reader EXCEPT
                !.status = IF Cardinality(page) < limit THEN "done" ELSE @,
                !.cursor = last.seq, !.got = @ \cup page]
      PROVE  IInv'
  <2>1. /\ reader'.cursor = last.seq /\ reader'.since = reader.since
        /\ reader'.got = reader.got \cup page
    BY <1>4, <1>6 DEF Reader
  <2>2. ReaderBehind'
    BY <1>1, <1>3, <2>1 DEF ReaderBehind, IInv, Recorded, logVars
  <2>3. StreamHasNoGap'
    <3> SUFFICES ASSUME NEW e \in Acked \ (holes \cup erased), e.epoch = epoch,
                        e.seq > reader.since, e.seq <= last.seq
                 PROVE  e \in reader.got \cup page
      BY <1>1, <2>1 DEF StreamHasNoGap, Acked, history, modeVars
    <3>1. CASE e.seq <= reader.cursor
      BY <3>1 DEF IInv, StreamHasNoGap
    <3>2. CASE e.seq > reader.cursor
      BY <1>1, <3>2, PageHasNoGap DEF page
    <3>3. e.seq \in Int
      BY DEF IInv, TypeOK, Acked, Row
    <3>4. QED
      BY <1>4, <3>1, <3>2, <3>3
  <2>4. QED
    BY <1>2, <2>2, <2>3 DEF IInv
<1>7. QED
  BY <1>5, <1>6 DEF ReplayNext, page

-----------------------------------------------------------------------------
(* The theorems *)

(* The inductive invariant holds initially and every step keeps it. *)
LEMMA Inductive == Spec => []IInv
<1>1. Init => IInv
  <2> SUFFICES ASSUME Init PROVE IInv
    OBVIOUS
  <2>1. TypeOK
    BY LogAssumption DEF Init, TypeOK, Epochs, Reader, Idle
  <2>2. Recorded
    BY FS_EmptySet DEF Init, Recorded, SeqNeverReused
  <2>3. QED
    BY <2>1, <2>2 DEF Init, IInv, FirstsBehind, EpochFloor, ResourceFloor,
       ReaderBehind, StreamHasNoGap, Acked, Idle
<1>2. IInv /\ TypeOK' /\ [Next]_vars => IInv'
  <2> SUFFICES ASSUME IInv, TypeOK', [Next]_vars PROVE IInv'
    OBVIOUS
  <2>1. now \in Int /\ epoch \in Int
    BY DEF IInv, TypeOK, Epochs
  <2>2. ASSUME UNCHANGED <<logVars, history, epoch, now, reader>> PROVE IInv'
    <3>1. Recorded' /\ FirstsBehind' /\ EpochFloor' /\ ResourceFloor'
      BY <2>1, <2>2, TableKept
    <3>2. ReaderBehind' /\ StreamHasNoGap'
      BY <2>2 DEF IInv, ReaderBehind, StreamHasNoGap, Acked, logVars, history
    <3>3. QED
      BY <3>1, <3>2 DEF IInv
  <2>3. ASSUME UNCHANGED <<logVars, modeVars, history>>, reader'.cursor <= lastSeq,
               reader'.cursor <= reader'.since
        PROVE  IInv'
    <3>1. Recorded' /\ FirstsBehind' /\ EpochFloor' /\ ResourceFloor'
      BY <2>1, <2>3, TableKept DEF modeVars
    <3>2. ReaderBehind'
      BY <2>3 DEF ReaderBehind, logVars
    <3>3. StreamHasNoGap'
      <4>1. /\ reader'.cursor \in Int /\ reader'.since \in Int
            /\ \A e \in committed' : e.seq \in Int
        BY DEF TypeOK, Reader, Row
      <4>2. QED
        BY <2>3, <4>1 DEF StreamHasNoGap, Acked
    <3>4. QED
      BY <3>1, <3>2, <3>3 DEF IInv
  <2>4. ASSUME NEW r \in Resources, Publish(r) PROVE IInv'
    BY <2>4, PublishStep
  <2>5. ASSUME NEW r \in Resources, PublishTorn(r) PROVE IInv'
    BY <2>5, PublishTornStep
  <2>6. ASSUME NEW r1 \in Resources, NEW r2 \in Resources, PublishBatch(r1, r2)
        PROVE  IInv'
    BY <2>6, PublishBatchStep
  <2>7. CASE AppendRefused
    BY <2>2, <2>7 DEF AppendRefused
  <2>8. ASSUME NEW k \in Kinds \cup {AnyKind}, NEW c \in 0..now,
               NEW n \in 0..Cardinality(rows), Prune(k, c, n)
        PROVE  IInv'
    <3>1. Cardinality(rows) \in Nat
      BY FS_CardinalityType DEF IInv, Recorded
    <3>2. QED
      BY <2>8, <3>1, PruneStep
  <2>9. ASSUME NEW r \in Resources, DeleteByResource(r) PROVE IInv'
    BY <2>9, DeleteStep
  <2>10. ASSUME NEW s \in 0..MaxSeq, ReplayStart(s) PROVE IInv'
    <3>1. reader'.cursor = s /\ reader'.since = s /\ s \in Int
      BY <2>10 DEF ReplayStart
    <3>2. QED
      BY <2>3, <2>10, <3>1 DEF ReplayStart
  <2>11. ASSUME NEW n \in PageSizes, ReplayNext(n) PROVE IInv'
    BY <2>11, ReplayNextStep
  <2>12. CASE ReplayGone
    <3>1. reader'.cursor = 0 /\ reader'.since = 0 /\ lastSeq \in Nat
      BY <2>12, LogAssumption DEF ReplayGone, Idle, IInv, TypeOK
    <3>2. QED
      BY <2>3, <2>12, <3>1 DEF ReplayGone
  <2>13. CASE EnterReadOnly
    BY <2>2, <2>13 DEF EnterReadOnly
  <2>14. CASE ExitReadOnly
    BY <2>2, <2>14 DEF ExitReadOnly
  <2>15. CASE Reopen
    <3>1. /\ UNCHANGED <<rows, lastSeq, epochFirst, resFirst, now, committed,
                         phantom, holes, erased>>
          /\ epoch' = epoch + 1 /\ reader' = Idle
      BY <2>15 DEF Reopen, logVars, history
    <3>2. \A e \in committed : e.epoch \in Int /\ e.epoch < epoch'
      BY <2>1, <3>1 DEF IInv, Recorded, TypeOK, Row, Epochs
    <3>3. Recorded'
      BY <3>1, <3>2 DEF IInv, Recorded, SeqNeverReused
    <3>4. EpochFloor' /\ ResourceFloor' /\ StreamHasNoGap'
      BY <2>1, <3>1, <3>2 DEF EpochFloor, ResourceFloor, StreamHasNoGap, Acked
    <3>5. FirstsBehind' /\ ReaderBehind'
      BY <3>1, LogAssumption DEF IInv, FirstsBehind, ReaderBehind, Idle, TypeOK
    <3>6. QED
      BY <3>3, <3>4, <3>5 DEF IInv
  <2>16. CASE Tick
    <3>1. Recorded' /\ FirstsBehind' /\ EpochFloor' /\ ResourceFloor'
      BY <2>1, <2>16, TableKept DEF Tick
    <3>2. ReaderBehind' /\ StreamHasNoGap'
      BY <2>16 DEF Tick, IInv, ReaderBehind, StreamHasNoGap, Acked, logVars, history
    <3>3. QED
      BY <3>1, <3>2 DEF IInv
  <2>17. CASE UNCHANGED vars
    BY <2>2, <2>17 DEF vars, logVars, history
  <2>18. QED
    BY <2>4, <2>5, <2>6, <2>7, <2>8, <2>9, <2>10, <2>11, <2>12, <2>13, <2>14,
       <2>15, <2>16, <2>17 DEF Next
<1>3. QED
  BY <1>1, <1>2, TypeCorrect, PTL DEF Spec

(* A sequence number names one event for ever, over any number of boots,   *)
(* prunes and deletes: a cursor never comes to mean another event.         *)
THEOREM SeqNeverReusedAlways == Spec => []SeqNeverReused
<1>1. IInv => SeqNeverReused
  BY DEF IInv, Recorded
<1>2. QED
  BY <1>1, Inductive, PTL

(* A streamed replay that is not told too-old leaves no acknowledged event *)
(* out, with any publishes and prunes between its pages.                   *)
THEOREM StreamHasNoGapAlways == Spec => []StreamHasNoGap
<1>1. IInv => StreamHasNoGap
  BY DEF IInv
<1>2. QED
  BY <1>1, Inductive, PTL

(* A resource's replay answers too-old to every cursor before an event of  *)
(* that resource that is no longer there, unless the resource was deleted. *)
THEOREM ResourceReplayHasNoGapAlways == Spec => []ResourceReplayHasNoGap
<1>1. IInv => ResourceReplayHasNoGap
  <2> SUFFICES ASSUME IInv, NEW e \in Acked \ erased, e.epoch = epoch,
                      e \notin rows, NEW since \in 0..(e.seq - 1)
               PROVE  ResourceTooOld(e.res, since)
    BY DEF ResourceReplayHasNoGap
  <2>1. /\ resFirst[e.res][epoch] # 0 /\ resFirst[e.res][epoch] <= e.seq
        /\ \A r \in ResourceRows(e.res) : r.seq > e.seq
    BY DEF IInv, ResourceFloor
  <2>2. /\ e.seq \in Int /\ e.res \in Resources
        /\ \A r \in ResourceRows(e.res) : r.seq \in Int
    BY DEF IInv, TypeOK, Acked, ResourceRows, EpochRows, Row
  <2>3. resFirst[e.res][epoch] \in Int
    BY <2>2, LogAssumption DEF IInv, TypeOK
  <2>4. QED
    BY <2>1, <2>2, <2>3 DEF ResourceTooOld, FloorMoved
<1>2. QED
  BY <1>1, Inductive, PTL

-----------------------------------------------------------------------------
(* Sequence numbers are given out without holes, and from the first one on  *)
(* record for the open epoch they are all of that epoch; so what is missing *)
(* between a cursor and the oldest row was an event of this epoch.          *)
Numbered ==
    /\ \A n \in 1..lastSeq : \E e \in committed : e.seq = n
    /\ \A x \in Epochs : x > epoch => epochFirst[x] = 0
    /\ epochFirst[epoch] # 0 =>
          \A e \in committed : e.seq >= epochFirst[epoch] => e.epoch = epoch

(* Every append takes the numbers after the last one. *)
LEMMA NumbersAppended ==
    ASSUME IInv, Numbered, NEW N \in SUBSET Row, committed' = committed \cup N,
           UNCHANGED epoch, lastSeq' \in Nat,
           \A n \in (lastSeq + 1)..lastSeq' : \E e \in N : e.seq = n,
           \A e \in N : e.epoch = epoch,
           epochFirst' \in {epochFirst, RecordEpochFirst(lastSeq + 1)}
    PROVE  Numbered'
<1>1. /\ committed \subseteq Row /\ lastSeq \in Nat /\ epoch \in Epochs
      /\ epochFirst \in [Epochs -> 0..MaxSeq] /\ \A e \in Row : e.seq \in Nat
      /\ Epochs \subseteq Int /\ \A e \in committed : e.seq <= lastSeq
  BY LogAssumption DEF IInv, TypeOK, Recorded, Row, Epochs
<1>2. ASSUME NEW n \in 1..lastSeq' PROVE \E e \in committed' : e.seq = n
  BY <1>1 DEF Numbered
<1>3. \A x \in Epochs : x # epoch => epochFirst'[x] = epochFirst[x]
  BY <1>1 DEF RecordEpochFirst
<1>4. epochFirst'[epoch] = epochFirst[epoch] \/ epochFirst'[epoch] = lastSeq + 1
  BY <1>1 DEF RecordEpochFirst
<1>5. ASSUME epochFirst'[epoch] # 0, NEW e \in committed', e.seq >= epochFirst'[epoch]
      PROVE  e.epoch = epoch
  BY <1>1, <1>4, <1>5 DEF Numbered
<1>6. \A x \in Epochs : x > epoch => epochFirst'[x] = 0
  BY <1>1, <1>3 DEF Numbered
<1> QED BY <1>2, <1>5, <1>6 DEF Numbered

LEMMA NumbersKept ==
    ASSUME Numbered, UNCHANGED <<committed, lastSeq, epochFirst, epoch>>
    PROVE  Numbered'
BY DEF Numbered

LEMMA AllNumbered == Spec => []Numbered
<1>1. Init => Numbered BY LogAssumption DEF Init, Numbered, Epochs
<1>2. IInv /\ IInv' /\ Numbered /\ [Next]_vars => Numbered'
  <2> SUFFICES ASSUME IInv, IInv', Numbered, [Next]_vars PROVE Numbered'
    OBVIOUS
  <2>1. lastSeq \in Nat /\ lastSeq' \in Nat /\ epoch \in Epochs /\ MaxSeq \in Nat
    BY LogAssumption DEF IInv, TypeOK
  <2>2. \A res \in Resources, i \in {1, 2} : lastSeq + i <= MaxSeq =>
          /\ RowAt(i, res) \in Row
          /\ RowAt(i, res).seq = lastSeq + i /\ RowAt(i, res).epoch = epoch
    BY RowAtType DEF IInv, RowAt
  <2>3. ASSUME NEW res \in Resources, Publish(res) \/ PublishTorn(res) PROVE Numbered'
    <3>1. PICK e \in Row : e = RowAt(1, res) /\ e.seq = lastSeq + 1 /\ e.epoch = epoch
      BY <2>1, <2>2, <2>3 DEF Publish, PublishTorn
    <3>2. /\ committed' = committed \cup {e} /\ lastSeq' = lastSeq + 1
          /\ epochFirst' \in {epochFirst, RecordEpochFirst(lastSeq + 1)} /\ UNCHANGED epoch
      BY <3>1, <2>3 DEF Publish, PublishTorn, modeVars
    <3>3. PICK N \in SUBSET Row : N = {e} BY <3>1
    <3>4. \A n \in (lastSeq + 1)..lastSeq' : n = lastSeq + 1 BY <2>1, <3>2
    <3>5. \A n \in (lastSeq + 1)..lastSeq' : \E x \in N : x.seq = n BY <3>1, <3>3, <3>4
    <3> QED BY <2>1, <3>1, <3>2, <3>3, <3>5, NumbersAppended
  <2>4. ASSUME NEW r1 \in Resources, NEW r2 \in Resources, PublishBatch(r1, r2)
        PROVE  Numbered'
    <3>1. PICK e \in Row : e = RowAt(1, r1) /\ e.seq = lastSeq + 1 /\ e.epoch = epoch
      BY <2>1, <2>2, <2>4 DEF PublishBatch
    <3>2. PICK f \in Row : f = RowAt(2, r2) /\ f.seq = lastSeq + 2 /\ f.epoch = epoch
      BY <2>1, <2>2, <2>4 DEF PublishBatch
    <3>3. /\ committed' = committed \cup {e, f} /\ lastSeq' = lastSeq + 2
          /\ epochFirst' = RecordEpochFirst(lastSeq + 1) /\ UNCHANGED epoch
      BY <3>1, <3>2, <2>4 DEF PublishBatch, modeVars
    <3>4. PICK N \in SUBSET Row : N = {e, f} BY <3>1, <3>2
    <3>5. \A n \in (lastSeq + 1)..lastSeq' : n \in {lastSeq + 1, lastSeq + 2}
      BY <2>1, <3>3
    <3>6. \A n \in (lastSeq + 1)..lastSeq' : \E x \in N : x.seq = n
      BY <3>1, <3>2, <3>4, <3>5
    <3> QED BY <2>1, <3>1, <3>2, <3>3, <3>4, <3>6, NumbersAppended
  <2>5. ASSUME NEW k, NEW c, NEW n, Prune(k, c, n) PROVE Numbered'
    BY <2>5, NumbersKept DEF Prune, modeVars
  <2>6. ASSUME NEW r \in Resources, DeleteByResource(r) PROVE Numbered'
    BY <2>6, NumbersKept DEF DeleteByResource, modeVars
  <2>7. ASSUME \/ \E s \in 0..MaxSeq : ReplayStart(s)
               \/ \E n \in PageSizes : ReplayNext(n)
               \/ ReplayGone \/ AppendRefused \/ EnterReadOnly \/ ExitReadOnly \/ Tick
               \/ UNCHANGED vars
        PROVE  Numbered'
    BY <2>7, NumbersKept DEF ReplayStart, ReplayNext, ReplayGone, AppendRefused, EnterReadOnly,
       ExitReadOnly, Tick, vars, logVars, modeVars, history
  <2>8. CASE Reopen
    <3>1. UNCHANGED <<committed, lastSeq, epochFirst>> /\ epoch' = epoch + 1 /\ epoch' \in Epochs
      BY <2>8 DEF Reopen, logVars, history, IInv, TypeOK
    <3>2. epochFirst[epoch'] = 0 BY <2>1, <3>1 DEF Numbered, Epochs
    <3> QED BY <2>1, <3>1, <3>2 DEF Numbered, Epochs
  <2> QED BY <2>3, <2>4, <2>5, <2>6, <2>7, <2>8 DEF Next
<1> QED BY <1>1, <1>2, Inductive, PTL DEF Spec

(* Nobody is told too-old who has lost nothing: where the log still has a  *)
(* row of this epoch, an event of it after the cursor is gone              *)
(* (replayPage, oldestSeq).                                                *)
THEOREM TooOldIsRealAlways == Spec => []TooOldIsReal
<1>1. IInv /\ Numbered => TooOldIsReal
  <2> SUFFICES ASSUME IInv, Numbered, NEW since \in 0..MaxSeq, TooOld(since),
                      NEW r \in EpochRows
               PROVE  \E e \in committed : e.epoch = epoch /\ e.seq > since /\ e \notin rows
    BY DEF TooOldIsReal
  <2>1. PICK first \in 0..MaxSeq : first = epochFirst[epoch]
    BY DEF IInv, TypeOK
  <2>2. /\ first # 0 /\ r \in rows
        /\ \A q \in EpochRows : q.seq > first /\ q.seq > since + 1
    BY <2>1 DEF TooOld, FloorMoved, EpochRows
  <2>3. r.seq \in Nat /\ r.seq <= lastSeq /\ lastSeq \in Nat /\ MaxSeq \in Nat
    BY <2>2, LogAssumption DEF IInv, TypeOK, Recorded, Row
  <2>4. PICK n \in Nat : n = IF since + 1 >= first THEN since + 1 ELSE first
    BY <2>3
  <2>5. n \in 1..lastSeq /\ n > since /\ n >= first BY <2>2, <2>3, <2>4
  <2>6. PICK e \in committed : e.seq = n BY <2>5 DEF Numbered
  <2>7. e.epoch = epoch BY <2>1, <2>2, <2>5, <2>6 DEF Numbered
  <2>8. e \notin rows
    <3> SUFFICES ASSUME e \in rows PROVE FALSE OBVIOUS
    <3>1. e.seq > first /\ e.seq > since + 1 BY <2>2, <2>7 DEF EpochRows
    <3> QED BY <2>3, <2>4, <2>6, <3>1
  <2> QED BY <2>5, <2>6, <2>7, <2>8
<1> QED BY <1>1, Inductive, AllNumbered, PTL
=============================================================================
