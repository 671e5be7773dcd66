---------------------------- MODULE StoreProofs ----------------------------
(***************************************************************************)
(* Where the records read from the bus are in the store, and what its      *)
(* counter says, for any sizes, any callers and any failing statements.    *)
(***************************************************************************)
EXTENDS Store, LogBusProofs

Table == [logs : SUBSET Nat, devices : SUBSET Device,
          sessions : [Session -> {"none", "open", "ended"}]]

StoreShape ==
    /\ seq \in Nat
    /\ queue \in [Sub -> Seq(Nat)] /\ taken \in [Sub -> Nat] /\ last \in [Sub -> Nat]
    /\ pending \in Seq(Nat) /\ batch \in Seq(Nat) /\ rowsWritten \in Nat /\ failures \in Nat
    /\ disk \in Table /\ db \in Table
    /\ discarded \in SUBSET Nat
    /\ consumer \in {"off", "started", "get", "insert", "commit", "done"}

\* What waits in the store's queue is newer than what it has read, and in order.
QueueAhead ==
    /\ last[writer] <= seq
    /\ Ascending(queue[writer])
    /\ \A i \in 1 .. Len(queue[writer]) :
          last[writer] < queue[writer][i] /\ queue[writer][i] <= seq

\* The rows in hand are in one place, no more of them than flush_rows.
OnePlace ==
    /\ consumer # "get" => pending = << >>
    /\ consumer \notin {"insert", "commit"} => batch = << >>
    /\ Len(pending) < FlushRows /\ Len(batch) <= FlushRows
    /\ ~connected => consumer = "done"

\* They were read in order and are nowhere else.
RowsAreNew ==
    /\ Ascending(pending) /\ Ascending(batch)
    /\ \A n \in discarded \union db.logs \union ToSet(pending) \union ToSet(batch) :
          n <= last[writer]
    /\ ToSet(pending) \intersect (discarded \union db.logs) = {}
    /\ ToSet(batch) \intersect discarded = {}
    /\ consumer = "insert" => ToSet(batch) \intersect db.logs = {}
    /\ disk.logs \subseteq db.logs

\* Without a failure only the batch may be half way to the disk.
CountIsExact ==
    failures = 0 =>
        /\ db.logs \ disk.logs \subseteq ToSet(batch)
        /\ Cardinality(disk.logs \ ToSet(batch)) = rowsWritten
        /\ consumer = "commit" => ToSet(batch) \subseteq db.logs

\* The inductive invariant.
StoreInv ==
    /\ StoreShape /\ QueueAhead /\ OnePlace /\ RowsAreNew /\ CountIsExact
    /\ EveryRowInOneStage

-----------------------------------------------------------------------------
LEMMA FiniteLogs ==
    ASSUME StoreShape, RowsAreNew
    PROVE  /\ IsFiniteSet(discarded) /\ IsFiniteSet(db.logs) /\ IsFiniteSet(disk.logs)
           /\ Cardinality(discarded) \in Nat
<1>1. last[writer] \in Nat /\ discarded \in SUBSET Nat /\ db.logs \in SUBSET Nat
  BY StoreAssumption DEF StoreShape, Table
<1>2. IsFiniteSet(discarded) /\ IsFiniteSet(db.logs)
  BY <1>1, FS_BoundedSetOfNaturals DEF RowsAreNew
<1> QED
  BY <1>2, FS_Subset, FS_CardinalityType DEF RowsAreNew

-----------------------------------------------------------------------------
LEMMA StoreInit == Init => StoreInv
<1> SUFFICES ASSUME Init PROVE StoreInv
  OBVIOUS
<1> USE StoreAssumption
<1>1. StoreShape
  BY DEF Init, BusInit, StoreShape, Table
<1>2. ToSet(batch) = {} /\ ToSet(pending) = {} /\ disk.logs = {} /\ db.logs = {}
  BY DEF Init, ToSet
<1>3. QueueAhead /\ OnePlace
  BY DEF Init, BusInit, QueueAhead, OnePlace, Ascending
<1>4. RowsAreNew
  BY <1>2 DEF Init, RowsAreNew, Ascending
<1>5. CountIsExact
  BY <1>2, FS_EmptySet DEF Init, CountIsExact
<1>6. EveryRowInOneStage
  <2>1. Cardinality(discarded) = 0
    BY FS_EmptySet DEF Init
  <2>2. taken[writer] = 0 /\ Len(pending) = 0 /\ Len(batch) = 0 /\ rowsWritten = 0 /\ failures = 0
    BY DEF Init, BusInit
  <2> QED
    BY <2>1, <2>2 DEF EveryRowInOneStage
<1> QED
  BY <1>1, <1>3, <1>4, <1>5, <1>6 DEF StoreInv

\* Where a pass leaves the rows it is given.
LEMMA PassCases ==
    ASSUME NEW rows \in Seq(Nat), Len(rows) <= FlushRows, NEW elapsed, NextPass(rows, elapsed)
    PROVE  \/ batch' = rows /\ pending' = << >> /\ consumer' = "insert"
           \/ batch' = << >> /\ pending' = rows /\ consumer' = "get" /\ Len(rows) < FlushRows
           \/ batch' = << >> /\ pending' = << >> /\ consumer' = "done" /\ rows = << >>
  BY StoreAssumption DEF NextPass, Finish, FlushDue

LEMMA PassInv ==
    ASSUME NEW rows \in Seq(Nat), Len(rows) <= FlushRows, Ascending(rows),
           NEW elapsed, NextPass(rows, elapsed), connected',
           seq' \in Nat, queue' \in [Sub -> Seq(Nat)], taken' \in [Sub -> Nat],
           last' \in [Sub -> Nat], rowsWritten' \in Nat, failures' \in Nat,
           disk' \in Table, db' \in Table, discarded' \in SUBSET Nat,
           QueueAhead',
           \A n \in discarded' \union (db').logs \union ToSet(rows) : n <= last'[writer],
           ToSet(rows) \intersect (discarded' \union (db').logs) = {},
           (disk').logs \subseteq (db').logs,
           failures' = 0 => (db').logs = (disk').logs /\ Cardinality((disk').logs) = rowsWritten',
           taken'[writer] = Len(rows) + rowsWritten' + Cardinality(discarded'),
           Cardinality(discarded') \in Nat, Cardinality(discarded') <= failures' * FlushRows
    PROVE  StoreInv'
<1> USE StoreAssumption
<1>1. \/ batch' = rows /\ pending' = << >> /\ consumer' = "insert"
      \/ batch' = << >> /\ pending' = rows /\ consumer' = "get" /\ Len(rows) < FlushRows
      \/ batch' = << >> /\ pending' = << >> /\ consumer' = "done" /\ rows = << >>
  BY PassCases
<1>2. ToSet(<< >>) = {} /\ Ascending(<< >>) /\ Len(<< >>) = 0
  BY DEF ToSet, Ascending
<1>3. /\ batch' \in Seq(Nat) /\ pending' \in Seq(Nat)
      /\ consumer' \in {"off", "started", "get", "insert", "commit", "done"}
  <2>1. << >> \in Seq(Nat)
    OBVIOUS
  <2>2. batch' \in {rows, << >>} /\ pending' \in {rows, << >>}
    BY <1>1
  <2>3. consumer' \in {"get", "insert", "done"}
    BY <1>1
  <2> QED
    BY <2>1, <2>2, <2>3
<1>4. StoreShape'
  BY <1>3 DEF StoreShape
<1>5. OnePlace'
  BY <1>1, <1>2 DEF OnePlace
<1>6. RowsAreNew'
  BY <1>1, <1>2 DEF RowsAreNew
<1>7. CountIsExact'
  <2>1. \A n \in ToSet(rows) : n \notin (disk').logs
    OBVIOUS
  <2>2. (disk').logs \ ToSet(batch') = (disk').logs
    BY <1>1, <1>2, <2>1
  <2>3. consumer' # "commit"
    BY <1>1
  <2> QED
    BY <2>2, <2>3 DEF CountIsExact
<1>8. EveryRowInOneStage'
  <2>1. Len(pending') + Len(batch') = Len(rows)
    <3>1. Len(rows) \in Nat
      OBVIOUS
    <3>2. CASE batch' = rows /\ pending' = << >>
      BY ONLY <3>1, <3>2, <1>2
    <3>3. CASE batch' = << >> /\ pending' = rows
      BY ONLY <3>1, <3>3, <1>2
    <3>4. CASE batch' = << >> /\ pending' = << >> /\ rows = << >>
      BY ONLY <3>1, <3>4, <1>2
    <3> QED
      BY ONLY <1>1, <3>2, <3>3, <3>4
  <2>2. Len(pending') \in Nat /\ Len(batch') \in Nat
    BY <1>3
  <2>3. taken'[writer] = Len(pending') + Len(batch') + rowsWritten' + Cardinality(discarded')
    BY <2>1, <2>2
  <2> QED
    BY <2>3 DEF EveryRowInOneStage
<1> QED
  BY <1>4, <1>5, <1>6, <1>7, <1>8 DEF StoreInv

\* A newer record at the end of a sequence between two bounds.
LEMMA NewestLast ==
    ASSUME NEW s \in Seq(Nat), NEW lo \in Nat, NEW hi \in Nat, lo <= hi, Ascending(s),
           \A i \in 1 .. Len(s) : lo < s[i] /\ s[i] <= hi
    PROVE  /\ Ascending(Append(s, hi + 1))
           /\ \A i \in 1 .. Len(Append(s, hi + 1)) :
                 lo < Append(s, hi + 1)[i] /\ Append(s, hi + 1)[i] <= hi + 1
<1> DEFINE t == Append(s, hi + 1)
<1>1. /\ Len(s) \in Nat /\ Len(t) = Len(s) + 1 /\ t[Len(s) + 1] = hi + 1
      /\ \A i \in 1 .. Len(s) : t[i] = s[i] /\ s[i] \in Nat
  OBVIOUS
<1> HIDE DEF t
<1>2. Ascending(t)
  <2> SUFFICES ASSUME NEW i \in 1 .. Len(t), NEW j \in 1 .. Len(t), i < j PROVE t[i] < t[j]
    BY DEF Ascending
  <2>1. i \in 1 .. Len(s)
    BY <1>1
  <2>2. CASE j \in 1 .. Len(s)
    BY <1>1, <2>1, <2>2 DEF Ascending
  <2>3. CASE j = Len(s) + 1
    <3>1. t[j] = hi + 1
      BY ONLY <1>1, <2>3
    <3>2. t[i] = s[i] /\ s[i] \in Nat
      BY <1>1, <2>1
    <3>3. s[i] <= hi
      BY <2>1
    <3> QED
      BY ONLY <3>1, <3>2, <3>3, hi \in Nat
  <2> QED
    BY <1>1, <2>2, <2>3
<1>3. \A i \in 1 .. Len(t) : lo < t[i] /\ t[i] <= hi + 1
  BY <1>1
<1> QED
  BY <1>2, <1>3 DEF t

\* What a step needs to keep that moves no row.
LEMMA RowsStay ==
    ASSUME StoreInv, StoreShape', QueueAhead',
           UNCHANGED <<pending, batch, rowsWritten, discarded, failures, connected>>,
           taken'[writer] = taken[writer], last'[writer] = last[writer],
           consumer' = consumer \/ (consumer = "off" /\ consumer' = "started"),
           (db').logs = db.logs, (disk').logs = disk.logs
    PROVE  StoreInv'
<1>1. OnePlace'
  BY DEF StoreInv, OnePlace
<1>2. RowsAreNew'
  BY DEF StoreInv, RowsAreNew
<1>3. CountIsExact'
  BY DEF StoreInv, CountIsExact
<1>4. EveryRowInOneStage'
  BY DEF StoreInv, EveryRowInOneStage
<1> QED
  BY <1>1, <1>2, <1>3, <1>4 DEF StoreInv

LEMMA ProduceInv == StoreInv /\ Produce => StoreInv'
<1> SUFFICES ASSUME StoreInv, Produce PROVE StoreInv'
  OBVIOUS
<1> USE StoreAssumption, QueueSizeAssumption DEF StoreInv
<1> DEFINE q == queue[writer]
<1>1. /\ seq' = seq + 1 /\ taken' = taken /\ last' = last
      /\ queue' = [s \in Sub |-> IF s \in open
                                 THEN PushBounded(queue[s], seq + 1, QueueSize[s])
                                 ELSE queue[s]]
      /\ UNCHANGED storeVars
  BY DEF Produce, Publish, NextSeq
<1>2. \A s \in Sub : PushBounded(queue[s], seq + 1, QueueSize[s]) \in Seq(Nat)
  <2>1. ASSUME NEW s \in Sub PROVE PushBounded(queue[s], seq + 1, QueueSize[s]) \in Seq(Nat)
    <3>1. queue[s] \in Seq(Nat) /\ seq + 1 \in Nat /\ QueueSize[s] \in Nat \ {0}
      BY DEF StoreShape
    <3>2. Append(queue[s], seq + 1) \in Seq(Nat)
      BY <3>1
    <3>3. Len(queue[s]) >= QueueSize[s] => Append(Tail(queue[s]), seq + 1) \in Seq(Nat)
      <4>1. ASSUME Len(queue[s]) >= QueueSize[s] PROVE Tail(queue[s]) \in Seq(Nat)
        BY <3>1, <4>1
      <4> QED
        BY <3>1, <4>1
    <3> QED
      BY <3>1, <3>2, <3>3 DEF PushBounded
  <2> QED
    BY <2>1
<1>3. StoreShape'
  BY <1>1, <1>2 DEF StoreShape, storeVars
<1>4. QueueAhead'
  <2>1. q \in Seq(Nat) /\ seq \in Nat /\ last[writer] \in Nat /\ QueueSize[writer] \in Nat \ {0}
    BY DEF StoreShape
  <2>0. /\ last[writer] <= seq /\ Ascending(q)
        /\ \A i \in 1 .. Len(q) : last[writer] < q[i] /\ q[i] <= seq
    BY DEF QueueAhead
  <2>2. CASE queue'[writer] = q
    BY <2>1, <2>2, <1>1 DEF QueueAhead
  <2>3. CASE queue'[writer] = Append(q, seq + 1)
    <3>1. Ascending(Append(q, seq + 1)) /\ \A i \in 1 .. Len(Append(q, seq + 1)) :
              last[writer] < Append(q, seq + 1)[i] /\ Append(q, seq + 1)[i] <= seq + 1
      BY <2>0, <2>1, NewestLast
    <3> QED
      BY <3>1, <2>1, <2>0, <2>3, <1>1 DEF QueueAhead
  <2>4. CASE queue'[writer] = Append(Tail(q), seq + 1) /\ Len(q) > 0
    <3>1. /\ Tail(q) \in Seq(Nat) /\ Len(Tail(q)) = Len(q) - 1
          /\ \A i \in 1 .. Len(Tail(q)) : Tail(q)[i] = q[i + 1]
      BY <2>1, <2>4
    <3>2. /\ Ascending(Tail(q))
          /\ \A i \in 1 .. Len(Tail(q)) : last[writer] < Tail(q)[i] /\ Tail(q)[i] <= seq
      BY <3>1, <2>0, <2>1 DEF Ascending
    <3>3. Ascending(Append(Tail(q), seq + 1)) /\ \A i \in 1 .. Len(Append(Tail(q), seq + 1)) :
              last[writer] < Append(Tail(q), seq + 1)[i] /\ Append(Tail(q), seq + 1)[i] <= seq + 1
      BY <3>1, <3>2, <2>0, <2>1, NewestLast
    <3> QED
      BY <3>3, <2>1, <2>0, <2>4, <1>1 DEF QueueAhead
  <2>5. \/ queue'[writer] = q
        \/ queue'[writer] = Append(q, seq + 1)
        \/ queue'[writer] = Append(Tail(q), seq + 1) /\ Len(q) > 0
    BY <1>1, <2>1 DEF PushBounded
  <2> QED
    BY <2>2, <2>3, <2>4, <2>5
<1> QED
  BY <1>1, <1>3, <1>4, RowsStay DEF storeVars

LEMMA RunInv == ASSUME StoreInv, Run PROVE StoreInv'
<1> USE DEF StoreInv
<1>1. /\ UNCHANGED <<seq, queue, taken, last>> /\ consumer = "off" /\ consumer' = "started"
      /\ UNCHANGED <<stop, pending, batch, rowsWritten, disk, db, connected, caller,
                     failures, discarded>>
  BY DEF Run, Subscribe
<1>2. StoreShape' /\ QueueAhead'
  BY <1>1 DEF StoreShape, QueueAhead
<1> QED
  BY <1>1, <1>2, RowsStay

LEMMA StopInv == ASSUME StoreInv, Stop PROVE StoreInv'
<1> USE DEF StoreInv
<1>1. /\ UNCHANGED <<seq, queue, taken, last>>
      /\ UNCHANGED <<consumer, pending, batch, rowsWritten, disk, db, connected,
                     failures, discarded>>
  BY DEF Stop, busVars
<1>2. StoreShape' /\ QueueAhead'
  BY <1>1 DEF StoreShape, QueueAhead
<1> QED
  BY <1>1, <1>2, RowsStay

\* A pass that has nothing to flush yet.
LEMMA StartInv == ASSUME StoreInv, Start \/ Timeout PROVE StoreInv'
<1> USE StoreAssumption DEF StoreInv
<1>1. /\ BusFrame /\ PassFrame /\ UNCHANGED <<rowsWritten, disk, db, failures, discarded>>
      /\ consumer \in {"started", "get"}
  BY DEF Start, Timeout
<1>2. PICK elapsed : NextPass(pending, elapsed)
  BY DEF Start, Timeout
<1>3. batch = << >> /\ ToSet(batch) = {} /\ Len(batch) = 0 /\ connected'
  BY <1>1 DEF OnePlace, ToSet, PassFrame
<1>4. /\ seq' \in Nat /\ queue' \in [Sub -> Seq(Nat)] /\ taken' \in [Sub -> Nat]
      /\ last' \in [Sub -> Nat] /\ rowsWritten' \in Nat /\ failures' \in Nat
      /\ disk' \in Table /\ db' \in Table /\ discarded' \in SUBSET Nat
      /\ QueueAhead'
  BY <1>1 DEF StoreShape, QueueAhead, BusFrame
<1>5. /\ pending \in Seq(Nat) /\ Len(pending) <= FlushRows /\ Ascending(pending)
  BY DEF StoreShape, OnePlace, RowsAreNew
<1>6. /\ \A n \in discarded' \union (db').logs \union ToSet(pending) : n <= last'[writer]
      /\ ToSet(pending) \intersect (discarded' \union (db').logs) = {}
      /\ (disk').logs \subseteq (db').logs
  BY <1>1 DEF RowsAreNew, BusFrame
<1>7. failures' = 0 => (db').logs = (disk').logs /\ Cardinality((disk').logs) = rowsWritten'
  <2>1. disk.logs \ ToSet(batch) = disk.logs
    BY <1>3
  <2> QED
    BY <1>1, <1>3, <2>1 DEF CountIsExact, RowsAreNew
<1>8. /\ taken'[writer] = Len(pending) + rowsWritten' + Cardinality(discarded')
      /\ Cardinality(discarded') \in Nat /\ Cardinality(discarded') <= failures' * FlushRows
  <2>1. Cardinality(discarded) \in Nat
    BY FiniteLogs
  <2>2. taken[writer] = Len(pending) + Len(batch) + rowsWritten + Cardinality(discarded)
    BY DEF EveryRowInOneStage
  <2>3. Len(pending) \in Nat /\ rowsWritten \in Nat
    BY DEF StoreShape
  <2>4. taken[writer] = Len(pending) + rowsWritten + Cardinality(discarded)
    BY <2>1, <2>2, <2>3, <1>3
  <2> QED
    BY <1>1, <2>1, <2>4 DEF BusFrame, EveryRowInOneStage
<1> QED
  BY <1>2, <1>3, <1>4, <1>5, <1>6, <1>7, <1>8, PassInv

\* A record read from the bus is newer than all that the store has had.
LEMMA GetInv == ASSUME StoreInv, Get PROVE StoreInv'
<1> USE StoreAssumption DEF StoreInv
<1> DEFINE q == queue[writer]
           rows == Append(pending, Head(q))
<1>1. /\ q # << >> /\ queue' = [queue EXCEPT ![writer] = Tail(@)]
      /\ taken' = [taken EXCEPT ![writer] = @ + 1]
      /\ last' = [last EXCEPT ![writer] = Head(q)]
      /\ seq' = seq /\ consumer = "get"
      /\ PassFrame /\ UNCHANGED <<rowsWritten, disk, db, failures, discarded>>
  BY DEF Get, Dequeue
<1>2. PICK elapsed \in BOOLEAN : NextPass(rows, elapsed)
  BY DEF Get
<1>3. batch = << >> /\ ToSet(batch) = {} /\ Len(batch) = 0 /\ connected'
  BY <1>1 DEF OnePlace, ToSet, PassFrame
<1>4. /\ q \in Seq(Nat) /\ Head(q) \in Nat /\ Head(q) = q[1] /\ Len(q) >= 1
      /\ Tail(q) \in Seq(Nat) /\ Len(Tail(q)) = Len(q) - 1
      /\ \A i \in 1 .. Len(Tail(q)) : Tail(q)[i] = q[i + 1]
  BY <1>1 DEF StoreShape
<1>5. /\ last[writer] \in Nat /\ seq \in Nat /\ last[writer] < Head(q) /\ Head(q) <= seq
  BY <1>4 DEF StoreShape, QueueAhead
<1>6. last'[writer] = Head(q) /\ queue'[writer] = Tail(q) /\ taken'[writer] = taken[writer] + 1
  BY <1>1 DEF StoreShape
<1>7. QueueAhead'
  <2>1. Ascending(Tail(q))
    <3>1. Ascending(q) /\ Len(q) \in Nat
      BY <1>4 DEF QueueAhead
    <3>2. \A i \in 1 .. Len(Tail(q)) : i + 1 \in 1 .. Len(q)
      BY <1>4
    <3>3. \A i, j \in 1 .. Len(Tail(q)) : i < j => i + 1 < j + 1
      BY <1>4
    <3> QED
      BY <3>1, <3>2, <3>3, <1>4 DEF Ascending
  <2>2. \A i \in 1 .. Len(Tail(q)) : q[1] < Tail(q)[i] /\ Tail(q)[i] <= seq
    BY <1>4 DEF QueueAhead, Ascending
  <2> QED
    BY <2>1, <2>2, <1>1, <1>4, <1>5, <1>6 DEF QueueAhead
<1>8. /\ seq' \in Nat /\ queue' \in [Sub -> Seq(Nat)] /\ taken' \in [Sub -> Nat]
      /\ last' \in [Sub -> Nat] /\ rowsWritten' \in Nat /\ failures' \in Nat
      /\ disk' \in Table /\ db' \in Table /\ discarded' \in SUBSET Nat
  BY <1>1, <1>4 DEF StoreShape
<1>9. /\ pending \in Seq(Nat) /\ Len(pending) < FlushRows /\ Ascending(pending)
      /\ \A i \in 1 .. Len(pending) : pending[i] \in ToSet(pending) /\ pending[i] \in Nat
  BY DEF StoreShape, OnePlace, RowsAreNew, ToSet
<1>10. \A i \in 1 .. Len(pending) : pending[i] <= last[writer]
  BY <1>9 DEF RowsAreNew
<1>11. /\ rows \in Seq(Nat) /\ Len(rows) = Len(pending) + 1 /\ rows[Len(pending) + 1] = Head(q)
       /\ \A i \in 1 .. Len(pending) : rows[i] = pending[i]
  BY <1>4, <1>9
<1>12. Len(pending) \in Nat /\ Len(rows) <= FlushRows
  BY <1>9, <1>11
<1>13. ToSet(rows) = ToSet(pending) \union {Head(q)}
  <2>1. ToSet(rows) = {rows[i] : i \in 1 .. Len(pending) + 1}
    BY <1>11 DEF ToSet
  <2>2. ToSet(pending) = {pending[i] : i \in 1 .. Len(pending)}
    BY <1>9 DEF ToSet
  <2> QED
    BY <2>1, <2>2, <1>11, <1>12
<1> HIDE DEF rows
<1>14. Ascending(rows)
  <2> SUFFICES ASSUME NEW i \in 1 .. Len(rows), NEW j \in 1 .. Len(rows), i < j
               PROVE  rows[i] < rows[j]
    BY DEF Ascending
  <2>1. i \in 1 .. Len(pending)
    BY <1>11, <1>12
  <2>2. CASE j \in 1 .. Len(pending)
    BY <1>9, <1>11, <2>1, <2>2 DEF Ascending
  <2>3. CASE j = Len(pending) + 1
    BY <1>5, <1>9, <1>10, <1>11, <2>1, <2>3
  <2>4. j \in 1 .. Len(pending) + 1
    BY <1>11
  <2> QED
    BY ONLY <1>12, <2>2, <2>3, <2>4
<1>15. \A n \in discarded \union db.logs \union ToSet(pending) : n \in Nat /\ n < Head(q)
  <2>1. \A n \in discarded \union db.logs \union ToSet(pending) : n \in Nat
    BY <1>9 DEF StoreShape, Table, ToSet
  <2> QED
    BY <2>1, <1>5, <1>4 DEF RowsAreNew
<1>16. /\ \A n \in discarded' \union (db').logs \union ToSet(rows) : n <= last'[writer]
       /\ ToSet(rows) \intersect (discarded' \union (db').logs) = {}
       /\ (disk').logs \subseteq (db').logs
  <2>1. Head(q) \notin discarded \union db.logs
    BY <1>15, <1>4
  <2> QED
    BY <2>1, <1>1, <1>4, <1>6, <1>13, <1>15 DEF RowsAreNew
<1>17. failures' = 0 => (db').logs = (disk').logs /\ Cardinality((disk').logs) = rowsWritten'
  <2>1. disk.logs \ ToSet(batch) = disk.logs
    BY <1>3
  <2> QED
    BY <1>1, <1>3, <2>1 DEF CountIsExact, RowsAreNew
<1>18. /\ taken'[writer] = Len(rows) + rowsWritten' + Cardinality(discarded')
       /\ Cardinality(discarded') \in Nat /\ Cardinality(discarded') <= failures' * FlushRows
  <2>1. Cardinality(discarded) \in Nat
    BY FiniteLogs
  <2>2. taken[writer] = Len(pending) + Len(batch) + rowsWritten + Cardinality(discarded)
    BY DEF EveryRowInOneStage
  <2>3. Len(pending) \in Nat /\ rowsWritten \in Nat
    BY DEF StoreShape
  <2>4. taken'[writer] = Len(rows) + rowsWritten + Cardinality(discarded)
    BY <2>1, <2>2, <2>3, <1>3, <1>6, <1>11
  <2> QED
    BY <1>1, <2>1, <2>4 DEF EveryRowInOneStage
<1> QED
  BY <1>2, <1>3, <1>7, <1>8, <1>11, <1>12, <1>14, <1>16, <1>17, <1>18, PassInv

-----------------------------------------------------------------------------
(* The flush *)

LEMMA InsertInv == ASSUME StoreInv, Insert PROVE StoreInv'
<1> USE StoreAssumption DEF StoreInv
<1>1. /\ UNCHANGED <<seq, queue, taken, last, pending, batch, rowsWritten, disk, connected,
                     failures, discarded>>
      /\ consumer = "insert" /\ consumer' = "commit"
      /\ db' = [db EXCEPT !.logs = @ \union ToSet(batch)]
  BY DEF Insert, busVars
<1>2. /\ ToSet(batch) \subseteq Nat
      /\ db' \in Table /\ (db').logs = db.logs \union ToSet(batch)
  <2>1. ToSet(batch) \subseteq Nat
    BY DEF StoreShape, ToSet
  <2>2. db \in Table
    BY DEF StoreShape
  <2> QED
    BY <1>1, <2>1, <2>2 DEF Table
<1>3. StoreShape' /\ QueueAhead'
  BY <1>1, <1>2 DEF StoreShape, QueueAhead
<1>4. OnePlace'
  BY <1>1 DEF OnePlace
<1>5. pending = << >> /\ ToSet(pending) = {}
  BY <1>1 DEF OnePlace, ToSet
<1>6. RowsAreNew'
  BY <1>1, <1>2, <1>5 DEF RowsAreNew
<1>7. CountIsExact'
  BY <1>1, <1>2 DEF CountIsExact
<1>8. EveryRowInOneStage'
  BY <1>1 DEF EveryRowInOneStage
<1> QED
  BY <1>3, <1>4, <1>6, <1>7, <1>8

\* What the end of a flush has in common, committed or failed: nothing is
\* pending, and the pass has nothing to flush.
LEMMA FlushEnds ==
    ASSUME StoreInv, BusFrame, PassFrame, consumer \in {"insert", "commit"},
           NextPass(pending, FALSE),
           rowsWritten' \in Nat, failures' \in Nat, disk' \in Table, db' \in Table,
           discarded' \in SUBSET Nat,
           (db').logs \subseteq db.logs \union ToSet(batch),
           discarded' \subseteq discarded \union ToSet(batch),
           (disk').logs \subseteq (db').logs,
           failures' = 0 => (db').logs = (disk').logs /\ Cardinality((disk').logs) = rowsWritten',
           rowsWritten' + Cardinality(discarded')
               = rowsWritten + Len(batch) + Cardinality(discarded),
           Cardinality(discarded') \in Nat, Cardinality(discarded') <= failures' * FlushRows
    PROVE  StoreInv'
<1> USE StoreAssumption DEF StoreInv
<1>1. pending = << >> /\ ToSet(pending) = {} /\ Len(pending) = 0 /\ connected'
  BY DEF OnePlace, ToSet, PassFrame
<1>2. pending \in Seq(Nat) /\ Len(pending) <= FlushRows /\ Ascending(pending)
  BY DEF StoreShape, OnePlace, RowsAreNew
<1>3. /\ seq' \in Nat /\ queue' \in [Sub -> Seq(Nat)] /\ taken' \in [Sub -> Nat]
      /\ last' \in [Sub -> Nat] /\ QueueAhead'
  BY DEF StoreShape, BusFrame, QueueAhead
<1>4. \A n \in discarded' \union (db').logs \union ToSet(pending) : n <= last'[writer]
  BY <1>1 DEF RowsAreNew, BusFrame
<1>5. taken'[writer] = Len(pending) + rowsWritten' + Cardinality(discarded')
  <2>1. taken'[writer] = Len(pending) + Len(batch) + rowsWritten + Cardinality(discarded)
    BY DEF EveryRowInOneStage, BusFrame
  <2>2. Len(batch) \in Nat /\ rowsWritten \in Nat /\ Cardinality(discarded) \in Nat
    BY FiniteLogs DEF StoreShape
  <2> QED
    BY <1>1, <2>1, <2>2
<1> QED
  BY <1>1, <1>2, <1>3, <1>4, <1>5, PassInv

LEMMA CommitInv == ASSUME StoreInv, Commit PROVE StoreInv'
<1> USE StoreAssumption DEF StoreInv
<1>1. /\ consumer = "commit" /\ disk' = db /\ db' = db /\ failures' = failures
      /\ discarded' = discarded /\ rowsWritten' = rowsWritten + Len(batch)
      /\ NextPass(pending, FALSE) /\ BusFrame /\ PassFrame
  BY DEF Commit
<1>2. /\ Len(batch) \in Nat /\ rowsWritten \in Nat /\ Cardinality(discarded) \in Nat
      /\ failures \in Nat /\ db \in Table /\ discarded \in SUBSET Nat
  BY FiniteLogs DEF StoreShape
<1>3. failures' = 0 => (db').logs = (disk').logs /\ Cardinality((disk').logs) = rowsWritten'
  <2> SUFFICES ASSUME failures = 0 PROVE Cardinality(db.logs) = rowsWritten + Len(batch)
    BY <1>1
  <2> DEFINE old == disk.logs \ ToSet(batch)
  <2>1. db.logs = old \union ToSet(batch) /\ old \intersect ToSet(batch) = {}
    BY <1>1 DEF CountIsExact, RowsAreNew
  <2>2. IsFiniteSet(old)
    BY FiniteLogs, FS_Difference
  <2>3. IsFiniteSet(ToSet(batch)) /\ Cardinality(ToSet(batch)) = Len(batch)
    BY CountAscending DEF StoreShape, RowsAreNew
  <2>4. Cardinality(old) = rowsWritten
    BY DEF CountIsExact
  <2> HIDE DEF old
  <2> QED
    BY <2>1, <2>2, <2>3, <2>4, CountDisjoint
<1>4. rowsWritten' + Cardinality(discarded') = rowsWritten + Len(batch) + Cardinality(discarded)
  BY <1>1, <1>2
<1>5. Cardinality(discarded') \in Nat /\ Cardinality(discarded') <= failures' * FlushRows
  BY <1>1, <1>2 DEF EveryRowInOneStage
<1>6. rowsWritten' \in Nat /\ failures' \in Nat /\ disk' \in Table /\ db' \in Table
      /\ discarded' \in SUBSET Nat
  BY <1>1, <1>2
<1> QED
  BY <1>1, <1>3, <1>4, <1>5, <1>6, FlushEnds

\* What a failing call leaves has no row that was not there or in the batch,
\* and all that is committed.
LEMMA InsertedRows ==
    ASSUME StoreInv, NEW view \in Inserted
    PROVE  /\ view \in Table
           /\ disk.logs \subseteq view.logs /\ view.logs \subseteq db.logs \union ToSet(batch)
<1>1. PICK n \in 0 .. Len(batch) - 1 :
          view = [db EXCEPT !.logs = @ \union ToSet(SubSeq(batch, 1, n))]
  BY DEF Inserted
<1>2. ToSet(SubSeq(batch, 1, n)) \subseteq ToSet(batch) /\ ToSet(batch) \subseteq Nat
  <2>1. batch \in Seq(Nat) /\ n \in 0 .. Len(batch)
    BY DEF StoreInv, StoreShape
  <2>2. /\ Len(SubSeq(batch, 1, n)) = n
        /\ \A i \in 1 .. n : SubSeq(batch, 1, n)[i] = batch[i]
        /\ DOMAIN SubSeq(batch, 1, n) = 1 .. n
    BY <2>1
  <2> QED
    BY <2>1, <2>2 DEF ToSet
<1>3. db \in Table /\ disk.logs \subseteq db.logs
  BY DEF StoreInv, StoreShape, RowsAreNew
<1> QED
  BY <1>1, <1>2, <1>3 DEF Table

LEMMA OneMoreFailure ==
    ASSUME NEW n \in Nat, NEW f \in Nat, NEW k \in Nat, NEW size \in Nat,
           n <= f * size, k <= size
    PROVE  n + k <= (f + 1) * size
<1>1. (f + 1) * size = f * size + size
  OBVIOUS
<1>2. f * size \in Nat
  OBVIOUS
<1> QED
  BY <1>1, <1>2

LEMMA FlushFailsInv == ASSUME StoreInv, FlushFails PROVE StoreInv'
<1> USE StoreAssumption DEF StoreInv
<1>1. /\ consumer \in {"insert", "commit"} /\ disk' = disk /\ failures' = failures + 1
      /\ discarded' = discarded \union ToSet(batch) /\ rowsWritten' = rowsWritten
      /\ NextPass(pending, FALSE) /\ BusFrame /\ PassFrame
  BY DEF FlushFails
<1>2. /\ Len(batch) \in Nat /\ rowsWritten \in Nat /\ Cardinality(discarded) \in Nat
      /\ failures \in Nat /\ db \in Table /\ disk \in Table /\ discarded \in SUBSET Nat
      /\ disk.logs \subseteq db.logs /\ ToSet(batch) \subseteq Nat
  BY FiniteLogs DEF StoreShape, RowsAreNew, ToSet
<1>3. /\ db' \in Table /\ disk.logs \subseteq (db').logs
      /\ (db').logs \subseteq db.logs \union ToSet(batch)
  <2>1. CASE db' = disk
    BY <2>1, <1>2
  <2>2. CASE db' \in Inserted
    BY <2>2, InsertedRows
  <2>3. CASE db' = db
    BY <2>3, <1>2
  <2> QED
    BY <2>1, <2>2, <2>3 DEF FlushFails, AfterFailure
<1>4. Cardinality(discarded') = Cardinality(discarded) + Len(batch)
  <2>1. IsFiniteSet(ToSet(batch)) /\ Cardinality(ToSet(batch)) = Len(batch)
    BY CountAscending DEF StoreShape, RowsAreNew
  <2>2. discarded \intersect ToSet(batch) = {} /\ IsFiniteSet(discarded)
    BY FiniteLogs DEF RowsAreNew
  <2> QED
    BY <2>1, <2>2, <1>1, CountDisjoint
<1>5. Cardinality(discarded') <= failures' * FlushRows
  <2>1. Len(batch) <= FlushRows /\ Cardinality(discarded) <= failures * FlushRows
    BY DEF OnePlace, EveryRowInOneStage
  <2> QED
    BY <2>1, <1>1, <1>2, <1>4, OneMoreFailure
<1>6. rowsWritten' + Cardinality(discarded') = rowsWritten + Len(batch) + Cardinality(discarded)
  BY <1>1, <1>2, <1>4
<1>7. /\ rowsWritten' \in Nat /\ failures' \in Nat /\ disk' \in Table
      /\ discarded' \in SUBSET Nat /\ Cardinality(discarded') \in Nat /\ failures' # 0
  <2>1. discarded' \in SUBSET Nat
    BY <1>1, <1>2
  <2>2. Cardinality(discarded') \in Nat
    BY <1>2, <1>4
  <2>3. failures' \in Nat /\ failures' # 0
    BY <1>1, <1>2
  <2> QED
    BY <1>1, <1>2, <2>1, <2>2, <2>3
<1>8. discarded' \subseteq discarded \union ToSet(batch) /\ (disk').logs \subseteq (db').logs
  BY <1>1, <1>3
<1> QED
  BY <1>1, <1>3, <1>5, <1>6, <1>7, <1>8, FlushEnds

-----------------------------------------------------------------------------
(* close() and the bookkeeping of other tasks *)

\* A step that may commit what is executed, or lose it, and moves no row in hand.
LEMMA TablesMove ==
    ASSUME StoreInv,
           UNCHANGED <<seq, queue, taken, last, consumer, pending, batch, rowsWritten, discarded>>,
           disk' \in Table, db' \in Table, failures' \in {failures, failures + 1},
           connected' \/ consumer = "done",
           disk.logs \subseteq (disk').logs, (disk').logs \subseteq (db').logs,
           (db').logs \subseteq db.logs,
           failures' = failures => (db').logs = db.logs \/ consumer = "done"
    PROVE  StoreInv'
<1> USE StoreAssumption DEF StoreInv
<1>1. StoreShape' /\ QueueAhead' /\ OnePlace'
  BY DEF StoreShape, QueueAhead, OnePlace
<1>2. RowsAreNew'
  BY DEF RowsAreNew
<1>3. CountIsExact'
  <2> SUFFICES ASSUME failures' = 0 PROVE CountIsExact'
    BY DEF CountIsExact
  <2>1. failures = 0 /\ failures' = failures
    BY DEF StoreShape
  <2>2. /\ db.logs \ disk.logs \subseteq ToSet(batch)
        /\ Cardinality(disk.logs \ ToSet(batch)) = rowsWritten
    BY <2>1 DEF CountIsExact
  <2>3. (disk').logs \ ToSet(batch) = disk.logs \ ToSet(batch)
    BY <2>2
  <2>4. consumer = "done" => ToSet(batch) = {}
    BY DEF OnePlace, ToSet
  <2> QED
    BY <2>1, <2>2, <2>3, <2>4 DEF CountIsExact
<1>4. EveryRowInOneStage'
  <2>1. Cardinality(discarded) \in Nat /\ FlushRows \in Nat /\ failures \in Nat
    BY FiniteLogs DEF StoreShape
  <2>2. Cardinality(discarded) <= failures' * FlushRows
    BY <2>1, OneMoreFailure DEF EveryRowInOneStage
  <2> QED
    BY <2>2 DEF EveryRowInOneStage
<1> QED
  BY <1>1, <1>2, <1>3, <1>4

LEMMA DisconnectInv == ASSUME StoreInv, Disconnect PROVE StoreInv'
<1>1. /\ UNCHANGED <<seq, queue, taken, last, consumer, pending, batch, rowsWritten, discarded>>
      /\ disk' = disk /\ db' = disk /\ failures' = failures /\ consumer = "done"
  BY DEF Disconnect, busVars
<1> QED
  BY <1>1, TablesMove DEF StoreInv, StoreShape, RowsAreNew

LEMMA ExecuteInv ==
    ASSUME StoreInv, NEW c, NEW tables \in Table, tables.logs = db.logs, Execute(c, tables)
    PROVE  StoreInv'
<1>1. /\ UNCHANGED <<seq, queue, taken, last, consumer, pending, batch, rowsWritten, discarded>>
      /\ disk' = disk /\ db' = tables /\ failures' = failures /\ connected'
  BY DEF Execute, busVars
<1> QED
  BY <1>1, TablesMove DEF StoreInv, StoreShape, RowsAreNew

LEMMA BookkeepInv == ASSUME StoreInv, Bookkeep PROVE StoreInv'
<1>0. db \in Table /\ disk \in Table /\ disk.logs \subseteq db.logs
  BY DEF StoreInv, StoreShape, RowsAreNew
<1>1. ASSUME NEW c \in Caller, NEW d \in Device, UpsertDevice(c, d) PROVE StoreInv'
  <2>1. [db EXCEPT !.devices = @ \union {d}] \in Table
    BY <1>0 DEF Table
  <2>2. [db EXCEPT !.devices = @ \union {d}].logs = db.logs
    BY <1>0 DEF Table
  <2> QED
    BY <1>1, <2>1, <2>2, ExecuteInv DEF UpsertDevice
<1>2. ASSUME NEW c \in Caller, NEW i \in Session, StartSession(c, i) PROVE StoreInv'
  <2>1. [db EXCEPT !.sessions[i] = "open"] \in Table
    BY <1>0 DEF Table
  <2>2. [db EXCEPT !.sessions[i] = "open"].logs = db.logs
    BY <1>0 DEF Table
  <2> QED
    BY <1>2, <2>1, <2>2, ExecuteInv DEF StartSession
<1>3. ASSUME NEW c \in Caller, NEW i \in Session, EndSession(c, i) PROVE StoreInv'
  <2>1. [db EXCEPT !.sessions[i] = "ended"] \in Table
    BY <1>0 DEF Table
  <2>2. [db EXCEPT !.sessions[i] = "ended"].logs = db.logs
    BY <1>0 DEF Table
  <2>3. CASE db.sessions[i] = "open"
    BY <1>3, <2>1, <2>2, <2>3, ExecuteInv DEF EndSession
  <2>4. CASE db.sessions[i] # "open"
    BY <1>0, <1>3, <2>4, ExecuteInv DEF EndSession
  <2> QED
    BY <2>3, <2>4
<1>4. ASSUME NEW c \in Caller, CallerCommit(c) PROVE StoreInv'
  <2>1. /\ UNCHANGED <<seq, queue, taken, last, consumer, pending, batch, rowsWritten, discarded>>
        /\ disk' \in {disk, db} /\ db' = db /\ failures' = failures /\ connected' = connected
    BY <1>4 DEF CallerCommit, busVars
  <2>2. connected' \/ consumer = "done"
    BY <2>1 DEF StoreInv, OnePlace
  <2> QED
    BY <1>0, <2>1, <2>2, TablesMove
<1>5. ASSUME NEW c \in Caller, CallerFails(c) PROVE StoreInv'
  <2>1. /\ UNCHANGED <<seq, queue, taken, last, consumer, pending, batch, rowsWritten, discarded>>
        /\ disk' = disk /\ db' \in {disk, db} /\ failures' = failures + 1 /\ connected'
    BY <1>5 DEF CallerFails, AfterFailure, busVars
  <2>2. failures' # failures
    BY <2>1 DEF StoreInv, StoreShape
  <2> QED
    BY <1>0, <2>1, <2>2, TablesMove
<1> QED
  BY <1>1, <1>2, <1>3, <1>4, <1>5 DEF Bookkeep

-----------------------------------------------------------------------------
LEMMA StoreStep == StoreInv /\ [Next]_vars => StoreInv'
<1> SUFFICES ASSUME StoreInv, [Next]_vars PROVE StoreInv'
  OBVIOUS
<1>1. CASE UNCHANGED vars
  BY <1>1 DEF vars, storeVars, busVars, StoreInv, StoreShape, QueueAhead, OnePlace,
     RowsAreNew, CountIsExact, EveryRowInOneStage
<1> QED
  BY <1>1, ProduceInv, RunInv, StartInv, GetInv, InsertInv, CommitInv, FlushFailsInv,
     StopInv, DisconnectInv, BookkeepInv
  DEF Next, Consume

LEMMA StoreAlways == Spec => []StoreInv
<1>1. Spec => Init /\ [][Next]_vars
  BY PTL DEF Spec
<1> QED
  BY <1>1, StoreInit, StoreStep, PTL

\* No record the store reads is forgotten or counted twice, and a statement
\* that fails costs one batch (_consume and _flush of store.py).
THEOREM RowsAccounted == Spec => []EveryRowInOneStage
<1>1. StoreInv => EveryRowInOneStage
  BY DEF StoreInv
<1> QED
  BY <1>1, StoreAlways, PTL

-----------------------------------------------------------------------------
(* The store among the subscribers of the bus *)

\* A step of the store is a step of the bus, except that the stop may be seen
\* when a get() returns: then the record is taken and the subscription ends.
LEMMA StoreStepOfBus ==
    [Next]_vars => \/ [BusNext]_busVars
                   \/ Dequeue(writer) /\ open' \subseteq open
<1> SUFFICES ASSUME [Next]_vars
             PROVE  [BusNext]_busVars \/ (Dequeue(writer) /\ open' \subseteq open)
  OBVIOUS
<1> USE StoreAssumption
<1>1. CASE Produce
  BY <1>1 DEF Produce, BusNext
<1>2. CASE Run
  BY <1>2 DEF Run, BusNext
<1>3. ASSUME NEW rows, NEW elapsed, NextPass(rows, elapsed)
      PROVE  open' = open \/ open' = open \ {writer}
  BY <1>3 DEF NextPass, Finish
<1>4. CASE Start \/ Timeout \/ Commit \/ FlushFails
  <2>1. BusFrame /\ (open' = open \/ open' = open \ {writer})
    BY <1>3, <1>4 DEF Start, Timeout, Commit, FlushFails
  <2>2. CASE open' = open
    BY <2>1, <2>2 DEF BusFrame, busVars
  <2>3. CASE writer \in open /\ open' = open \ {writer}
    BY <2>1, <2>3 DEF BusFrame, BusNext, Close
  <2> QED
    BY <2>1, <2>2, <2>3
<1>5. CASE Get
  BY <1>3, <1>5 DEF Get
<1>6. CASE Insert \/ Stop \/ Disconnect \/ Bookkeep \/ UNCHANGED vars
  BY <1>6 DEF Insert, Stop, Disconnect, Bookkeep, UpsertDevice, StartSession, EndSession,
    Execute, CallerCommit, CallerFails, vars
<1> QED
  BY <1>1, <1>2, <1>4, <1>5, <1>6 DEF Next, Consume

LEMMA StoreStepBusInv == BusInv /\ [Next]_vars => BusInv'
  BY StoreStepOfBus, StepInv, DequeueInv, StoreAssumption

LEMMA StoreBus == Spec => [](BusInv /\ StoreInv)
<1>1. Spec => Init /\ [][Next]_vars
  BY PTL DEF Spec
<1>2. Init => BusInv
  BY InitInv DEF Init
<1> QED
  BY <1>1, <1>2, StoreStepBusInv, StoreAlways, PTL

\* The store reads the log in order, and what it skips was counted as dropped,
\* also when the stop ends its subscription at a record (_consume of store.py).
THEOREM StoreReadsInOrder == Spec => DeliveryInOrder
<1>1. Spec => [][Next]_vars
  BY PTL DEF Spec
<1>2. BusInv /\ [Next]_vars => [ReadsNext]_busVars
  BY StoreStepOfBus, BusStepReadsNext, DequeueReadsNext, StoreAssumption
<1> QED
  BY <1>1, <1>2, StoreBus, PTL DEF DeliveryInOrder

-----------------------------------------------------------------------------
(* The types *)

\* The rows given to a pass stay in hand.
LEMMA PassKeeps ==
    ASSUME NEW rows, NEW elapsed, NextPass(rows, elapsed)
    PROVE  InHand' = ToSet(rows)
<1>1. ToSet(<< >>) = {}
  BY DEF ToSet
<1>2. \/ batch' = rows /\ pending' = << >>
      \/ batch' = << >> /\ pending' = rows
  BY DEF NextPass, Finish
<1> QED
  BY <1>1, <1>2 DEF InHand

\* What the invariants above leave open of the type: the flags, the callers,
\* and that a record is one of those published.
FlagsOK ==
    /\ stop \in BOOLEAN /\ connected \in BOOLEAN
    /\ caller \in [Caller -> {"idle", "commit"}]
    /\ seq <= MaxPublished
    /\ 0 \notin InHand \union db.logs \union discarded

LEMMA FlagsStep == BusInv /\ StoreInv /\ FlagsOK /\ [Next]_vars => FlagsOK'
<1> SUFFICES ASSUME BusInv, StoreInv, FlagsOK, [Next]_vars PROVE FlagsOK'
  OBVIOUS
<1> USE StoreAssumption
<1>0. /\ seq \in Nat /\ pending \in Seq(Nat) /\ batch \in Seq(Nat)
      /\ disk.logs \subseteq db.logs /\ db \in Table /\ disk \in Table
      /\ ToSet(<< >>) = {}
  BY DEF BusInv, BusTypeOK, StoreInv, StoreShape, RowsAreNew, ToSet
<1>1. CASE Produce
  BY <1>0, <1>1, MaxPublishedAssumption DEF Produce, Publish, FlagsOK, storeVars, InHand
<1>2. CASE Run \/ Stop
  BY <1>2 DEF Run, Stop, Subscribe, busVars, FlagsOK, InHand
<1>3. CASE Start \/ Timeout
  <2>1. InHand' = ToSet(pending)
    BY <1>3, PassKeeps DEF Start, Timeout
  <2> QED
    BY <1>3, <2>1 DEF Start, Timeout, BusFrame, PassFrame, FlagsOK, InHand
<1>4. CASE Get
  <2> DEFINE next == Head(queue[writer])
  <2>1. InHand' = ToSet(Append(pending, next))
    BY <1>4, PassKeeps DEF Get
  <2>2. queue[writer] \in Seq(Nat \ {0}) /\ queue[writer] # << >>
    BY <1>4 DEF Get, Dequeue, BusInv, BusTypeOK
  <2>3. next \in Nat \ {0}
    BY <2>2
  <2>4. 0 \notin ToSet(pending)
    BY DEF FlagsOK, InHand
  <2> HIDE DEF next
  <2>5. 0 \notin ToSet(Append(pending, next))
    BY <1>0, <2>3, <2>4 DEF ToSet
  <2> QED
    BY <1>4, <2>1, <2>5 DEF Get, Dequeue, PassFrame, FlagsOK, InHand
<1>5. CASE Insert
  <2>1. (db').logs = db.logs \union ToSet(batch)
    BY <1>0, <1>5 DEF Insert, Table
  <2> QED
    BY <1>5, <2>1 DEF Insert, busVars, FlagsOK, InHand
<1>6. CASE Commit
  <2>1. InHand' = ToSet(pending)
    BY <1>6, PassKeeps DEF Commit
  <2> QED
    BY <1>6, <2>1 DEF Commit, BusFrame, PassFrame, FlagsOK, InHand
<1>7. CASE FlushFails
  <2>1. InHand' = ToSet(pending)
    BY <1>7, PassKeeps DEF FlushFails
  <2>2. (db').logs \subseteq db.logs \union ToSet(batch)
    <3>1. ASSUME NEW view \in Inserted PROVE view.logs \subseteq db.logs \union ToSet(batch)
      BY <3>1, <1>0, InsertedRows DEF StoreInv, StoreShape
    <3> QED
      BY <1>0, <1>7, <3>1 DEF FlushFails, AfterFailure
  <2> QED
    BY <1>7, <2>1, <2>2 DEF FlushFails, BusFrame, PassFrame, FlagsOK, InHand
<1>8. CASE Disconnect
  BY <1>0, <1>8 DEF Disconnect, busVars, FlagsOK, InHand
<1>9. CASE Bookkeep
  <2>1. UNCHANGED <<seq, stop, connected, pending, batch, discarded>>
    BY <1>9 DEF Bookkeep, UpsertDevice, StartSession, EndSession, Execute, CallerCommit,
      CallerFails, busVars
  <2>2. caller' \in [Caller -> {"idle", "commit"}]
    BY <1>9 DEF Bookkeep, UpsertDevice, StartSession, EndSession, Execute, CallerCommit,
      CallerFails, FlagsOK
  <2>3. (db').logs = db.logs \/ (db').logs = disk.logs
    BY <1>0, <1>9 DEF Bookkeep, UpsertDevice, StartSession, EndSession, Execute, CallerCommit,
      CallerFails, AfterFailure, Table
  <2> QED
    BY <1>0, <2>1, <2>2, <2>3 DEF FlagsOK, InHand
<1>10. CASE UNCHANGED vars
  BY <1>10 DEF vars, storeVars, busVars, FlagsOK, InHand
<1> QED
  BY <1>1, <1>2, <1>3, <1>4, <1>5, <1>6, <1>7, <1>8, <1>9, <1>10 DEF Next, Consume

\* The state of the store keeps its type: fewer rows pending than a flush takes,
\* no batch larger than that, and nothing in the tables but what was published.
THEOREM StoreTypeCorrect == Spec => []StoreTypeOK
<1>1. Spec => Init /\ [][Next]_vars
  BY PTL DEF Spec
<1>2. ASSUME Init PROVE FlagsOK
  <2>1. InHand \union db.logs \union discarded = {}
    BY <1>2 DEF Init, InHand, ToSet
  <2>2. seq <= MaxPublished
    BY <1>2, MaxPublishedAssumption DEF Init, BusInit
  <2>3. stop \in BOOLEAN /\ connected \in BOOLEAN /\ caller \in [Caller -> {"idle", "commit"}]
    BY <1>2 DEF Init
  <2> QED
    BY <2>1, <2>2, <2>3 DEF FlagsOK
<1>3. BusInv /\ StoreInv /\ FlagsOK => StoreTypeOK
  <2> SUFFICES ASSUME BusInv, StoreInv, FlagsOK PROVE StoreTypeOK
    OBVIOUS
  <2> USE StoreAssumption
  <2>1. \A n \in discarded \union db.logs : n \in Nat /\ n # 0 /\ n <= last[writer]
    BY DEF FlagsOK, StoreInv, StoreShape, RowsAreNew, Table
  <2>2. last[writer] \in Nat /\ last[writer] <= seq /\ seq \in Nat /\ seq <= MaxPublished
    BY DEF StoreInv, StoreShape, QueueAhead, FlagsOK
  <2>3. \A n \in discarded \union db.logs : n \in 1 .. MaxPublished
    BY <2>1, <2>2, MaxPublishedAssumption
  <2>4. disk.logs \subseteq db.logs /\ db \in Table /\ disk \in Table
    BY DEF StoreInv, StoreShape, RowsAreNew
  <2>5. db \in Tables /\ disk \in Tables
    BY <2>3, <2>4 DEF Table, Tables
  <2> QED
    BY <2>3, <2>5 DEF StoreTypeOK, StoreInv, StoreShape, OnePlace, FlagsOK, BusInv
<1> QED
  BY <1>1, <1>2, <1>3, FlagsStep, StoreBus, PTL

-----------------------------------------------------------------------------
(* No record vanishes *)

\* What was read is in hand or on disk.
ReadIsKept ==
    failures = 0 /\ dropped[writer] = 0 /\ joined[writer] # -1 =>
        \A n \in joined[writer] + 1 .. Settled(writer) : n \in InHand \union disk.logs

\* Nothing is read, and what is in hand stays there or is on disk.
LEMMA NoneRead ==
    ASSUME ReadIsKept, failures \in Nat, dropped \in [Sub -> Nat],
           UNCHANGED <<joined, taken>>,
           failures' = failures \/ failures' = failures + 1,
           dropped'[writer] = dropped[writer] \/ dropped'[writer] = dropped[writer] + 1,
           failures' = 0 => InHand \union disk.logs \subseteq InHand' \union (disk').logs
    PROVE  ReadIsKept'
<1> USE StoreAssumption
<1> SUFFICES ASSUME failures' = 0, dropped'[writer] = 0, joined[writer] # -1,
                    NEW n \in joined[writer] + 1 .. Settled(writer)'
             PROVE  n \in InHand' \union (disk').logs
  BY DEF ReadIsKept
<1>1. failures = 0 /\ dropped[writer] = 0
  OBVIOUS
<1>2. Settled(writer)' = Settled(writer)
  BY <1>1 DEF Settled
<1> QED
  BY <1>1, <1>2 DEF ReadIsKept

LEMMA KeptStep == BusInv /\ StoreInv /\ ReadIsKept /\ [Next]_vars => ReadIsKept'
<1> SUFFICES ASSUME BusInv, StoreInv, ReadIsKept, [Next]_vars PROVE ReadIsKept'
  OBVIOUS
<1> USE StoreAssumption
<1>0. /\ failures \in Nat /\ dropped \in [Sub -> Nat] /\ seq \in Nat
      /\ joined \in [Sub -> Nat \union {-1}] /\ taken \in [Sub -> Nat]
      /\ pending \in Seq(Nat) /\ batch \in Seq(Nat) /\ ToSet(<< >>) = {}
  BY DEF BusInv, BusTypeOK, StoreInv, StoreShape, ToSet
<1>1. CASE Produce
  <2>1. dropped'[writer] = dropped[writer] \/ dropped'[writer] = dropped[writer] + 1
    BY <1>0, <1>1 DEF Produce, Publish
  <2> QED
    BY <1>0, <1>1, <2>1, NoneRead DEF Produce, Publish, storeVars, InHand
<1>2. CASE Run
  <2>1. joined'[writer] = seq /\ taken[writer] = 0 /\ dropped[writer] = 0
    BY <1>0, <1>2 DEF Run, Subscribe, BusInv, Bounded, BoundedAt
  <2>2. Settled(writer)' = seq
    BY <1>0, <1>2, <2>1 DEF Settled, Run, Subscribe
  <2> QED
    BY <1>0, <2>1, <2>2 DEF ReadIsKept
<1>3. CASE Start \/ Timeout
  <2>1. UNCHANGED <<joined, taken, dropped, failures, disk>>
    BY <1>3 DEF Start, Timeout, BusFrame
  <2>2. InHand' = ToSet(pending)
    BY <1>3, PassKeeps DEF Start, Timeout
  <2>3. InHand = ToSet(pending)
    BY <1>0, <1>3 DEF Start, Timeout, StoreInv, OnePlace, InHand
  <2> QED
    BY <1>0, <2>1, <2>2, <2>3, NoneRead
<1>4. CASE Get
  <2> DEFINE next == Head(queue[writer])
  <2>1. /\ Dequeue(writer) /\ UNCHANGED <<joined, dropped, failures, disk>>
        /\ consumer = "get" /\ \E elapsed \in BOOLEAN : NextPass(Append(pending, next), elapsed)
    BY <1>4 DEF Get, Dequeue
  <2>2. InHand = ToSet(pending)
    BY <1>0, <2>1 DEF StoreInv, OnePlace, InHand
  <2>3. InHand' = ToSet(pending) \union {next}
    <3>1. InHand' = ToSet(Append(pending, next))
      BY <2>1, PassKeeps
    <3>2. queue[writer] # << >> /\ queue[writer] \in Seq(Nat \ {0})
      BY <2>1 DEF Dequeue, BusInv, BusTypeOK
    <3>3. next \in Nat
      BY <3>2
    <3>4. /\ Len(Append(pending, next)) = Len(pending) + 1 /\ Len(pending) \in Nat
          /\ \A i \in 1 .. Len(pending) : Append(pending, next)[i] = pending[i]
          /\ Append(pending, next)[Len(pending) + 1] = next
      BY <1>0, <3>3
    <3>5. \A i \in 1 .. Len(pending) + 1 : i \in 1 .. Len(pending) \/ i = Len(pending) + 1
      BY <3>4
    <3>6. /\ DOMAIN Append(pending, next) = 1 .. Len(pending) + 1
          /\ DOMAIN pending = 1 .. Len(pending)
      BY <1>0, <3>3
    <3> QED
      BY <3>1, <3>4, <3>5, <3>6 DEF ToSet
  <2>4. next = Settled(writer) + 1 /\ Settled(writer)' = next /\ Settled(writer) \in Int
    BY <2>1, DequeueFacts DEF Dequeue, BusInv, BusTypeOK
  <2> HIDE DEF next
  <2> SUFFICES ASSUME failures = 0, dropped[writer] = 0, joined[writer] # -1,
                      NEW n \in joined[writer] + 1 .. next
               PROVE  n \in InHand' \union disk.logs
    BY <2>1, <2>4 DEF ReadIsKept
  <2>5. n = next \/ n \in joined[writer] + 1 .. Settled(writer)
    BY <1>0, <2>4
  <2> QED
    BY <2>2, <2>3, <2>5 DEF ReadIsKept
<1>5. CASE Commit
  <2>1. /\ UNCHANGED <<joined, taken, dropped, failures>> /\ disk' = db /\ consumer = "commit"
        /\ NextPass(pending, FALSE)
    BY <1>5 DEF Commit, BusFrame
  <2>2. failures = 0 => InHand \union disk.logs \subseteq db.logs
    BY <2>1, <1>0 DEF StoreInv, OnePlace, CountIsExact, RowsAreNew, InHand
  <2> QED
    BY <1>0, <2>1, <2>2, NoneRead
<1>6. CASE FlushFails
  <2>1. failures' = failures + 1
    BY <1>6 DEF FlushFails
  <2> QED
    BY <1>0, <2>1 DEF ReadIsKept
<1>7. CASE Insert \/ Stop \/ Disconnect \/ UNCHANGED vars
  <2>1. UNCHANGED <<joined, taken, dropped, failures, pending, batch, disk>>
    BY <1>7 DEF Insert, Stop, Disconnect, vars, storeVars, busVars
  <2> QED
    BY <1>0, <2>1, NoneRead DEF InHand
<1>8. CASE Bookkeep
  <2>1. /\ UNCHANGED <<joined, taken, dropped, pending, batch>>
        /\ failures' = failures \/ failures' = failures + 1
        /\ disk' = disk \/ disk' = db
    BY <1>8 DEF Bookkeep, UpsertDevice, StartSession, EndSession, Execute, CallerCommit,
      CallerFails, busVars
  <2>2. disk.logs \subseteq (disk').logs
    BY <2>1 DEF StoreInv, RowsAreNew
  <2> QED
    BY <1>0, <2>1, <2>2, NoneRead DEF InHand
<1> QED
  BY <1>1, <1>2, <1>3, <1>4, <1>5, <1>6, <1>7, <1>8 DEF Next, Consume

LEMMA KeptAlways == Spec => [](BusInv /\ StoreInv /\ ReadIsKept)
<1>1. Spec => Init /\ [][Next]_vars
  BY PTL DEF Spec
<1>2. Init => ReadIsKept
  BY StoreAssumption DEF Init, BusInit, ReadIsKept
<1> QED
  BY <1>1, <1>2, KeptStep, StoreBus, PTL

\* What is not read waits, in a queue that ends at the newest record.
LEMMA VanishesNothing ==
    ASSUME BusInv, ReadIsKept, failures = 0 PROVE NothingVanishes
<1> USE StoreAssumption
<1> SUFFICES ASSUME dropped[writer] = 0, joined[writer] # -1,
                    NEW n \in joined[writer] + 1 .. seq, n \notin InHand \union disk.logs
             PROVE  n > Settled(writer) /\ (writer \in open => n \in ToSet(queue[writer]))
  BY DEF NothingVanishes
<1>1. /\ joined[writer] \in Int /\ taken[writer] \in Nat /\ dropped[writer] \in Nat
      /\ seq \in Nat /\ queue[writer] \in Seq(Nat \ {0})
  BY DEF BusInv, BusTypeOK
<1>2. Settled(writer) \in Int
  BY <1>1 DEF Settled
<1>3. n > Settled(writer)
  BY <1>1, <1>2 DEF ReadIsKept
<1>4. ASSUME writer \in open PROVE n \in ToSet(queue[writer])
  <2>1. /\ Settled(writer) + Len(queue[writer]) = seq
        /\ IsRun(queue[writer], Settled(writer))
    BY <1>4 DEF BusInv, QueueIsNextRun, NextRun
  <2> DEFINE i == n - Settled(writer)
  <2>2. i \in 1 .. Len(queue[writer]) /\ n = Settled(writer) + i
    BY <1>1, <1>2, <1>3, <2>1
  <2>3. queue[writer][i] = n /\ i \in DOMAIN queue[writer]
    BY <1>1, <2>1, <2>2 DEF IsRun
  <2> QED
    BY <2>3 DEF ToSet
<1> QED
  BY <1>3, <1>4

\* Without a failing statement no record vanishes between the bus and the disk,
\* rows_written is the number of rows on disk, whoever commits, and close()
\* leaves all that was read there.
THEOREM RowsWrittenIsTrue == Spec => []StoredIsCounted
<1>1. BusInv /\ StoreInv /\ ReadIsKept => StoredIsCounted
  <2> SUFFICES ASSUME BusInv, StoreInv, ReadIsKept, failures = 0
               PROVE  /\ NothingVanishes
                      /\ Cardinality(disk.logs \ ToSet(batch)) = rowsWritten
                      /\ db.logs \ disk.logs \subseteq ToSet(batch)
                      /\ ~connected => Cardinality(disk.logs) = taken[writer]
    BY DEF StoredIsCounted
  <2>1. /\ Cardinality(disk.logs \ ToSet(batch)) = rowsWritten
        /\ db.logs \ disk.logs \subseteq ToSet(batch)
    BY DEF StoreInv, CountIsExact
  <2>2. ASSUME ~connected PROVE Cardinality(disk.logs) = taken[writer]
    <3>1. Len(pending) = 0 /\ Len(batch) = 0 /\ ToSet(batch) = {}
      BY <2>2 DEF StoreInv, OnePlace, ToSet
    <3>2. disk.logs \ ToSet(batch) = disk.logs
      BY <3>1
    <3>3. Cardinality(discarded) = 0
      <4>1. Cardinality(discarded) \in Nat /\ FlushRows \in Nat
        BY FiniteLogs, StoreAssumption DEF StoreInv
      <4>2. Cardinality(discarded) <= 0 * FlushRows
        BY DEF StoreInv, EveryRowInOneStage
      <4> QED
        BY <4>1, <4>2
    <3>4. rowsWritten \in Nat
      BY DEF StoreInv, StoreShape
    <3> QED
      BY <2>1, <3>1, <3>2, <3>3, <3>4 DEF StoreInv, EveryRowInOneStage
  <2> QED
    BY <2>1, <2>2, VanishesNothing
<1> QED
  BY <1>1, KeptAlways, PTL
=============================================================================
