---------------------------- MODULE LogBusProofs ----------------------------
(***************************************************************************)
(* Proofs about LogBus, for every set of subscriptions, every ring size    *)
(* and every queue size: its invariants, the order in which a reader gets  *)
(* its records, and that it implements LogFanout.                          *)
(***************************************************************************)
EXTENDS LogBus, FiniteSetTheorems, TLAPS

\* What is true of a subscription besides QueueIsNextRun: before it joins it
\* is empty, it never runs ahead of the log (also after it closed), and the
\* record it read last is not one that still waits.
BoundedAt(s) ==
    /\ joined[s] = -1 => /\ s \notin open
                         /\ queue[s] = << >>
                         /\ taken[s] = 0
                         /\ dropped[s] = 0
                         /\ last[s] = 0
    /\ joined[s] # -1 => /\ Settled(s) + Len(queue[s]) <= seq
                         /\ last[s] <= Settled(s)
Bounded == \A s \in Sub : BoundedAt(s)

\* The inductive invariant.
BusInv == BusTypeOK /\ RingIsNewest /\ QueueIsNextRun /\ Bounded

-----------------------------------------------------------------------------
(* Lists of records *)

LEMMA JoinInOrder ==
    ASSUME NEW s \in Seq(Int), NEW t \in Seq(Int), Ascending(s), Ascending(t),
           \A i \in 1 .. Len(s) : \A j \in 1 .. Len(t) : s[i] < t[j]
    PROVE  s \o t \in Seq(Int) /\ Ascending(s \o t)
<1>1. /\ s \o t \in Seq(Int) /\ Len(s \o t) = Len(s) + Len(t)
      /\ \A i \in 1 .. Len(s \o t) :
            (s \o t)[i] = IF i <= Len(s) THEN s[i] ELSE t[i - Len(s)]
  OBVIOUS
<1>2. /\ \A i \in 1 .. Len(s) : s[i] \in Int
      /\ \A i \in 1 .. Len(t) : t[i] \in Int
      /\ Len(s) \in Nat /\ Len(t) \in Nat
  OBVIOUS
<1> SUFFICES ASSUME NEW i \in 1 .. Len(s \o t), NEW j \in 1 .. Len(s \o t), i < j
             PROVE  (s \o t)[i] < (s \o t)[j]
  BY <1>1 DEF Ascending
<1>3. CASE j <= Len(s)
  BY <1>1, <1>2, <1>3 DEF Ascending
<1>4. CASE i <= Len(s) /\ j > Len(s)
  <2>1. i \in 1 .. Len(s) /\ j - Len(s) \in 1 .. Len(t)
    BY <1>1, <1>2, <1>4
  <2>2. s[i] < t[j - Len(s)]
    BY <2>1
  <2>3. (s \o t)[i] = s[i] /\ (s \o t)[j] = t[j - Len(s)]
    BY <1>1, <1>2, <1>4
  <2> QED
    BY <1>2, <2>1, <2>2, <2>3
<1>5. CASE i > Len(s)
  <2>1. i - Len(s) \in 1 .. Len(t) /\ j - Len(s) \in 1 .. Len(t) /\ i - Len(s) < j - Len(s)
    BY <1>1, <1>2, <1>5
  <2>2. t[i - Len(s)] < t[j - Len(s)]
    BY <2>1 DEF Ascending
  <2> QED
    BY <1>1, <1>2, <1>5, <2>2
<1> QED
  BY <1>2, <1>3, <1>4, <1>5

LEMMA JoinAscending ==
    ASSUME NEW s \in Seq(Int), NEW t \in Seq(Int), Ascending(s), Ascending(t),
           NEW m \in Int, \A i \in 1 .. Len(s) : s[i] <= m,
           \A i \in 1 .. Len(t) : t[i] > m
    PROVE  s \o t \in Seq(Int) /\ Ascending(s \o t)
<1>1. \A i \in 1 .. Len(s) : \A j \in 1 .. Len(t) : s[i] < t[j]
  <2>1. /\ \A i \in 1 .. Len(s) : s[i] \in Int
        /\ \A j \in 1 .. Len(t) : t[j] \in Int
    OBVIOUS
  <2> QED
    BY <2>1
<1> QED
  BY <1>1, JoinInOrder

LEMMA RunAscends ==
    ASSUME NEW s \in Seq(Int), NEW start \in Int, IsRun(s, start)
    PROVE  Ascending(s) /\ \A i \in 1 .. Len(s) : s[i] > start
  BY DEF IsRun, Ascending

LEMMA AppendIsJoin ==
    ASSUME NEW s \in Seq(Int), NEW e \in Int
    PROVE  Append(s, e) = s \o << e >>
  OBVIOUS

\* An ascending sequence has as many elements as positions.
LEMMA CountAscending ==
    ASSUME NEW s \in Seq(Nat), Ascending(s)
    PROVE  IsFiniteSet(ToSet(s)) /\ Cardinality(ToSet(s)) = Len(s)
<1> DEFINE f == [i \in 1 .. Len(s) |-> s[i]]
<1>1. Len(s) \in Nat /\ ToSet(s) = {s[i] : i \in 1 .. Len(s)}
  BY DEF ToSet
<1>2. f \in [1 .. Len(s) -> ToSet(s)] /\ \A t \in ToSet(s) : \E i \in 1 .. Len(s) : f[i] = t
  BY <1>1
<1>3. \A i, j \in 1 .. Len(s) : f[i] = f[j] => i = j
  <2>1. \A i \in 1 .. Len(s) : s[i] \in Nat
    OBVIOUS
  <2> QED
    BY <2>1 DEF Ascending
<1>4. f \in Bijection(1 .. Len(s), ToSet(s))
  <2>1. \A a, b \in DOMAIN f : f[a] = f[b] => a = b
    BY <1>3
  <2> HIDE DEF f
  <2> QED
    BY <1>2, <2>1 DEF Bijection, Injection, Surjection, IsInjective
<1>5. ExistsBijection(1 .. Len(s), ToSet(s))
  BY <1>4 DEF ExistsBijection
<1>6. Cardinality(ToSet(s)) = Len(s)
  BY <1>1, <1>5, FS_CountingElements
<1>7. IsFiniteSet(ToSet(s))
  BY <1>1, <1>5, FS_NatBijection
<1> QED
  BY <1>6, <1>7

LEMMA CountDisjoint ==
    ASSUME NEW S, NEW T, IsFiniteSet(S), IsFiniteSet(T), S \intersect T = {}
    PROVE  /\ IsFiniteSet(S \union T)
           /\ Cardinality(S \union T) = Cardinality(S) + Cardinality(T)
<1>1. Cardinality(S \intersect T) = 0
  BY FS_EmptySet
<1>2. Cardinality(S) \in Nat /\ Cardinality(T) \in Nat
  BY FS_CardinalityType
<1>3. /\ IsFiniteSet(S \union T)
      /\ Cardinality(S \union T) = Cardinality(S) + Cardinality(T) - Cardinality(S \intersect T)
  BY FS_Union
<1> QED
  BY <1>1, <1>2, <1>3

-----------------------------------------------------------------------------
\* Pushing its successor onto a run leaves a run, no longer than the buffer;
\* the run moves on by one record exactly when the buffer was full.
Lost(buf, n) == IF Len(buf) >= n THEN 1 ELSE 0

LEMMA PushRun ==
    ASSUME NEW buf \in Seq(Nat \ {0}), NEW n \in Nat \ {0}, NEW start \in Int,
           Len(buf) <= n, IsRun(buf, start), start + Len(buf) \in Nat,
           NEW r, r = start + Len(buf) + 1
    PROVE  /\ PushBounded(buf, r, n) \in Seq(Nat \ {0})
           /\ Len(PushBounded(buf, r, n)) = Len(buf) + 1 - Lost(buf, n)
           /\ IsRun(PushBounded(buf, r, n), start + Lost(buf, n))
<1>0. Len(buf) \in Nat /\ r \in Nat \ {0}
  OBVIOUS
<1>1. CASE Len(buf) >= n
  <2>1. /\ Len(buf) = n
        /\ Tail(buf) \in Seq(Nat \ {0})
        /\ Len(Tail(buf)) = n - 1
        /\ \A i \in 1 .. n - 1 : Tail(buf)[i] = buf[i + 1]
    BY <1>1
  <2>2. PushBounded(buf, r, n) = Append(Tail(buf), r)
    BY <1>1 DEF PushBounded
  <2>3. IsRun(Append(Tail(buf), r), start + 1)
    BY <1>0, <2>1 DEF IsRun
  <2>4. Lost(buf, n) = 1
    BY <1>1 DEF Lost
  <2>5. Append(Tail(buf), r) \in Seq(Nat \ {0}) /\ Len(Append(Tail(buf), r)) = n
    BY <1>0, <2>1
  <2>6. Len(buf) + 1 - Lost(buf, n) = n /\ start + Lost(buf, n) = start + 1
    BY <2>1, <2>4
  <2> QED BY <2>2, <2>3, <2>5, <2>6
<1>2. CASE ~(Len(buf) >= n)
  <2>1. PushBounded(buf, r, n) = Append(buf, r)
    BY <1>2 DEF PushBounded
  <2>2. IsRun(Append(buf, r), start)
    BY <1>0 DEF IsRun
  <2>3. Lost(buf, n) = 0
    BY <1>2 DEF Lost
  <2>4. Append(buf, r) \in Seq(Nat \ {0}) /\ Len(Append(buf, r)) = Len(buf) + 1
    BY <1>0
  <2>5. Len(buf) + 1 - Lost(buf, n) = Len(buf) + 1 /\ start + Lost(buf, n) = start
    BY <1>0, <2>3
  <2> QED BY <2>1, <2>2, <2>4, <2>5
<1> QED BY <1>1, <1>2

LEMMA InitInv == BusInit => BusInv
BY RingSizeAssumption, QueueSizeAssumption
DEF BusInit, BusInv, BusTypeOK, RingIsNewest, QueueIsNextRun, NextRun, IsRun,
    Bounded, BoundedAt, Settled

\* Publishing keeps the invariant.
LEMMA PublishInv == BusInv /\ Publish => BusInv'
<1> SUFFICES ASSUME BusInv, Publish PROVE BusInv'
  OBVIOUS
<1> USE RingSizeAssumption, QueueSizeAssumption
<1>1. /\ seq \in Nat /\ seq' = seq + 1 /\ NextSeq = seq + 1
      /\ joined' = joined /\ taken' = taken /\ open' = open /\ last' = last
  BY DEF BusInv, BusTypeOK, Publish, NextSeq
<1>2. ring' \in Seq(Nat \ {0}) /\ RingIsNewest'
  <2>1. CASE RingSize = 0
    <3>1. ring' = << >>
      BY <2>1 DEF Publish, PushBounded
    <3> QED BY <3>1, <2>1, <1>1 DEF RingIsNewest, IsRun
  <2>2. CASE RingSize # 0
    <3> DEFINE start == seq - Len(ring)
    <3>1. /\ ring \in Seq(Nat \ {0}) /\ Len(ring) \in Nat /\ Len(ring) <= RingSize
          /\ RingSize \in Nat \ {0} /\ start \in Int /\ start + Len(ring) = seq
          /\ IsRun(ring, start)
      BY <2>2, <1>1 DEF BusInv, BusTypeOK, RingIsNewest
    <3> DEFINE lost == Lost(ring, RingSize)
    <3>2. ring' = PushBounded(ring, NextSeq, RingSize) /\ NextSeq = start + Len(ring) + 1
      BY <1>1, <3>1 DEF Publish
    <3> HIDE DEF start
    <3>3. /\ ring' \in Seq(Nat \ {0})
          /\ Len(ring') = Len(ring) + 1 - lost
          /\ IsRun(ring', start + lost)
      BY <1>1, <3>1, <3>2, PushRun
    <3>4. /\ lost = IF Len(ring) >= RingSize THEN 1 ELSE 0
          /\ lost \in {0, 1}
      BY DEF Lost
    <3> HIDE DEF lost
    <3>5. start + lost = seq' - Len(ring')
      <4>1. /\ start \in Int /\ lost \in Int /\ Len(ring) \in Int /\ seq \in Int
            /\ start + Len(ring) = seq /\ seq' = seq + 1
            /\ Len(ring') = Len(ring) + 1 - lost
        BY <1>1, <3>1, <3>3, <3>4
      <4> QED BY ONLY <4>1
    <3>6. Len(ring') = IF seq' < RingSize THEN seq' ELSE RingSize
      BY <1>1, <3>1, <3>3, <3>4 DEF BusInv, RingIsNewest
    <3> QED BY <3>3, <3>5, <3>6 DEF RingIsNewest
  <2> QED BY <2>1, <2>2
<1>3. ASSUME NEW s \in Sub
      PROVE  /\ queue'[s] \in Seq(Nat \ {0})
             /\ dropped'[s] \in Nat
             /\ NextRun(s)'
             /\ BoundedAt(s)'
  <2>1. /\ queue[s] \in Seq(Nat \ {0}) /\ Len(queue[s]) \in Nat
        /\ QueueSize[s] \in Nat \ {0}
        /\ joined[s] \in Nat \union {-1} /\ taken[s] \in Nat
        /\ dropped[s] \in Nat /\ last[s] \in Nat /\ Settled(s) \in Int
        /\ NextRun(s) /\ BoundedAt(s)
    BY DEF BusInv, BusTypeOK, QueueIsNextRun, Bounded, Settled
  <2>2. CASE s \notin open
    <3>1. queue'[s] = queue[s] /\ dropped'[s] = dropped[s]
      BY <2>2 DEF Publish, Overflows
    <3>2. Settled(s)' = Settled(s)
      BY <1>1, <3>1 DEF Settled
    <3> QED BY <1>1, <2>1, <2>2, <3>1, <3>2 DEF NextRun, BoundedAt
  <2>3. CASE s \in open
    <3> DEFINE lost == Lost(queue[s], QueueSize[s])
    <3>1. /\ joined[s] # -1 /\ Len(queue[s]) <= QueueSize[s]
          /\ Settled(s) + Len(queue[s]) = seq
          /\ IsRun(queue[s], Settled(s)) /\ last[s] <= Settled(s)
      BY <2>1, <2>3 DEF NextRun, BoundedAt
    <3>2. /\ queue'[s] = PushBounded(queue[s], NextSeq, QueueSize[s])
          /\ NextSeq = Settled(s) + Len(queue[s]) + 1
      BY <1>1, <2>1, <2>3, <3>1 DEF Publish
    <3>3. /\ queue'[s] \in Seq(Nat \ {0})
          /\ Len(queue'[s]) = Len(queue[s]) + 1 - lost
          /\ IsRun(queue'[s], Settled(s) + lost)
      BY <1>1, <2>1, <3>1, <3>2, PushRun
    <3>4. /\ lost = IF Len(queue[s]) >= QueueSize[s] THEN 1 ELSE 0
          /\ lost \in {0, 1} /\ dropped'[s] = dropped[s] + lost
      BY <2>1, <2>3 DEF Publish, Overflows, Lost
    <3> HIDE DEF lost
    <3>5. /\ Settled(s)' = Settled(s) + lost /\ dropped'[s] \in Nat
          /\ Len(queue'[s]) <= QueueSize[s]
          /\ Settled(s)' + Len(queue'[s]) = seq'
          /\ last[s] <= Settled(s)'
      <4>2. Settled(s)' = Settled(s) + lost
        BY <1>1, <2>1, <3>4 DEF Settled
      <4>3. dropped'[s] \in Nat
        BY <2>1, <3>4
      <4>4. Len(queue'[s]) <= QueueSize[s]
        <5>1. CASE Len(queue[s]) >= QueueSize[s]
          <6>1. Len(queue'[s]) = Len(queue[s])
            BY <2>1, <3>3, <3>4, <5>1
          <6> QED BY <3>1, <6>1
        <5>2. CASE ~(Len(queue[s]) >= QueueSize[s])
          <6>1. Len(queue'[s]) = Len(queue[s]) + 1
            BY <2>1, <3>3, <3>4, <5>2
          <6> QED BY <2>1, <5>2, <6>1
        <5> QED BY <5>1, <5>2
      <4>5. Settled(s)' + Len(queue'[s]) = seq' /\ last[s] <= Settled(s)'
        <5>1. /\ Settled(s) \in Int /\ lost \in {0, 1} /\ Len(queue[s]) \in Int
              /\ seq \in Int /\ last[s] \in Int /\ seq' = seq + 1
              /\ Settled(s) + Len(queue[s]) = seq /\ last[s] <= Settled(s)
              /\ Len(queue'[s]) = Len(queue[s]) + 1 - lost
          BY <1>1, <2>1, <3>1, <3>3, <3>4
        <5> QED BY ONLY <4>2, <5>1
      <4> QED BY <4>2, <4>3, <4>4, <4>5
    <3>6. NextRun(s)'
      BY <3>3, <3>5 DEF NextRun
    <3>7. BoundedAt(s)'
      BY <1>1, <2>1, <3>1, <3>5 DEF BoundedAt
    <3> QED BY <3>3, <3>5, <3>6, <3>7
  <2> QED BY <2>2, <2>3
<1>4. BusTypeOK'
  BY <1>1, <1>2, <1>3 DEF BusInv, BusTypeOK, Publish
<1>5. QueueIsNextRun' /\ Bounded'
  BY <1>3, <1>1 DEF QueueIsNextRun, Bounded
<1> QED BY <1>2, <1>4, <1>5 DEF BusInv

\* A subscription starts empty, right after the newest record.
LEMMA SubscribeInv ==
    ASSUME BusInv, NEW s \in Sub, Subscribe(s) PROVE BusInv'
<1> USE QueueSizeAssumption
<1>1. BusTypeOK' /\ RingIsNewest'
  BY DEF BusInv, BusTypeOK, RingIsNewest, Subscribe
<1>2. ASSUME NEW t \in Sub PROVE NextRun(t)' /\ BoundedAt(t)'
  <2>1. CASE t = s
    <3>1. /\ queue'[s] = << >> /\ taken'[s] = 0 /\ dropped'[s] = 0 /\ last'[s] = 0
          /\ joined'[s] = seq /\ seq' = seq /\ seq \in Nat
      BY DEF BusInv, BusTypeOK, Bounded, BoundedAt, Subscribe
    <3>2. Settled(s)' = seq
      BY <3>1 DEF Settled
    <3> QED BY <2>1, <3>1, <3>2 DEF NextRun, BoundedAt, IsRun
  <2>2. CASE t # s
    <3>1. /\ queue'[t] = queue[t] /\ taken'[t] = taken[t] /\ dropped'[t] = dropped[t]
          /\ joined'[t] = joined[t] /\ seq' = seq /\ last'[t] = last[t]
          /\ t \in open' <=> t \in open
      BY <2>2 DEF BusInv, BusTypeOK, Subscribe
    <3>2. Settled(t)' = Settled(t)
      BY <3>1 DEF Settled
    <3> QED BY <3>1, <3>2 DEF BusInv, QueueIsNextRun, NextRun, Bounded, BoundedAt
  <2> QED BY <2>1, <2>2
<1> QED BY <1>1, <1>2 DEF BusInv, QueueIsNextRun, Bounded

\* What get() does to the subscription it reads: it returns the record after
\* the last settled one, and what is left is the run after that.
LEMMA DequeueFacts ==
    ASSUME BusInv, NEW s \in Sub, Dequeue(s)
    PROVE  /\ joined[s] # -1 /\ Settled(s) \in Int
           /\ Settled(s)' = Settled(s) + 1
           /\ last'[s] = Settled(s) + 1
           /\ queue'[s] \in Seq(Nat \ {0}) /\ Len(queue'[s]) = Len(queue[s]) - 1
           /\ IsRun(queue'[s], Settled(s) + 1)
           /\ Settled(s) < seq
<1>1. /\ queue[s] \in Seq(Nat \ {0}) /\ queue[s] # << >> /\ queue'[s] = Tail(queue[s])
      /\ joined[s] \in Int /\ taken[s] \in Nat /\ dropped[s] \in Nat
      /\ joined'[s] = joined[s] /\ taken'[s] = taken[s] + 1 /\ dropped'[s] = dropped[s]
      /\ last'[s] = queue[s][1] /\ seq \in Nat
  BY DEF BusInv, BusTypeOK, Dequeue
<1>2. joined[s] # -1 /\ IsRun(queue[s], Settled(s)) /\ Settled(s) + Len(queue[s]) <= seq
  BY <1>1 DEF BusInv, QueueIsNextRun, NextRun, Bounded, BoundedAt
<1>3. Settled(s) \in Int /\ Settled(s)' = Settled(s) + 1
  <2>1. /\ joined[s] \in Int /\ taken[s] \in Nat /\ dropped[s] \in Nat
        /\ joined'[s] = joined[s] /\ taken'[s] = taken[s] + 1 /\ dropped'[s] = dropped[s]
    BY <1>1
  <2> QED BY ONLY <2>1 DEF Settled
<1>4. /\ Len(queue[s]) \in Nat /\ Len(queue[s]) >= 1
      /\ queue'[s] \in Seq(Nat \ {0}) /\ Len(queue'[s]) = Len(queue[s]) - 1
      /\ \A i \in 1 .. Len(queue'[s]) : queue'[s][i] = queue[s][i + 1]
  BY <1>1
<1>5. queue[s][1] = Settled(s) + 1
  BY <1>2, <1>4 DEF IsRun
<1>6. IsRun(queue'[s], Settled(s) + 1)
  BY <1>2, <1>3, <1>4 DEF IsRun
<1>7. Settled(s) < seq
  BY <1>1, <1>2, <1>3, <1>4
<1> QED BY <1>1, <1>2, <1>3, <1>4, <1>5, <1>6, <1>7

\* get() keeps the invariant, also when its caller ends the subscription, or any
\* other, in the same step.
LEMMA DequeueInv ==
    ASSUME BusInv, NEW s \in Sub, Dequeue(s), open' \subseteq open PROVE BusInv'
<1> USE QueueSizeAssumption
<1>1. /\ queue[s] \in Seq(Nat \ {0}) /\ Len(queue[s]) \in Nat /\ seq \in Nat
      /\ QueueSize[s] \in Nat
  BY DEF BusInv, BusTypeOK
<1>0. seq' = seq /\ ring' = ring /\ open' \subseteq open /\ joined' = joined /\ dropped' = dropped
  BY DEF Dequeue
<1>2. BusTypeOK' /\ RingIsNewest'
  <2>1. queue'[s] \in Seq(Nat \ {0}) /\ last'[s] = Settled(s) + 1 /\ Settled(s) \in Int
    BY DequeueFacts
  <2>2. last[s] \in Nat /\ last[s] <= Settled(s)
    BY DequeueFacts DEF BusInv, BusTypeOK, Bounded, BoundedAt
  <2>3. last'[s] \in Nat
    BY ONLY <2>1, <2>2
  <2>4. queue' \in [Sub -> Seq(Nat \ {0})]
    BY <2>1 DEF BusInv, BusTypeOK, Dequeue
  <2>5. last' \in [Sub -> Nat] /\ taken' \in [Sub -> Nat]
    BY <2>3 DEF BusInv, BusTypeOK, Dequeue
  <2> QED BY <1>0, <2>4, <2>5 DEF BusInv, BusTypeOK, RingIsNewest
<1>3. ASSUME NEW t \in Sub PROVE NextRun(t)' /\ BoundedAt(t)'
  <2>1. CASE t = s
    <3>1. /\ Len(queue[s]) <= QueueSize[s]
          /\ Settled(s) + Len(queue[s]) <= seq
          /\ s \in open => Settled(s) + Len(queue[s]) = seq
      BY DequeueFacts DEF BusInv, QueueIsNextRun, NextRun, Bounded, BoundedAt
    <3>2. /\ Len(queue'[s]) <= QueueSize[s]
          /\ Settled(s)' + Len(queue'[s]) <= seq
          /\ s \in open => Settled(s)' + Len(queue'[s]) = seq
      BY DequeueFacts, <1>0, <1>1, <3>1
    <3>3. last'[s] <= Settled(s)' /\ joined[s] # -1
      BY DequeueFacts
    <3>4. IsRun(queue'[s], Settled(s)')
      BY DequeueFacts
    <3> QED BY <1>0, <2>1, <3>2, <3>3, <3>4 DEF NextRun, BoundedAt
  <2>2. CASE t # s
    <3>1. /\ queue'[t] = queue[t] /\ taken'[t] = taken[t] /\ dropped'[t] = dropped[t]
          /\ last'[t] = last[t]
      BY <2>2 DEF BusInv, BusTypeOK, Dequeue
    <3>2. Settled(t)' = Settled(t)
      BY <1>0, <3>1 DEF Settled
    <3> QED BY <1>0, <3>1, <3>2 DEF BusInv, QueueIsNextRun, NextRun, Bounded, BoundedAt
  <2> QED BY <2>1, <2>2
<1> QED BY <1>2, <1>3 DEF BusInv, QueueIsNextRun, Bounded

LEMMA CloseInv ==
    ASSUME BusInv, NEW s \in Sub, Close(s) PROVE BusInv'
<1>1. ASSUME NEW t \in Sub PROVE Settled(t)' = Settled(t)
  BY DEF Close, Settled
<1> QED
  BY <1>1 DEF BusInv, BusTypeOK, RingIsNewest, QueueIsNextRun, NextRun, Bounded,
    BoundedAt, Close

\* Every step of the bus keeps the invariant.
LEMMA StepInv == BusInv /\ [BusNext]_busVars => BusInv'
<1> SUFFICES ASSUME BusInv, [BusNext]_busVars PROVE BusInv'
  OBVIOUS
<1>1. CASE Publish
  BY <1>1, PublishInv
<1>2. ASSUME NEW s \in Sub, Subscribe(s) PROVE BusInv'
  BY <1>2, SubscribeInv
<1>3. ASSUME NEW s \in Sub, Take(s) PROVE BusInv'
  BY <1>3, DequeueInv DEF Take
<1>4. ASSUME NEW s \in Sub, Close(s) PROVE BusInv'
  BY <1>4, CloseInv
<1>5. CASE UNCHANGED busVars
  BY <1>5 DEF busVars, BusInv, BusTypeOK, RingIsNewest, QueueIsNextRun, NextRun, IsRun,
    Settled, Bounded, BoundedAt
<1> QED BY <1>1, <1>2, <1>3, <1>4, <1>5 DEF BusNext

\* The inductive invariant holds in every reachable state.
THEOREM BusInvariance == BusSpec => []BusInv
BY InitInv, StepInv, PTL DEF BusSpec

\* The state of the bus keeps its type.
THEOREM BusTypeCorrect == BusSpec => []BusTypeOK
BY BusInvariance, PTL DEF BusInv

\* What a late joiner is shown is the newest part of the log, without a hole.
THEOREM RingCorrect == BusSpec => []RingIsNewest
BY BusInvariance, PTL DEF BusInv

\* Each queue holds the run of records after the last settled one and, while
\* the subscription is open, up to the newest: no loss goes uncounted.
THEOREM QueueCorrect == BusSpec => []QueueIsNextRun
BY BusInvariance, PTL DEF BusInv

-----------------------------------------------------------------------------
\* A get(), alone or with the end of a subscription, returns the next record.
LEMMA DequeueReadsNext ==
    ASSUME BusInv, NEW r \in Sub, Dequeue(r) PROVE ReadsNext
<1> SUFFICES ASSUME NEW s \in Sub, taken'[s] # taken[s]
             PROVE  last'[s] > last[s] /\ last'[s] - joined[s] = taken'[s] + dropped[s]
  BY DEF ReadsNext
<1>1. s = r
  BY DEF Dequeue, BusInv, BusTypeOK
<1>2. /\ joined[s] \in Int /\ taken[s] \in Nat /\ dropped[s] \in Nat /\ last[s] \in Nat
      /\ taken'[s] = taken[s] + 1
  BY <1>1 DEF BusInv, BusTypeOK, Dequeue
<1>3. Settled(s) = joined[s] + taken[s] + dropped[s] /\ last[s] <= Settled(s)
  BY <1>1, DequeueFacts DEF Settled, BusInv, Bounded, BoundedAt
<1>4. last'[s] = Settled(s) + 1 /\ Settled(s) \in Int
  BY <1>1, DequeueFacts
<1> QED
  BY ONLY <1>2, <1>3, <1>4

\* What the bus does reads in order; so does whatever is made of its steps.
LEMMA BusStepReadsNext == BusInv /\ [BusNext]_busVars => [ReadsNext]_busVars
<1> SUFFICES ASSUME BusInv, [BusNext]_busVars PROVE [ReadsNext]_busVars
  OBVIOUS
<1>1. ASSUME NEW r \in Sub, Take(r) PROVE ReadsNext
  BY <1>1, DequeueReadsNext DEF Take
<1>2. CASE Publish \/ \E r \in Sub : Subscribe(r) \/ Close(r)
  BY <1>2 DEF ReadsNext, Publish, Subscribe, Close
<1> QED
  BY <1>1, <1>2 DEF BusNext

\* get() returns records in publication order, and every record it skips was
\* counted, whatever the sizes and however readers and writers interleave.
THEOREM BusDeliversInOrder == BusSpec => DeliveryInOrder
BY BusStepReadsNext, BusInvariance, PTL DEF DeliveryInOrder, BusSpec

-----------------------------------------------------------------------------
\* The bus implements the cursor specification: each method of the bus is the
\* step of the same meaning there.
LEMMA InitFanout == BusInit => Fanout!Init
BY DEF BusInit, Fanout!Init, Settled

LEMMA PublishIsGrow ==
    ASSUME BusInv, Publish PROVE Fanout!Grow
<1> DEFINE behind == {s \in open : seq' - Settled(s) > QueueSize[s]}
<1>1. seq' = seq + 1 /\ open' = open /\ last' = last /\ seq \in Nat
  BY DEF BusInv, BusTypeOK, Publish
<1>2. ASSUME NEW s \in Sub
      PROVE  /\ s \in behind <=> Overflows(s)
             /\ dropped'[s] = IF s \in behind THEN dropped[s] + 1 ELSE dropped[s]
             /\ Settled(s)' = IF s \in behind THEN Settled(s) + 1 ELSE Settled(s)
  <2>1. /\ dropped'[s] = IF Overflows(s) THEN dropped[s] + 1 ELSE dropped[s]
        /\ joined' = joined /\ taken' = taken
        /\ joined[s] \in Int /\ taken[s] \in Nat /\ dropped[s] \in Nat
    BY DEF BusInv, BusTypeOK, Publish
  <2>2. s \in behind <=> Overflows(s)
    <3>1. CASE s \notin open
      BY <3>1 DEF Overflows
    <3>2. CASE s \in open
      <4>1. /\ Settled(s) + Len(queue[s]) = seq /\ QueueSize[s] \in Nat
            /\ Len(queue[s]) \in Nat /\ Settled(s) \in Int
        BY <2>1, <3>2, QueueSizeAssumption
        DEF BusInv, BusTypeOK, QueueIsNextRun, NextRun, Bounded, BoundedAt, Settled
      <4>2. seq' - Settled(s) > QueueSize[s] <=> Len(queue[s]) >= QueueSize[s]
        BY ONLY <1>1, <4>1
      <4> QED BY <3>2, <4>2 DEF Overflows
    <3> QED BY <3>1, <3>2
  <2>3. Settled(s)' = IF Overflows(s) THEN Settled(s) + 1 ELSE Settled(s)
    BY ONLY <2>1 DEF Settled
  <2> QED BY <2>1, <2>2, <2>3
<1>3. dropped' = [s \in Sub |-> IF s \in behind THEN dropped[s] + 1 ELSE dropped[s]]
  BY <1>2 DEF Publish
<1>4. [s \in Sub |-> Settled(s)]'
        = [s \in Sub |-> IF s \in behind THEN Settled(s) + 1 ELSE Settled(s)]
  BY <1>2
<1>5. behind = {s \in open : seq' - [r \in Sub |-> Settled(r)][s] > QueueSize[s]}
  BY DEF BusInv, BusTypeOK
<1> HIDE DEF behind
<1>6. [s \in Sub |-> IF s \in behind THEN [r \in Sub |-> Settled(r)][s] + 1
                     ELSE [r \in Sub |-> Settled(r)][s]]
        = [s \in Sub |-> IF s \in behind THEN Settled(s) + 1 ELSE Settled(s)]
  OBVIOUS
<1> QED BY <1>1, <1>3, <1>4, <1>5, <1>6 DEF Fanout!Grow

\* For the three methods that change one subscription: what the mapping shows.
LEMMA CursorOfOne ==
    ASSUME NEW s \in Sub, NEW c,
           \A t \in Sub : Settled(t)' = IF t = s THEN c ELSE Settled(t)
    PROVE  [t \in Sub |-> Settled(t)]' = [[t \in Sub |-> Settled(t)] EXCEPT ![s] = c]
OBVIOUS

LEMMA SubscribeIsAttach ==
    ASSUME BusInv, NEW s \in Sub, Subscribe(s) PROVE Fanout!Attach(s)
<1>1. ASSUME NEW t \in Sub PROVE Settled(t)' = IF t = s THEN seq ELSE Settled(t)
  BY DEF BusInv, BusTypeOK, Bounded, BoundedAt, Settled, Subscribe
<1>2. Settled(s) = -1
  BY DEF BusInv, Bounded, BoundedAt, Settled, Subscribe
<1> QED BY <1>1, <1>2, CursorOfOne DEF Fanout!Attach, Subscribe

LEMMA TakeIsRead ==
    ASSUME BusInv, NEW s \in Sub, Take(s) PROVE Fanout!Read(s)
<1>1. ASSUME NEW t \in Sub PROVE Settled(t)' = IF t = s THEN Settled(s) + 1 ELSE Settled(t)
  <2>1. CASE t = s
    BY <2>1, DequeueFacts DEF Take
  <2>2. CASE t # s
    BY <2>2 DEF BusInv, BusTypeOK, Settled, Take, Dequeue
  <2> QED BY <2>1, <2>2
<1>2. [t \in Sub |-> Settled(t)]'
        = [[t \in Sub |-> Settled(t)] EXCEPT ![s] = Settled(s) + 1]
  BY <1>1, CursorOfOne
<1>3. /\ Settled(s) # -1 /\ Settled(s) < seq
      /\ last' = [last EXCEPT ![s] = Settled(s) + 1]
  <2>1. last'[s] = Settled(s) + 1 /\ Settled(s) \in Int /\ Settled(s) < seq
    BY DequeueFacts DEF Take
  <2>2. last[s] \in Nat /\ last[s] <= Settled(s)
    BY DequeueFacts DEF Take, BusInv, BusTypeOK, Bounded, BoundedAt
  <2>3. Settled(s) # -1
    BY ONLY <2>1, <2>2
  <2> QED BY <2>1, <2>3 DEF BusInv, BusTypeOK, Take, Dequeue
<1>4. s \in open /\ UNCHANGED <<seq, open, dropped>>
  BY DEF Take, Dequeue
<1>5. [t \in Sub |-> Settled(t)]'[s] = Settled(s) + 1
  BY <1>1
<1> QED BY <1>2, <1>3, <1>4, <1>5 DEF Fanout!Read

LEMMA CloseIsDetach ==
    ASSUME BusInv, NEW s \in Sub, Close(s) PROVE Fanout!Detach(s)
<1>1. \A t \in Sub : Settled(t)' = Settled(t)
  BY DEF Settled, Close
<1> QED BY <1>1 DEF Fanout!Detach, Close

LEMMA BusStepIsFanout == BusInv /\ [BusNext]_busVars => [Fanout!Next]_Fanout!fanVars
<1> SUFFICES ASSUME BusInv, [BusNext]_busVars PROVE [Fanout!Next]_Fanout!fanVars
  OBVIOUS
<1>1. CASE Publish
  BY <1>1, PublishIsGrow DEF Fanout!Next
<1>2. ASSUME NEW s \in Sub, Subscribe(s) PROVE Fanout!Next
  BY <1>2, SubscribeIsAttach DEF Fanout!Next
<1>3. ASSUME NEW s \in Sub, Take(s) PROVE Fanout!Next
  BY <1>3, TakeIsRead DEF Fanout!Next
<1>4. ASSUME NEW s \in Sub, Close(s) PROVE Fanout!Next
  BY <1>4, CloseIsDetach DEF Fanout!Next
<1>5. CASE UNCHANGED busVars
  BY <1>5 DEF busVars, Fanout!fanVars, Settled
<1> QED
  BY <1>1, <1>2, <1>3, <1>4, <1>5 DEF BusNext

\* LogBus implements LogFanout: a bounded queue per reader is
\* indistinguishable from a cursor into one log of all records that only
\* skips when its reader is more than a queue behind.
THEOREM BusImplementsFanout == BusSpec => FanoutSpec
BY BusStepIsFanout, InitFanout, BusInvariance, PTL DEF BusSpec, FanoutSpec, Fanout!Spec
=============================================================================
