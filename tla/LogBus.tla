------------------------------- MODULE LogBus -------------------------------
(***************************************************************************)
(* The in-process log fan-out of desktop/idevicetail/bus.py.               *)
(*                                                                         *)
(* Producers publish records; the bus numbers them, keeps the newest       *)
(* RingSize of them for late joiners and offers every record to each open  *)
(* subscription.  A subscription is a bounded queue: when it is full its   *)
(* oldest record is dropped, and counted, to make room for the newest.     *)
(*                                                                         *)
(* A record is its sequence number: nothing below depends on its text.     *)
(* The program is one asyncio loop and no method of the bus awaits, so     *)
(* every method is one action.                                             *)
(***************************************************************************)
EXTENDS Integers, Sequences, SequencesExt

CONSTANTS
    Sub,           \* the subscriptions (each is subscribed at most once)
    RingSize,      \* LogBus(ring_size)
    QueueSize,     \* Subscription(maxsize), one per subscription
    MaxPublished   \* bound on seq, for model checking only

ASSUME RingSizeAssumption == RingSize \in Nat
\* A maxsize of 0 would be an unbounded asyncio.Queue; no caller passes it.
ASSUME QueueSizeAssumption == QueueSize \in [Sub -> Nat \ {0}]
ASSUME MaxPublishedAssumption == MaxPublished \in Nat

VARIABLES
    seq,        \* LogBus._seq, and total_published: the number of records published
    ring,       \* LogBus._ring
    open,       \* LogBus._subs
    queue,      \* Subscription.queue, one per subscription
    dropped,    \* Subscription.dropped
    \* History of each subscription, kept to state what was delivered:
    joined,     \* seq when it subscribed, -1 before
    taken,      \* how many records get() has returned
    last        \* the record get() returned last, 0 before

busVars == <<seq, ring, open, queue, dropped, joined, taken, last>>

BusInit ==
    /\ seq = 0
    /\ ring = << >>
    /\ open = {}
    /\ queue = [s \in Sub |-> << >>]
    /\ dropped = [s \in Sub |-> 0]
    /\ joined = [s \in Sub |-> -1]
    /\ taken = [s \in Sub |-> 0]
    /\ last = [s \in Sub |-> 0]

-----------------------------------------------------------------------------
\* `self._seq += 1; rec.seq = self._seq`: the number of the next record.
NextSeqMut == seq
NextSeq == seq + 1

\* deque(maxlen = n).append(r), and what _offer leaves in a queue of size n:
\* a full buffer loses its oldest item.
PushOffByOneMut(buf, r, n) ==
    IF n = 0 THEN << >> ELSE IF Len(buf) > n THEN Append(Tail(buf), r) ELSE Append(buf, r)
PushDropNewestMut(buf, r, n) ==
    IF Len(buf) >= n THEN buf ELSE Append(buf, r)
PushBounded(buf, r, n) ==
    IF n = 0 THEN << >>
    ELSE IF Len(buf) >= n THEN Append(Tail(buf), r)
    ELSE Append(buf, r)

\* _offer: put_nowait, or on QueueFull get_nowait, dropped += 1, put_nowait.
OverflowsMut(s) == FALSE
Overflows(s) == s \in open /\ Len(queue[s]) >= QueueSize[s]

Publish ==
    /\ seq < MaxPublished
    /\ seq' = seq + 1
    /\ ring' = PushBounded(ring, NextSeq, RingSize)
    /\ queue' = [s \in Sub |-> IF s \in open
                               THEN PushBounded(queue[s], NextSeq, QueueSize[s])
                               ELSE queue[s]]
    /\ dropped' = [s \in Sub |-> IF Overflows(s) THEN dropped[s] + 1 ELSE dropped[s]]
    /\ UNCHANGED <<open, joined, taken, last>>

Subscribe(s) ==
    /\ joined[s] = -1
    /\ open' = open \union {s}
    /\ joined' = [joined EXCEPT ![s] = seq]
    /\ UNCHANGED <<seq, ring, queue, dropped, taken, last>>

\* Mutant: get() pops the newest record.
DequeueNewestMut(s) ==
    /\ queue[s] # << >>
    /\ queue' = [queue EXCEPT ![s] = Front(@)]
    /\ taken' = [taken EXCEPT ![s] = @ + 1]
    /\ last' = [last EXCEPT ![s] = Last(queue[s])]
    /\ UNCHANGED <<seq, ring, dropped, joined>>

\* Subscription.get(), when it returns.
Dequeue(s) ==
    /\ queue[s] # << >>
    /\ queue' = [queue EXCEPT ![s] = Tail(@)]
    /\ taken' = [taken EXCEPT ![s] = @ + 1]
    /\ last' = [last EXCEPT ![s] = Head(queue[s])]
    /\ UNCHANGED <<seq, ring, dropped, joined>>

\* Nobody reads on after close(): the forwarder of a page has ended before its
\* subscription is closed (server.py:528-531), and the consumers of the store
\* and of the file sink close theirs in their `finally`.
Take(s) == s \in open /\ Dequeue(s) /\ UNCHANGED open

Close(s) ==
    /\ s \in open
    /\ open' = open \ {s}
    /\ UNCHANGED <<seq, ring, queue, dropped, joined, taken, last>>

\* LogBus.snapshot(limit): the newest `limit` records of the ring, oldest
\* first.  A limit of 0 is the slice [-0:], which is the whole ring.
Snapshot(limit) ==
    IF limit >= Len(ring) \/ limit = 0
    THEN ring
    ELSE SubSeq(ring, Len(ring) - limit + 1, Len(ring))

BusNext ==
    \/ Publish
    \/ \E s \in Sub : Subscribe(s) \/ Take(s) \/ Close(s)

BusSpec == BusInit /\ [][BusNext]_busVars

\* Until it closes its subscription, a consumer of the bus is a task that loops
\* on get(): the event loop resumes it once its queue is not empty.
FairBusSpec == BusSpec /\ \A s \in Sub : WF_busVars(Take(s))

-----------------------------------------------------------------------------
BusTypeOK ==
    /\ seq \in Nat
    /\ ring \in Seq(Nat \ {0})
    /\ open \subseteq Sub
    /\ queue \in [Sub -> Seq(Nat \ {0})]
    /\ dropped \in [Sub -> Nat]
    /\ joined \in [Sub -> Nat \union {-1}]
    /\ taken \in [Sub -> Nat]
    /\ last \in [Sub -> Nat]

\* Records in the order of publication, none of them twice.
Ascending(buf) == \A i, j \in 1 .. Len(buf) : i < j => buf[i] < buf[j]

\* The records start+1, start+2, ... without a hole.
IsRun(buf, start) == \A i \in 1 .. Len(buf) : buf[i] = start + i

\* The number of the last record subscription s is done with, delivered or
\* dropped, counted from the record it joined after.
Settled(s) == joined[s] + taken[s] + dropped[s]

\* The ring holds exactly the newest records, contiguous and in order: what a
\* late joiner is shown has no hole and ends at the newest record.
RingIsNewest ==
    /\ Len(ring) = IF seq < RingSize THEN seq ELSE RingSize
    /\ IsRun(ring, seq - Len(ring))

\* What waits for a subscription is a contiguous run that starts right after
\* the last record it is done with, and while it is open the run reaches the
\* newest record.  So every record published since it joined is delivered,
\* waiting or in its dropped count (bus.py:7-10, "Dropped counts are
\* tracked"), no queue outgrows its bound, and loss is only off the front.
NextRun(s) ==
    joined[s] # -1 =>
        /\ Len(queue[s]) <= QueueSize[s]
        /\ IsRun(queue[s], Settled(s))
        /\ s \in open => Settled(s) + Len(queue[s]) = seq
QueueIsNextRun == \A s \in Sub : NextRun(s)

\* get() returns records in the order they were published, each at most once,
\* and what it skips was counted as dropped.
ReadsNext ==
    \A s \in Sub : taken'[s] # taken[s] =>
        /\ last'[s] > last[s]
        /\ last'[s] - joined[s] = taken'[s] + dropped[s]
DeliveryInOrder == [][ReadsNext]_busVars

\* A slow reader never holds back a producer, and with every reader scheduled,
\* each record published to an open subscription is in the end settled:
\* delivered, or dropped and counted; unless its reader closes it, and what is
\* queued then is never read.
EveryRecordSettled ==
    \A s \in Sub : \A n \in 1 .. MaxPublished :
        (s \in open /\ joined[s] < n /\ n <= seq) ~> (Settled(s) >= n \/ s \notin open)

\* The bus keeps the promise of LogFanout: reading from a queue is moving a
\* cursor through the one log of all records, and only a reader more than a
\* queue behind is made to skip.
Fanout == INSTANCE LogFanout WITH
    Window <- QueueSize, length <- seq, reading <- open,
    cursor <- [s \in Sub |-> Settled(s)], skipped <- dropped, seen <- last
FanoutSpec == Fanout!Spec
=============================================================================
