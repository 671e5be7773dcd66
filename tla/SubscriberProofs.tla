-------------------------- MODULE SubscriberProofs --------------------------
(***************************************************************************)
(* Proofs about the two subscribers of the log bus.  WsSession: what a     *)
(* page shows of the log, for any number of connections, any sizes of      *)
(* queue, ring, snapshot and batch, and any number of records.  Host: what *)
(* the files hold of it, for any sizes of queue, drain and file, any       *)
(* records that have no encoding and any number of failures.  The two      *)
(* share the definitions and the lemmas of the bus, and no step.           *)
(***************************************************************************)
EXTENDS WsSession, Host, LogBusProofs

-----------------------------------------------------------------------------
(* The page *)


\* How many records of a list are newer than record n.
Newer(s, n) == Cardinality({i \in 1 .. Len(s) : s[i] > n})

\* A connection has its subscription exactly while its handler serves it or waits
\* for its forwarder, and the forwarder runs only then.
Phases ==
    \A c \in Sub :
        /\ joined[c] # -1 <=> handler[c] \in {"serving", "closing", "over"}
        /\ c \in open <=> handler[c] \in {"serving", "closing"}
        /\ forwarder[c] \in {"top", "get"} => handler[c] \in {"serving", "closing"}
        /\ handler[c] \in {"off", "snapshot", "failed"} => batch[c] = << >>
        /\ page = c => handler[c] \in {"snapshot", "serving"}

\* What the page lists are published records in their order.
ShownIsLog == Ascending(shown) /\ \A i \in 1 .. Len(shown) : shown[i] <= seq

\* While the page is served it has, with the batch, what was taken for it.
ShownIsTaken(c) ==
    page = c /\ handler[c] = "serving" =>
        LET flow == shown \o batch[c] IN
        /\ Ascending(flow)
        /\ \A i \in 1 .. Len(flow) : flow[i] <= Settled(c)
        /\ \A i \in 1 .. Len(batch[c]) : batch[c][i] > joined[c]
        /\ Newer(shown, joined[c]) + Len(batch[c]) = taken[c]

\* The inductive invariant.
WsInv ==
    /\ BusInv /\ WsTypeOK /\ Phases /\ ShownIsLog
    /\ \A c \in Sub : ShownIsTaken(c)

-----------------------------------------------------------------------------
LEMMA NewerThanAll ==
    ASSUME NEW s \in Seq(Nat), NEW n \in Int, \A i \in 1 .. Len(s) : s[i] <= n
    PROVE  Newer(s, n) = 0
<1>1. {i \in 1 .. Len(s) : s[i] > n} = {}
  <2>1. \A i \in 1 .. Len(s) : s[i] \in Int
    OBVIOUS
  <2> QED
    BY <2>1
<1> QED
  BY <1>1, FS_EmptySet DEF Newer

LEMMA IntervalSize ==
    ASSUME NEW a \in Nat, NEW k \in Nat
    PROVE  IsFiniteSet(a + 1 .. a + k) /\ Cardinality(a + 1 .. a + k) = k
<1> DEFINE lo == a + 1
           hi == a + k
<1>1. lo \in Int /\ hi \in Int /\ lo = a + 1 /\ hi = a + k
  OBVIOUS
<1> HIDE DEF lo, hi
<1>2. IsFiniteSet(lo .. hi) /\ Cardinality(lo .. hi) = IF lo > hi THEN 0 ELSE hi - lo + 1
  BY <1>1, FS_Interval
<1>3. Cardinality(lo .. hi) = k
  BY <1>1, <1>2
<1> QED
  BY <1>1, <1>2, <1>3

\* Records newer than n count one each.
LEMMA NewerAdds ==
    ASSUME NEW s \in Seq(Nat), NEW t \in Seq(Nat), NEW n \in Int,
           \A i \in 1 .. Len(t) : t[i] > n
    PROVE  Newer(s, n) \in Nat /\ Newer(s \o t, n) = Newer(s, n) + Len(t)
<1> DEFINE old == {i \in 1 .. Len(s) : s[i] > n}
           new == Len(s) + 1 .. Len(s) + Len(t)
<1>1. /\ Len(s) \in Nat /\ Len(t) \in Nat /\ Len(s \o t) = Len(s) + Len(t)
      /\ \A i \in 1 .. Len(s) : (s \o t)[i] = s[i]
      /\ \A i \in new : (s \o t)[i] = t[i - Len(s)] /\ i - Len(s) \in 1 .. Len(t)
  OBVIOUS
<1>2. {i \in 1 .. Len(s \o t) : (s \o t)[i] > n} = old \union new
  BY <1>1
<1>3. IsFiniteSet(old) /\ Cardinality(old) \in Nat
  <2>1. IsFiniteSet(1 .. Len(s)) /\ old \subseteq 1 .. Len(s)
    BY <1>1, FS_Interval
  <2> HIDE DEF old
  <2> QED
    BY <2>1, FS_Subset, FS_CardinalityType
<1>4. IsFiniteSet(new) /\ Cardinality(new) = Len(t)
  BY <1>1, IntervalSize
<1>5. old \intersect new = {}
  BY <1>1
<1> HIDE DEF old, new
<1>6. Cardinality(old \union new) = Cardinality(old) + Cardinality(new) - Cardinality(old \intersect new)
  BY <1>3, <1>4, FS_Union
<1>7. Cardinality(old \intersect new) = 0
  BY <1>5, FS_EmptySet
<1>8. Newer(s, n) = Cardinality(old)
  BY DEF Newer, old
<1>9. Newer(s \o t, n) = Cardinality(old \union new)
  BY <1>2 DEF Newer
<1> QED
  BY <1>1, <1>3, <1>4, <1>6, <1>7, <1>8, <1>9

-----------------------------------------------------------------------------
(* The steps of the bus, and the types *)

LEMMA WsStepIsBusStep == [Next]_vars => [BusNext]_busVars
<1> SUFFICES ASSUME [Next]_vars PROVE [BusNext]_busVars
  OBVIOUS
<1>1. CASE Publish
  BY <1>1 DEF BusNext
<1>2. CASE (\E d \in Device : DeviceChanges(d) \/ DeviceRemoved(d)) \/ PageLeaves \/ UNCHANGED vars
  BY <1>2 DEF DeviceChanges, DeviceRemoved, Becomes, PageLeaves, vars
<1>3. ASSUME NEW f \in Fetch, Answered(f) \/ Refresh(f) \/ RefreshFails(f) PROVE UNCHANGED busVars
  BY <1>3 DEF Answered, Refresh, RefreshFails, FetchFrame
<1>4. ASSUME NEW c \in Sub, Connect(c) \/ SnapshotFails(c) \/ Cancel(c) PROVE UNCHANGED busVars
  BY <1>4 DEF Connect, SnapshotFails, Cancel
<1>5. ASSUME NEW c \in Sub, Serve(c) \/ Finish(c) PROVE BusNext
  BY <1>5 DEF Serve, Finish, BusNext
<1>6. ASSUME NEW c \in Sub, Forward(c) PROVE [BusNext]_busVars
  BY <1>6 DEF Forward, EndForwarder, Interrupted, SendControl, AwaitRecord, TakeRecord,
    GetTimeout, BusNext
<1> QED
  BY <1>1, <1>2, <1>3, <1>4, <1>5, <1>6 DEF Next

LEMMA WsBusStep == BusInv /\ [Next]_vars => BusInv'
  BY WsStepIsBusStep, StepInv

\* The list a page is sent first.
LEMMA SnapshotIsLog ==
    ASSUME BusInv
    PROVE  LET list == Snapshot(SnapLimit) IN
           list \in Seq(Nat) /\ Ascending(list) /\ \A i \in 1 .. Len(list) : list[i] <= seq
<1> DEFINE list == Snapshot(SnapLimit)
           start == seq - Len(ring)
<1>1. /\ ring \in Seq(Nat) /\ seq \in Nat /\ Len(ring) \in Nat /\ start \in Int
      /\ \A i \in 1 .. Len(ring) : ring[i] = start + i
  BY DEF BusInv, BusTypeOK, RingIsNewest, IsRun
<1>2. CASE SnapLimit >= Len(ring) \/ SnapLimit = 0
  <2>1. list = ring
    BY <1>2 DEF Snapshot
  <2> QED
    BY <1>1, <2>1 DEF Ascending
<1>3. CASE ~(SnapLimit >= Len(ring) \/ SnapLimit = 0)
  <2> DEFINE first == Len(ring) - SnapLimit + 1
  <2>1. list = SubSeq(ring, first, Len(ring))
    BY <1>3 DEF Snapshot
  <2>2. first \in 1 .. Len(ring)
    BY <1>1, <1>3, WsAssumption
  <2> HIDE DEF first
  <2>3. /\ list \in Seq(Nat) /\ Len(list) = Len(ring) - first + 1
        /\ \A i \in 1 .. Len(list) : list[i] = ring[first + i - 1]
    BY <1>1, <2>1, <2>2
  <2>4. ASSUME NEW i \in 1 .. Len(list)
        PROVE  list[i] = start + first + i - 1 /\ list[i] <= seq
    <3>1. first + i - 1 \in 1 .. Len(ring) /\ list[i] = ring[first + i - 1]
      BY <1>1, <2>2, <2>3
    <3>2. list[i] = start + (first + i - 1)
      BY <1>1, <3>1
    <3> QED
      BY <1>1, <2>2, <3>1, <3>2
  <2> QED
    BY <1>1, <2>2, <2>3, <2>4 DEF Ascending
<1> QED
  BY <1>2, <1>3

LEMMA WsInitInv == Init => WsInv
<1> SUFFICES ASSUME Init PROVE WsInv
  OBVIOUS
<1> USE WsAssumption
<1>1. BusInv
  BY InitInv DEF Init
<1>2. WsTypeOK
  BY <1>1 DEF Init, WsTypeOK, BusInv
<1>3. Phases
  BY DEF Init, BusInit, Phases
<1>4. ShownIsLog /\ \A c \in Sub : ShownIsTaken(c)
  BY DEF Init, ShownIsLog, Ascending, ShownIsTaken
<1> QED
  BY <1>1, <1>2, <1>3, <1>4 DEF WsInv

\* A step that neither shows nor takes a record.
LEMMA QuietView ==
    ASSUME WsInv, BusInv', WsTypeOK', Phases',
           UNCHANGED <<seq, joined, taken, dropped, shown, batch>>,
           \A c \in Sub : page' = c /\ handler'[c] = "serving" => page = c /\ handler[c] = "serving"
    PROVE  WsInv'
<1>1. \A c \in Sub : Settled(c)' = Settled(c)
  BY DEF Settled
<1> QED
  BY <1>1 DEF WsInv, ShownIsLog, ShownIsTaken

\* The list and the batch of the page after records are collected or sent.
LEMMA NewView ==
    ASSUME WsInv, BusInv', WsTypeOK', Phases',
           NEW c \in Sub, handler[c] \in {"serving", "closing"},
           UNCHANGED <<seq, joined, page, handler>>,
           \A d \in Sub \ {c} : taken'[d] = taken[d] /\ batch'[d] = batch[d],
           dropped' = dropped,
           page # c => shown' = shown,
           NEW records \in Seq(Nat),
           page = c =>
               /\ Ascending(shown \o records)
               /\ \A i \in 1 .. Len(shown \o records) : (shown \o records)[i] <= Settled(c)'
               /\ \A i \in 1 .. Len(records) : records[i] > joined[c]
               /\ Newer(shown, joined[c]) + Len(records) = taken'[c]
               /\ \/ shown' = shown /\ batch'[c] = records
                  \/ shown' = shown \o records /\ batch'[c] = << >>
    PROVE  WsInv'
<1>1. \A d \in Sub \ {c} : Settled(d)' = Settled(d)
  BY DEF Settled
<1>2. ASSUME NEW d \in Sub, d # c PROVE ShownIsTaken(d)'
  BY <1>1, <1>2 DEF WsInv, ShownIsTaken
<1>3. shown \in Seq(Nat) /\ joined[c] \in Int /\ seq \in Nat
  BY DEF WsInv, WsTypeOK, BusInv, BusTypeOK
<1>4. Settled(c)' <= seq /\ Settled(c)' \in Int
  <2>1. joined'[c] # -1 /\ Settled(c)' + Len(queue'[c]) <= seq'
    BY DEF WsInv, Phases, BusInv, Bounded, BoundedAt
  <2>2. queue'[c] \in Seq(Nat \ {0}) /\ Settled(c)' \in Int
    <3>1. /\ queue'[c] \in Seq(Nat \ {0}) /\ joined'[c] \in Int
          /\ taken'[c] \in Int /\ dropped'[c] \in Int
      BY DEF BusInv, BusTypeOK
    <3> QED
      BY <3>1 DEF Settled
  <2>3. Len(queue'[c]) \in Nat
    BY <2>2
  <2> QED
    BY <1>3, <2>1, <2>2, <2>3
<1>5. CASE page = c
  <2>1. shown \o records \in Seq(Nat) /\ shown \o << >> = shown
    BY <1>3
  <2>2. CASE shown' = shown /\ batch'[c] = records
    <3>1. ShownIsTaken(c)'
      BY <1>5, <2>2 DEF ShownIsTaken
    <3>2. ShownIsLog'
      BY <2>2 DEF WsInv, ShownIsLog
    <3> QED
      BY <1>2, <3>1, <3>2 DEF WsInv
  <2>3. CASE shown' = shown \o records /\ batch'[c] = << >>
    <3>1. shown' \in Seq(Nat) /\ shown' \o << >> = shown'
      BY <2>1, <2>3
    <3>2. Newer(shown', joined[c]) + Len(<< >>) = taken'[c]
      <4>1. Newer(shown \o records, joined[c]) = Newer(shown, joined[c]) + Len(records)
        BY <1>3, <1>5, NewerAdds
      <4>2. Newer(shown \o records, joined[c]) = taken'[c] /\ taken'[c] \in Nat
        BY <1>5, <4>1 DEF BusInv, BusTypeOK
      <4> QED
        BY <2>3, <4>2
    <3>3. /\ Ascending(shown')
          /\ \A i \in 1 .. Len(shown') : shown'[i] <= Settled(c)'
      BY <1>5, <2>3
    <3>4. ShownIsTaken(c)'
      BY <1>5, <2>3, <3>1, <3>2, <3>3 DEF ShownIsTaken
    <3>5. ShownIsLog'
      <4>1. \A i \in 1 .. Len(shown') : shown'[i] \in Int
        BY <3>1
      <4>2. \A i \in 1 .. Len(shown') : shown'[i] <= seq
        BY <1>3, <1>4, <3>3, <4>1
      <4> QED
        BY <3>3, <4>2 DEF ShownIsLog
    <3> QED
      BY <1>2, <3>4, <3>5 DEF WsInv
  <2> QED
    BY <1>5, <2>2, <2>3
<1>6. CASE page # c
  <2>1. ShownIsTaken(c)'
    BY <1>6 DEF ShownIsTaken
  <2>2. ShownIsLog'
    BY <1>6 DEF WsInv, ShownIsLog
  <2> QED
    BY <1>2, <2>1, <2>2 DEF WsInv
<1> QED
  BY <1>5, <1>6

-----------------------------------------------------------------------------
(* One lemma for each kind of step *)

LEMMA PublishView == ASSUME WsInv, BusInv', Publish, UNCHANGED wsVars PROVE WsInv'
<1>1. /\ UNCHANGED <<joined, taken, open>> /\ UNCHANGED wsVars
      /\ seq \in Nat /\ seq' = seq + 1
  BY DEF Publish, WsInv, BusInv, BusTypeOK
<1>2. WsTypeOK' /\ Phases'
  BY <1>1 DEF WsInv, WsTypeOK, BusInv, Phases, wsVars
<1>3. ShownIsLog'
  <2>1. \A i \in 1 .. Len(shown) : shown[i] \in Int
    BY DEF WsInv, WsTypeOK
  <2> QED
    BY <1>1, <2>1 DEF WsInv, ShownIsLog, wsVars
<1>4. ASSUME NEW c \in Sub PROVE ShownIsTaken(c)'
  <2>1. Settled(c) \in Int /\ Settled(c)' \in Int /\ Settled(c) <= Settled(c)'
    <3>1. /\ joined[c] \in Int /\ taken[c] \in Int /\ dropped[c] \in Int
          /\ dropped'[c] = dropped[c] \/ dropped'[c] = dropped[c] + 1
      BY DEF Publish, WsInv, BusInv, BusTypeOK
    <3> QED
      BY <1>1, <3>1 DEF Settled
  <2>2. shown \o batch[c] \in Seq(Int)
    BY DEF WsInv, WsTypeOK
  <2>3. \A i \in 1 .. Len(shown \o batch[c]) : (shown \o batch[c])[i] \in Int
    BY <2>2
  <2> QED
    BY <1>1, <2>1, <2>3 DEF WsInv, ShownIsTaken, wsVars
<1> QED
  BY <1>2, <1>3, <1>4 DEF WsInv

LEMMA ConnectView == ASSUME WsInv, BusInv', NEW c \in Sub, Connect(c) PROVE WsInv'
<1> USE WsAssumption
<1>1. /\ UNCHANGED busVars
      /\ UNCHANGED <<forwarder, batch, ctrl, devices, changes, answer, told>>
      /\ page = NoConn /\ handler[c] = "off" /\ page' = c
      /\ handler' = [handler EXCEPT ![c] = "snapshot"]
      /\ hub' = hub \union {c}
      /\ shown' = Snapshot(SnapLimit) /\ table' = Upserted(devices) /\ unheard' \subseteq Device
  BY DEF Connect
<1>2. shown' \in Seq(Nat) /\ Ascending(shown') /\ \A i \in 1 .. Len(shown') : shown'[i] <= seq
  BY <1>1, SnapshotIsLog DEF WsInv
<1>3. WsTypeOK'
  <2>1. table' \in [Device -> Nat]
    BY <1>1 DEF Upserted, WsInv, WsTypeOK
  <2> QED
    BY <1>1, <1>2, <2>1 DEF WsInv, WsTypeOK, BusTypeOK, busVars
<1>4. Phases'
  BY <1>1 DEF WsInv, WsTypeOK, Phases, busVars
<1>5. ShownIsLog'
  BY <1>1, <1>2 DEF ShownIsLog, busVars
<1>6. \A d \in Sub : ShownIsTaken(d)'
  BY <1>1 DEF WsInv, WsTypeOK, ShownIsTaken
<1> QED
  BY <1>3, <1>4, <1>5, <1>6 DEF WsInv

LEMMA ServeView == ASSUME WsInv, BusInv', NEW c \in Sub, Serve(c) PROVE WsInv'
<1>1. /\ handler[c] = "snapshot" /\ joined[c] = -1 /\ batch[c] = << >>
      /\ open' = open \union {c} /\ joined' = [joined EXCEPT ![c] = seq]
      /\ UNCHANGED <<seq, taken, dropped>>
      /\ handler' = [handler EXCEPT ![c] = "serving"]
      /\ forwarder' = [forwarder EXCEPT ![c] = "top"]
      /\ UNCHANGED <<batch, hub, ctrl, devices, changes, page, shown, table, answer, told, unheard>>
  BY DEF WsInv, Phases, Serve, Subscribe, HandlerFrame
<1>2. WsTypeOK'
  BY <1>1 DEF WsInv, WsTypeOK, BusInv
<1>3. Phases'
  BY <1>1 DEF WsInv, WsTypeOK, BusInv, BusTypeOK, Phases
<1>4. ShownIsLog'
  BY <1>1 DEF WsInv, ShownIsLog
<1>5. ASSUME NEW d \in Sub, d # c PROVE ShownIsTaken(d)'
  <2>1. joined'[d] = joined[d] /\ handler'[d] = handler[d] /\ Settled(d)' = Settled(d)
    BY <1>1, <1>5 DEF WsInv, WsTypeOK, BusInv, BusTypeOK, Settled
  <2> QED
    BY <1>1, <2>1 DEF WsInv, ShownIsTaken
<1>6. ShownIsTaken(c)'
  <2>1. joined'[c] = seq /\ taken'[c] = 0 /\ dropped'[c] = 0 /\ seq \in Nat
    BY <1>1 DEF WsInv, BusInv, BusTypeOK, Bounded, BoundedAt
  <2>2. Settled(c)' = seq
    BY <2>1 DEF Settled
  <2>3. shown \in Seq(Nat) /\ shown \o << >> = shown
    BY DEF WsInv, WsTypeOK
  <2>4. Newer(shown, seq) = 0
    BY <2>1, <2>3, NewerThanAll DEF WsInv, ShownIsLog
  <2>5. Newer(shown', joined'[c]) + Len(<< >>) = taken'[c]
    BY <1>1, <2>1, <2>4
  <2>6. batch'[c] = << >> /\ shown' \o batch'[c] = shown
    BY <1>1, <2>3
  <2>7. Ascending(shown) /\ \A i \in 1 .. Len(shown) : shown[i] <= Settled(c)'
    BY <2>2 DEF WsInv, ShownIsLog
  <2> QED
    BY <2>5, <2>6, <2>7 DEF ShownIsTaken
<1> QED
  BY <1>2, <1>3, <1>4, <1>5, <1>6 DEF WsInv

LEMMA HandlerEndsView ==
    ASSUME WsInv, BusInv', NEW c \in Sub, SnapshotFails(c) \/ Cancel(c) \/ Finish(c)
    PROVE  WsInv'
<1>1. UNCHANGED <<seq, joined, taken, dropped, shown, batch, page>>
  BY DEF SnapshotFails, Cancel, Finish, HandlerFrame, Close, busVars
<1>2. /\ page # c
      /\ \E place \in {"failed", "closing", "over"} : handler' = [handler EXCEPT ![c] = place]
  BY DEF SnapshotFails, Cancel, Finish, WsInv, Phases
<1>3. WsTypeOK'
  <2>1. /\ hub' \subseteq Sub
        /\ UNCHANGED <<forwarder, ctrl, devices, changes, table, answer, told, unheard>>
    BY DEF SnapshotFails, Cancel, Finish, HandlerFrame, WsInv, WsTypeOK
  <2>2. handler' \in [Sub -> {"off", "snapshot", "serving", "closing", "over", "failed"}]
    BY <1>2 DEF WsInv, WsTypeOK
  <2> QED
    BY <1>1, <2>1, <2>2 DEF WsInv, WsTypeOK, BusInv
<1>4. Phases'
  <2>1. CASE SnapshotFails(c)
    BY <2>1 DEF SnapshotFails, HandlerFrame, WsInv, WsTypeOK, Phases, busVars
  <2>2. CASE Cancel(c)
    BY <2>2 DEF Cancel, HandlerFrame, WsInv, WsTypeOK, Phases, busVars
  <2>3. CASE Finish(c)
    BY <2>3 DEF Finish, HandlerFrame, Close, WsInv, WsTypeOK, Phases
  <2> QED
    BY <2>1, <2>2, <2>3
<1>5. \A d \in Sub : page' = d /\ handler'[d] = "serving" => page = d /\ handler[d] = "serving"
  BY <1>1, <1>2 DEF WsInv, WsTypeOK
<1> QED
  BY <1>1, <1>3, <1>4, <1>5, QuietView

LEMMA SmallForwardView ==
    ASSUME WsInv, BusInv', NEW c \in Sub,
           EndForwarder(c) \/ Interrupted(c) \/ SendControl(c) \/ AwaitRecord(c)
    PROVE  WsInv'
<1>1. /\ UNCHANGED busVars
      /\ UNCHANGED <<handler, hub, devices, changes, page, answer, unheard, batch, shown, told>>
      /\ forwarder[c] \in {"top", "get"}
  BY DEF EndForwarder, Interrupted, SendControl, AwaitRecord, ForwarderFrame
<1>2. /\ forwarder' \in [Sub -> {"off", "top", "get", "ended"}]
      /\ \A d \in Sub : forwarder'[d] # forwarder[d] => d = c
  BY DEF EndForwarder, Interrupted, SendControl, AwaitRecord, WsInv, WsTypeOK
<1>3. /\ ctrl' \in [Sub -> Seq(Event)] /\ table' \in [Device -> Nat]
      /\ \A d \in Sub : Len(ctrl'[d]) <= CtrlSize
  <2>1. CASE SendControl(c)
    <3> DEFINE event == Head(ctrl[c])
    <3>1. /\ ctrl[c] \in Seq(Event) /\ ctrl[c] # << >>
          /\ Len(ctrl[c]) <= CtrlSize
          /\ ctrl' = [ctrl EXCEPT ![c] = Tail(@)]
          /\ table' = [table EXCEPT ![event.id] = event.state]
      BY <2>1 DEF SendControl, WsInv, WsTypeOK
    <3>2. /\ Tail(ctrl[c]) \in Seq(Event) /\ Len(Tail(ctrl[c])) <= CtrlSize
          /\ event \in Event
      BY <3>1, WsAssumption
    <3>3. event.id \in Device /\ event.state \in Nat
      BY <3>2 DEF Event
    <3> HIDE DEF event
    <3> QED
      BY <3>1, <3>2, <3>3 DEF WsInv, WsTypeOK
  <2>2. CASE EndForwarder(c) \/ Interrupted(c) \/ AwaitRecord(c)
    BY <2>2 DEF EndForwarder, Interrupted, AwaitRecord, WsInv, WsTypeOK
  <2> QED
    BY <2>1, <2>2
<1>4. WsTypeOK'
  BY <1>1, <1>2, <1>3 DEF WsInv, WsTypeOK, BusInv
<1>5. Phases'
  BY <1>1, <1>2 DEF WsInv, Phases, busVars
<1> QED
  BY <1>1, <1>4, <1>5, QuietView DEF busVars

\* What a batch may become: records in hand of the page that are not shown.
LEMMA FlowGrows ==
    ASSUME WsInv, NEW c \in Sub, handler[c] = "serving", page = c, Take(c)
    PROVE  LET records == Append(batch[c], Head(queue[c])) IN
           /\ Ascending(shown \o records)
           /\ \A i \in 1 .. Len(shown \o records) : (shown \o records)[i] <= Settled(c)'
           /\ \A i \in 1 .. Len(records) : records[i] > joined[c]
           /\ Newer(shown, joined[c]) + Len(records) = taken'[c]
<1> DEFINE next == Settled(c) + 1
           flow == shown \o batch[c]
           records == Append(batch[c], Head(queue[c]))
<1>1. /\ Settled(c) \in Int /\ Settled(c)' = next /\ last'[c] = next
      /\ last'[c] = Head(queue[c]) /\ taken'[c] = taken[c] + 1
  BY DequeueFacts DEF WsInv, BusInv, BusTypeOK, Take, Dequeue
<1>2. /\ joined[c] \in Int /\ taken[c] \in Nat /\ dropped[c] \in Nat /\ joined[c] < next
  <2>1. joined[c] \in Int /\ taken[c] \in Nat /\ dropped[c] \in Nat
    BY DEF WsInv, BusInv, BusTypeOK
  <2> QED
    BY <2>1 DEF Settled
<1>3. /\ Ascending(flow) /\ \A i \in 1 .. Len(flow) : flow[i] <= Settled(c)
      /\ \A i \in 1 .. Len(batch[c]) : batch[c][i] > joined[c]
      /\ Newer(shown, joined[c]) + Len(batch[c]) = taken[c]
  BY DEF WsInv, ShownIsTaken
<1>4. shown \in Seq(Nat) /\ batch[c] \in Seq(Nat) /\ flow \in Seq(Nat)
  BY DEF WsInv, WsTypeOK
<1>5. records = Append(batch[c], next) /\ next \in Int
  BY <1>1
<1> HIDE DEF next, flow
<1>6. shown \o records = flow \o << next >>
  <2>1. shown \o Append(batch[c], next) = Append(flow, next)
    BY <1>4, <1>5 DEF flow
  <2>2. Append(flow, next) = flow \o << next >>
    <3>1. flow \in Seq(Int)
      BY <1>4
    <3> QED
      BY <1>5, <3>1, AppendIsJoin
  <2> QED
    BY <1>5, <2>1, <2>2
<1>7. Ascending(flow \o << next >>)
  <2>1. << next >> \in Seq(Int) /\ Ascending(<< next >>) /\ flow \in Seq(Int)
    BY <1>4, <1>5 DEF Ascending
  <2>2. \A i \in 1 .. Len(<< next >>) : << next >>[i] > Settled(c)
    BY <1>1, <1>5 DEF next
  <2> QED
    BY <1>1, <1>3, <2>1, <2>2, JoinAscending
<1>8. \A i \in 1 .. Len(flow \o << next >>) : (flow \o << next >>)[i] <= next
  <2>1. \A i \in 1 .. Len(flow) : flow[i] \in Int /\ flow[i] <= next
    BY <1>1, <1>3, <1>4 DEF next
  <2>2. /\ Len(flow \o << next >>) = Len(flow) + 1 /\ Len(flow) \in Nat
        /\ \A i \in 1 .. Len(flow) : (flow \o << next >>)[i] = flow[i]
        /\ (flow \o << next >>)[Len(flow) + 1] = next
    BY <1>4, <1>5
  <2> QED
    BY <1>5, <2>1, <2>2
<1>9. \A i \in 1 .. Len(records) : records[i] > joined[c]
  <2>1. /\ Len(records) = Len(batch[c]) + 1 /\ records[Len(batch[c]) + 1] = next
        /\ \A i \in 1 .. Len(batch[c]) : records[i] = batch[c][i]
    BY <1>4, <1>5
  <2> QED
    BY <1>2, <1>3, <1>4, <2>1
<1>10. Newer(shown, joined[c]) + Len(records) = taken'[c]
  <2>1. Newer(shown, joined[c]) \in Nat
    <3>1. << >> \in Seq(Nat) /\ \A i \in 1 .. Len(<< >>) : << >>[i] > joined[c]
      OBVIOUS
    <3> QED
      BY <1>2, <1>4, <3>1, NewerAdds
  <2>2. Len(records) = Len(batch[c]) + 1 /\ Len(batch[c]) \in Nat
    BY <1>4, <1>5
  <2> QED
    BY <1>1, <1>2, <1>3, <2>1, <2>2
<1> QED
  BY <1>1, <1>6, <1>7, <1>8, <1>9, <1>10

LEMMA TakeView == ASSUME WsInv, BusInv', NEW c \in Sub, TakeRecord(c) PROVE WsInv'
<1> DEFINE records == Append(batch[c], Head(queue[c]))
<1>1. /\ forwarder[c] = "get" /\ handler[c] \in {"serving", "closing"} /\ Take(c)
      /\ page = c => handler[c] = "serving"
      /\ forwarder' = [forwarder EXCEPT ![c] = "top"]
      /\ UNCHANGED <<handler, hub, devices, changes, page, answer, unheard, ctrl, table>>
  BY DEF TakeRecord, ForwarderFrame, WsInv, Phases
<1>2. /\ UNCHANGED <<seq, joined, dropped, open>>
      /\ \A d \in Sub \ {c} : taken'[d] = taken[d]
  BY <1>1 DEF Take, Dequeue, WsInv, BusInv, BusTypeOK
<1>3. records \in Seq(Nat) /\ batch[c] \in Seq(Nat) /\ Len(records) = Len(batch[c]) + 1
  BY <1>1 DEF Take, Dequeue, WsInv, WsTypeOK, BusInv, BusTypeOK
<1>4. \/ Len(records) < BatchMax /\ batch' = [batch EXCEPT ![c] = records] /\ UNCHANGED <<shown, told>>
      \/ Send(c, records)
  BY DEF TakeRecord
<1>5. /\ \A d \in Sub \ {c} : batch'[d] = batch[d]
      /\ page # c => shown' = shown
      /\ \/ shown' = shown /\ batch'[c] = records
         \/ shown' = (IF page = c THEN shown \o records ELSE shown) /\ batch'[c] = << >>
  BY <1>4 DEF Send, WsInv, WsTypeOK
<1>6. WsTypeOK'
  <2>1. shown \in Seq(Nat) /\ shown \o records \in Seq(Nat)
    BY <1>3 DEF WsInv, WsTypeOK
  <2>2. shown' \in Seq(Nat)
    BY <1>5, <2>1
  <2>3. told' \in [Sub -> Nat]
    BY <1>4 DEF Send, WsInv, WsTypeOK, BusInv, BusTypeOK
  <2>4. batch' \in [Sub -> Seq(Nat)] /\ \A d \in Sub : Len(batch'[d]) < BatchMax
    <3>1. batch \in [Sub -> Seq(Nat)] /\ \A d \in Sub : Len(batch[d]) < BatchMax
      BY DEF WsInv, WsTypeOK
    <3>2. << >> \in Seq(Nat) /\ Len(<< >>) < BatchMax
      BY WsAssumption
    <3>3. PICK b \in Seq(Nat) : Len(b) < BatchMax /\ batch' = [batch EXCEPT ![c] = b]
      BY <1>3, <1>4, <3>2 DEF Send
    <3> HIDE DEF records
    <3> QED
      BY <3>1, <3>3
  <2>5. forwarder' \in [Sub -> {"off", "top", "get", "ended"}]
    BY <1>1 DEF WsInv, WsTypeOK
  <2> QED
    BY <1>1, <2>2, <2>3, <2>4, <2>5 DEF WsInv, WsTypeOK, BusInv
<1>7. Phases'
  BY <1>1, <1>2, <1>5 DEF WsInv, WsTypeOK, Phases
<1>8. page = c =>
        /\ Ascending(shown \o records)
        /\ \A i \in 1 .. Len(shown \o records) : (shown \o records)[i] <= Settled(c)'
        /\ \A i \in 1 .. Len(records) : records[i] > joined[c]
        /\ Newer(shown, joined[c]) + Len(records) = taken'[c]
  BY <1>1, FlowGrows
<1> HIDE DEF records
<1> QED
  BY <1>1, <1>2, <1>3, <1>5, <1>6, <1>7, <1>8, NewView

LEMMA TimeoutView == ASSUME WsInv, BusInv', NEW c \in Sub, GetTimeout(c) PROVE WsInv'
<1>1. /\ forwarder[c] = "get" /\ handler[c] \in {"serving", "closing"} /\ UNCHANGED busVars
      /\ page = c => handler[c] = "serving"
      /\ forwarder' = [forwarder EXCEPT ![c] = "top"]
      /\ UNCHANGED <<handler, hub, devices, changes, page, answer, unheard, ctrl, table>>
  BY DEF GetTimeout, ForwarderFrame, WsInv, Phases
<1>2. batch[c] \in Seq(Nat) /\ shown \in Seq(Nat)
  BY DEF WsInv, WsTypeOK
<1>3. \/ UNCHANGED <<batch, shown, told>>
      \/ Send(c, batch[c])
  BY DEF GetTimeout
<1>4. /\ \A d \in Sub \ {c} : batch'[d] = batch[d]
      /\ page # c => shown' = shown
      /\ \/ shown' = shown /\ batch'[c] = batch[c]
         \/ shown' = (IF page = c THEN shown \o batch[c] ELSE shown) /\ batch'[c] = << >>
  BY <1>3 DEF Send, WsInv, WsTypeOK
<1>5. WsTypeOK'
  <2>1. shown' \in Seq(Nat)
    <3>1. shown \o batch[c] \in Seq(Nat)
      BY <1>2
    <3> QED
      BY <1>2, <1>4, <3>1
  <2>2. told' \in [Sub -> Nat]
    BY <1>3 DEF Send, WsInv, WsTypeOK, BusInv, BusTypeOK
  <2>3. batch' \in [Sub -> Seq(Nat)] /\ \A d \in Sub : Len(batch'[d]) < BatchMax
    <3>1. batch \in [Sub -> Seq(Nat)] /\ \A d \in Sub : Len(batch[d]) < BatchMax
      BY DEF WsInv, WsTypeOK
    <3>2. << >> \in Seq(Nat) /\ Len(<< >>) < BatchMax
      BY WsAssumption
    <3>3. batch' = batch \/ batch' = [batch EXCEPT ![c] = << >>]
      BY <1>3 DEF Send
    <3> QED
      BY <3>1, <3>2, <3>3
  <2>4. forwarder' \in [Sub -> {"off", "top", "get", "ended"}]
    BY <1>1 DEF WsInv, WsTypeOK
  <2> QED
    BY <1>1, <2>1, <2>2, <2>3, <2>4 DEF WsInv, WsTypeOK, BusInv
<1>6. Phases'
  BY <1>1, <1>4 DEF WsInv, WsTypeOK, Phases, busVars
<1>7. Settled(c)' = Settled(c) /\ UNCHANGED <<seq, joined, taken, dropped>>
  BY <1>1 DEF Settled, busVars
<1>8. page = c =>
        /\ Ascending(shown \o batch[c])
        /\ \A i \in 1 .. Len(shown \o batch[c]) : (shown \o batch[c])[i] <= Settled(c)'
        /\ \A i \in 1 .. Len(batch[c]) : batch[c][i] > joined[c]
        /\ Newer(shown, joined[c]) + Len(batch[c]) = taken'[c]
  BY <1>1, <1>7 DEF WsInv, ShownIsTaken
<1> QED
  BY <1>1, <1>2, <1>4, <1>5, <1>6, <1>7, <1>8, NewView

\* An event joins the control queues that have room for it.
LEMMA OfferTypes ==
    ASSUME WsInv, NEW c \in Sub, NEW event \in Event
    PROVE  Offer(c, event) \in Seq(Event) /\ Len(Offer(c, event)) <= CtrlSize
<1>1. /\ ctrl[c] \in Seq(Event) /\ Len(ctrl[c]) <= CtrlSize
      /\ CtrlSize \in Nat /\ Len(ctrl[c]) \in Nat
  <2>1. ctrl[c] \in Seq(Event) /\ Len(ctrl[c]) <= CtrlSize
    BY DEF WsInv, WsTypeOK
  <2> QED
    BY <2>1, WsAssumption
<1>2. /\ Append(ctrl[c], event) \in Seq(Event)
      /\ Len(Append(ctrl[c], event)) = Len(ctrl[c]) + 1
  BY <1>1
<1>3. Len(ctrl[c]) < CtrlSize => Len(ctrl[c]) + 1 <= CtrlSize
  BY <1>1
<1> QED
  BY <1>1, <1>2, <1>3 DEF Offer

LEMMA WorldView ==
    ASSUME WsInv, BusInv',
           \/ \E d \in Device : DeviceChanges(d) \/ DeviceRemoved(d)
           \/ PageLeaves
           \/ \E f \in Fetch : Answered(f) \/ Refresh(f) \/ RefreshFails(f)
    PROVE  WsInv'
<1>1. /\ UNCHANGED busVars /\ UNCHANGED <<handler, forwarder, batch, hub, shown, told>>
      /\ page' = page \/ page' = NoConn
  BY DEF DeviceChanges, DeviceRemoved, Becomes, PageLeaves, Answered, Refresh, RefreshFails,
    FetchFrame
<1> DEFINE Typed ==
        /\ ctrl \in [Sub -> Seq(Event)]
        /\ \A c \in Sub : Len(ctrl[c]) <= CtrlSize
        /\ devices \in [Device -> Nat] /\ changes \in Nat /\ table \in [Device -> Nat]
        /\ answer \in [Fetch -> [Device -> Nat] \union {NoAnswer}]
        /\ unheard \subseteq Device
<1>2. Typed'
  <2>0. WsTypeOK
    BY DEF WsInv
  <2>1. ASSUME NEW d \in Device, NEW n \in Nat, Becomes(d, n)
        PROVE  Typed'
    <3>1. /\ devices' \in [Device -> Nat] /\ changes' \in Nat /\ unheard' \subseteq Device
          /\ UNCHANGED <<table, answer>>
      BY <2>0, <2>1 DEF Becomes, WsTypeOK
    <3>2. \A c \in Sub : ctrl'[c] \in Seq(Event) /\ Len(ctrl'[c]) <= CtrlSize
      <4>1. [id |-> d, state |-> n] \in Event
        BY DEF Event
      <4> QED
        BY <2>0, <2>1, <4>1, OfferTypes DEF Becomes, WsTypeOK
    <3>3. ctrl' \in [Sub -> Seq(Event)]
      BY <2>1, <3>2 DEF Becomes
    <3> QED
      BY <2>0, <3>1, <3>2, <3>3 DEF WsTypeOK
  <2>2. ASSUME NEW d \in Device, DeviceChanges(d) \/ DeviceRemoved(d) PROVE Typed'
    <3>1. changes + 1 \in Nat /\ 0 \in Nat
      BY <2>0 DEF WsTypeOK
    <3> QED
      BY <2>1, <2>2, <3>1 DEF DeviceChanges, DeviceRemoved
  <2>3. CASE PageLeaves
    BY <2>0, <2>3 DEF PageLeaves, WsTypeOK
  <2>4. ASSUME NEW f \in Fetch, Answered(f) \/ RefreshFails(f) PROVE Typed'
    BY <2>0, <2>4 DEF Answered, RefreshFails, FetchFrame, WsTypeOK
  <2>5. ASSUME NEW f \in Fetch, Refresh(f) PROVE Typed'
    <3>1. answer[f] \in [Device -> Nat]
      BY <2>0, <2>5 DEF Refresh, WsTypeOK
    <3>2. table' \in [Device -> Nat]
      BY <2>0, <2>5, <3>1 DEF Refresh, Upserted, WsTypeOK
    <3>3. unheard' \subseteq Device
      BY <2>0, <2>5 DEF Refresh, WsTypeOK
    <3> QED
      BY <2>0, <2>5, <3>2, <3>3 DEF Refresh, FetchFrame, WsTypeOK
  <2> QED
    BY <2>2, <2>3, <2>4, <2>5
<1>3. WsTypeOK'
  BY <1>1, <1>2 DEF WsInv, WsTypeOK, BusInv
<1>4. Phases' /\ \A d \in Sub : page' = d => page = d
  BY <1>1, WsAssumption DEF WsInv, Phases, busVars
<1> QED
  BY <1>1, <1>3, <1>4, QuietView DEF busVars

-----------------------------------------------------------------------------
LEMMA WsStep == WsInv /\ [Next]_vars => WsInv'
<1> SUFFICES ASSUME WsInv, [Next]_vars PROVE WsInv'
  OBVIOUS
<1>0. BusInv'
  BY WsBusStep DEF WsInv
<1>1. CASE Publish /\ UNCHANGED wsVars
  BY <1>0, <1>1, PublishView
<1>2. CASE \/ \E d \in Device : DeviceChanges(d) \/ DeviceRemoved(d)
           \/ PageLeaves
           \/ \E f \in Fetch : Answered(f) \/ Refresh(f) \/ RefreshFails(f)
  BY <1>0, <1>2, WorldView
<1>3. ASSUME NEW c \in Sub, Connect(c) \/ Serve(c) \/ SnapshotFails(c) \/ Cancel(c) \/ Finish(c)
      PROVE  WsInv'
  BY <1>0, <1>3, ConnectView, ServeView, HandlerEndsView
<1>4. ASSUME NEW c \in Sub, Forward(c) PROVE WsInv'
  BY <1>0, <1>4, SmallForwardView, TakeView, TimeoutView DEF Forward
<1>5. CASE UNCHANGED vars
  <2>1. WsTypeOK' /\ Phases'
    BY <1>5 DEF vars, wsVars, busVars, WsInv, WsTypeOK, BusTypeOK, Phases
  <2> QED
    BY <1>0, <1>5, <2>1, QuietView DEF vars, wsVars, busVars
<1> QED
  BY <1>1, <1>2, <1>3, <1>4, <1>5 DEF Next

THEOREM WsInvariance == Spec => []WsInv
  BY WsInitInv, WsStep, PTL DEF Spec

\* The state of the live view keeps its type: a batch stays below BatchMax, a
\* control queue within its size.
THEOREM WsTypeCorrect == Spec => []WsTypeOK
  BY WsInvariance, PTL DEF WsInv

\* Whatever handlers, forwarders and pages do, the connections read the log in
\* order, and what one skips was counted as dropped for it.
THEOREM PagesReadInOrder == Spec => DeliveryInOrder
<1>1. WsInv => BusInv
  BY DEF WsInv
<1> QED
  BY <1>1, WsStepIsBusStep, BusStepReadsNext, WsInvariance, PTL DEF Spec, DeliveryInOrder

\* To the handlers and forwarders of the pages too, the bus is one log with a
\* cursor for each connection: the session module implements the cursor
\* specification through the bus that it composes.
THEOREM PagesImplementFanout == Spec => FanoutSpec
<1>1. WsInv => BusInv
  BY DEF WsInv
<1>2. Init => Fanout!Init
  BY InitFanout DEF Init
<1> QED
  BY <1>1, <1>2, WsStepIsBusStep, BusStepIsFanout, WsInvariance, PTL
  DEF Spec, FanoutSpec, Fanout!Spec

-----------------------------------------------------------------------------
(* What is on its way to the page *)

\* The page knows the dropped count, or a frame that will carry it is to come.
DropIsTold(c) ==
    /\ handler[c] \in {"off", "snapshot", "failed"} => told[c] = 0
    /\ page = c /\ handler[c] = "serving" =>
          told[c] = dropped[c] \/ batch[c] # << >> \/ queue[c] # << >>

\* The control queue of a page leads from what it shows to the present states,
\* and the queue of a connection to come is empty.
EventsLead(c) ==
    /\ handler[c] = "off" => c \notin hub /\ ctrl[c] = << >>
    /\ page = c => c \in hub /\ \A d \in Device \ unheard : LeadsTo(c, d, devices[d])

OnTheWay == \A c \in Sub : DropIsTold(c) /\ EventsLead(c)

\* A frame that goes out carries the count, and the batch goes with it.
LEMMA SendTells ==
    ASSUME WsInv, NEW c \in Sub, NEW records, Send(c, records), dropped' = dropped
    PROVE  /\ page = c => told'[c] = dropped'[c]
           /\ \A d \in Sub \ {c} : told'[d] = told[d] /\ batch'[d] = batch[d]
  BY DEF Send, WsInv, WsTypeOK

LEMMA TakeTells ==
    ASSUME WsInv, OnTheWay, NEW c \in Sub, TakeRecord(c) \/ GetTimeout(c)
    PROVE  OnTheWay'
<1>1. /\ UNCHANGED <<handler, hub, devices, page, unheard, ctrl, table, dropped>>
      /\ handler[c] \in {"serving", "closing"} /\ \A d \in Sub \ {c} : queue'[d] = queue[d]
  BY DEF TakeRecord, GetTimeout, Take, Dequeue, ForwarderFrame, busVars, WsInv, Phases,
    BusInv, BusTypeOK
<1>2. \A d \in Sub : EventsLead(d)'
  BY <1>1 DEF OnTheWay, EventsLead, LeadsTo, NoEvent
<1>3. /\ \A d \in Sub \ {c} : told'[d] = told[d] /\ batch'[d] = batch[d]
      /\ page = c => told'[c] = dropped'[c] \/ batch'[c] # << >> \/ queue'[c] # << >>
  <2>1. ASSUME NEW records, Send(c, records)
        PROVE  /\ \A d \in Sub \ {c} : told'[d] = told[d] /\ batch'[d] = batch[d]
               /\ page = c => told'[c] = dropped'[c]
    BY <1>1, <2>1, SendTells
  <2>2. CASE TakeRecord(c)
    <3> DEFINE records == Append(batch[c], Head(queue[c]))
    <3>1. \/ batch' = [batch EXCEPT ![c] = records] /\ UNCHANGED <<shown, told>>
          \/ Send(c, records)
      BY <2>2 DEF TakeRecord
    <3>2. records # << >> /\ batch \in [Sub -> Seq(Nat)]
      <4>1. queue[c] \in Seq(Nat \ {0}) /\ queue[c] # << >>
        BY <2>2 DEF TakeRecord, Take, Dequeue, WsInv, BusInv, BusTypeOK
      <4>2. batch \in [Sub -> Seq(Nat)] /\ Head(queue[c]) \in Nat
        BY <4>1 DEF WsInv, WsTypeOK
      <4> QED
        BY <4>2
    <3> HIDE DEF records
    <3> QED
      BY <2>1, <3>1, <3>2
  <2>3. CASE GetTimeout(c)
    <3>1. queue' = queue /\ ((UNCHANGED <<batch, shown, told>> /\ batch[c] = << >>) \/ Send(c, batch[c]))
      BY <2>3 DEF GetTimeout, busVars
    <3>2. CASE UNCHANGED <<batch, shown, told>> /\ batch[c] = << >>
      <4>1. page = c => handler[c] = "serving"
        BY <1>1 DEF WsInv, Phases
      <4> QED
        BY <1>1, <3>1, <3>2, <4>1 DEF OnTheWay, DropIsTold
    <3> QED
      BY <2>1, <3>1, <3>2
  <2> QED
    BY <2>2, <2>3
<1>4. \A d \in Sub : DropIsTold(d)'
  BY <1>1, <1>3 DEF OnTheWay, DropIsTold
<1> QED
  BY <1>2, <1>4 DEF OnTheWay

\* What a step does that leaves the records and the hub's connections alone.
QuietStep == UNCHANGED <<handler, page, told, dropped, batch, queue, hub>>

LEMMA QuietTells ==
    ASSUME OnTheWay, QuietStep PROVE \A c \in Sub : DropIsTold(c)'
  BY DEF OnTheWay, DropIsTold, QuietStep

\* An event of a device joins the control queue of the page, and has the last
\* word, or is thrown away.
LEMMA ChangeLeads ==
    ASSUME WsInv, OnTheWay, NEW d \in Device, NEW n \in Nat, Becomes(d, n) PROVE OnTheWay'
<1> DEFINE event == [id |-> d, state |-> n]
<1>1. /\ QuietStep /\ table' = table /\ devices' = [devices EXCEPT ![d] = n]
      /\ ctrl' = [c \in Sub |-> IF c \in hub THEN Offer(c, event) ELSE ctrl[c]]
  BY DEF Becomes, QuietStep, busVars
<1>2. ASSUME NEW c \in Sub PROVE EventsLead(c)'
  <2>1. handler'[c] = "off" => c \notin hub' /\ ctrl'[c] = << >>
    BY <1>1 DEF OnTheWay, EventsLead, QuietStep
  <2>2. ASSUME page = c, NEW o \in Device \ unheard' PROVE LeadsTo(c, o, devices[o])'
    <3>1. /\ c \in hub /\ ctrl'[c] = Offer(c, event)
          /\ ctrl[c] \in Seq(Event) /\ Len(ctrl[c]) \in Nat
          /\ devices'[o] = IF o = d THEN n ELSE devices[o]
      BY <1>1, <2>2 DEF OnTheWay, EventsLead, WsInv, WsTypeOK
    <3>2. unheard' = IF Len(ctrl[c]) < CtrlSize THEN unheard \ {d} ELSE unheard \union {d}
      BY <2>2, <3>1 DEF Becomes
    <3>3. CASE Len(ctrl[c]) < CtrlSize
      <4>1. /\ ctrl'[c] = Append(ctrl[c], event) /\ Len(ctrl'[c]) = Len(ctrl[c]) + 1
            /\ ctrl'[c][Len(ctrl[c]) + 1] = event
            /\ \A i \in 1 .. Len(ctrl[c]) : ctrl'[c][i] = ctrl[c][i]
            /\ DOMAIN ctrl'[c] = 1 .. Len(ctrl[c]) + 1 /\ DOMAIN ctrl[c] = 1 .. Len(ctrl[c])
        <5>1. event \in Event
          BY DEF Event
        <5> QED
          BY <3>1, <3>3, <5>1 DEF Offer
      <4>2. CASE o = d
        BY <3>1, <4>1, <4>2 DEF LeadsTo
      <4>3. CASE o # d
        <5>1. LeadsTo(c, o, devices[o])
          BY <2>2, <3>2, <3>3, <4>3 DEF OnTheWay, EventsLead
        <5>2. event.id # o /\ devices'[o] = devices[o]
          BY <3>1, <4>3
        <5>3. CASE NoEvent(c, o) /\ table[o] = devices[o]
          <6>1. ASSUME NEW i \in 1 .. Len(ctrl[c]) + 1 PROVE ctrl'[c][i].id # o
            <7>1. i \in 1 .. Len(ctrl[c]) \/ i = Len(ctrl[c]) + 1
              BY <3>1
            <7>2. \A j \in 1 .. Len(ctrl[c]) : ctrl[c][j].id # o
              BY <4>1, <5>3 DEF NoEvent
            <7> QED
              BY <4>1, <5>2, <7>1, <7>2
          <6> QED
            BY <1>1, <4>1, <5>2, <5>3, <6>1 DEF LeadsTo, NoEvent
        <5>4. CASE \E i \in DOMAIN ctrl[c] :
                     /\ ctrl[c][i] = [id |-> o, state |-> devices[o]]
                     /\ \A j \in DOMAIN ctrl[c] : j > i => ctrl[c][j].id # o
          <6>1. PICK i \in 1 .. Len(ctrl[c]) :
                     /\ ctrl[c][i] = [id |-> o, state |-> devices[o]]
                     /\ \A j \in 1 .. Len(ctrl[c]) : j > i => ctrl[c][j].id # o
            BY <4>1, <5>4
          <6>2. i \in DOMAIN ctrl'[c] /\ ctrl'[c][i] = [id |-> o, state |-> devices'[o]]
            BY <3>1, <4>1, <5>2, <6>1
          <6>3. ASSUME NEW j \in DOMAIN ctrl'[c], j > i PROVE ctrl'[c][j].id # o
            BY <3>1, <4>1, <5>2, <6>1, <6>3
          <6> QED
            BY <6>2, <6>3 DEF LeadsTo
        <5> QED
          BY <5>1, <5>3, <5>4 DEF LeadsTo
      <4> QED
        BY <4>2, <4>3
    <3>4. CASE ~(Len(ctrl[c]) < CtrlSize)
      <4>1. o # d /\ o \notin unheard /\ ctrl'[c] = ctrl[c]
        BY <2>2, <3>1, <3>2, <3>4 DEF Offer
      <4>2. LeadsTo(c, o, devices[o])
        BY <2>2, <4>1 DEF OnTheWay, EventsLead
      <4>3. devices'[o] = devices[o] /\ ctrl'[c] = ctrl[c] /\ table' = table
        BY <1>1, <3>1, <4>1
      <4> QED
        BY <4>2, <4>3 DEF LeadsTo, NoEvent
    <3> QED
      BY <3>3, <3>4
  <2>3. page' = c => c \in hub'
    BY <1>1 DEF OnTheWay, EventsLead, QuietStep
  <2> QED
    BY <1>1, <2>1, <2>2, <2>3 DEF EventsLead, QuietStep
<1> QED
  BY <1>1, <1>2, QuietTells DEF OnTheWay

\* The page gets the oldest event: unless a newer one of its device waits, it had
\* the last word.
LEMMA ControlLeads == ASSUME WsInv, OnTheWay, NEW c \in Sub, SendControl(c) PROVE OnTheWay'
<1> DEFINE event == Head(ctrl[c])
<1>1. /\ QuietStep /\ UNCHANGED <<devices, unheard>> /\ page = c /\ ctrl[c] # << >>
      /\ table' = [table EXCEPT ![event.id] = event.state]
      /\ ctrl' = [ctrl EXCEPT ![c] = Tail(@)] /\ forwarder[c] = "top"
  BY DEF SendControl, ForwarderFrame, QuietStep, busVars
<1>2. ASSUME NEW d \in Sub, d # c PROVE EventsLead(d)'
  BY <1>1, <1>2 DEF OnTheWay, EventsLead, QuietStep, WsInv, WsTypeOK
<1>3. EventsLead(c)'
  <2>1. handler[c] \in {"serving", "closing"} /\ c \in hub
    BY <1>1 DEF WsInv, Phases, OnTheWay, EventsLead
  <2>2. ASSUME NEW o \in Device \ unheard PROVE LeadsTo(c, o, devices[o])'
    <3>1. /\ ctrl[c] \in Seq(Event) /\ Len(ctrl[c]) \in Nat \ {0}
          /\ ctrl'[c] = Tail(ctrl[c]) /\ table \in [Device -> Nat]
      BY <1>1 DEF WsInv, WsTypeOK
    <3>2. /\ Len(ctrl'[c]) = Len(ctrl[c]) - 1
          /\ DOMAIN ctrl'[c] = 1 .. Len(ctrl[c]) - 1 /\ DOMAIN ctrl[c] = 1 .. Len(ctrl[c])
          /\ \A i \in 1 .. Len(ctrl[c]) - 1 : ctrl'[c][i] = ctrl[c][i + 1]
      BY <3>1
    <3>3. LeadsTo(c, o, devices[o]) /\ event = ctrl[c][1] /\ event \in Event
      <4>1. LeadsTo(c, o, devices[o])
        BY <1>1, <2>2 DEF OnTheWay, EventsLead
      <4> QED
        BY <3>1, <4>1
    <3> HIDE DEF event
    <3>4. CASE NoEvent(c, o) /\ table[o] = devices[o]
      <4>1. event.id # o /\ \A i \in 1 .. Len(ctrl[c]) - 1 : ctrl'[c][i].id # o
        <5>1. \A i \in 1 .. Len(ctrl[c]) : ctrl[c][i].id # o
          BY <3>2, <3>4 DEF NoEvent
        <5>2. \A i \in 1 .. Len(ctrl[c]) - 1 : i + 1 \in 1 .. Len(ctrl[c])
          BY <3>1
        <5>3. 1 \in 1 .. Len(ctrl[c])
          BY <3>1
        <5> QED
          BY <3>2, <3>3, <5>1, <5>2, <5>3
      <4>2. table'[o] = devices[o]
        BY <1>1, <3>1, <3>4, <4>1
      <4> QED
        BY <1>1, <3>2, <4>1, <4>2 DEF LeadsTo, NoEvent
    <3>5. CASE \E i \in DOMAIN ctrl[c] :
                  /\ ctrl[c][i] = [id |-> o, state |-> devices[o]]
                  /\ \A j \in DOMAIN ctrl[c] : j > i => ctrl[c][j].id # o
      <4>1. PICK i \in 1 .. Len(ctrl[c]) :
                  /\ ctrl[c][i] = [id |-> o, state |-> devices[o]]
                  /\ \A j \in 1 .. Len(ctrl[c]) : j > i => ctrl[c][j].id # o
        BY <3>2, <3>5
      <4>2. CASE i = 1
        <5>1. event.id = o /\ event.state = devices[o] /\ table'[o] = devices[o]
          BY <1>1, <3>1, <3>3, <4>1, <4>2
        <5>2. \A k \in 1 .. Len(ctrl[c]) - 1 : ctrl'[c][k].id # o
          <6> SUFFICES ASSUME NEW k \in 1 .. Len(ctrl[c]) - 1 PROVE ctrl'[c][k].id # o
            OBVIOUS
          <6>1. k + 1 \in 1 .. Len(ctrl[c]) /\ k + 1 > i
            BY <3>1, <4>2
          <6> QED
            BY <3>2, <4>1, <6>1
        <5> QED
          BY <1>1, <3>2, <5>1, <5>2 DEF LeadsTo, NoEvent
      <4>3. CASE i # 1
        <5>1. i - 1 \in DOMAIN ctrl'[c] /\ ctrl'[c][i - 1] = [id |-> o, state |-> devices[o]]
          <6>1. i - 1 \in 1 .. Len(ctrl[c]) - 1 /\ (i - 1) + 1 = i
            BY <3>1, <4>1, <4>3
          <6> QED
            BY <3>2, <4>1, <6>1
        <5>2. ASSUME NEW j \in DOMAIN ctrl'[c], j > i - 1 PROVE ctrl'[c][j].id # o
          <6>1. j \in 1 .. Len(ctrl[c]) - 1 /\ j + 1 \in 1 .. Len(ctrl[c]) /\ j + 1 > i
            BY <3>1, <3>2, <4>1, <5>2
          <6> QED
            BY <3>2, <4>1, <6>1
        <5> QED
          BY <1>1, <5>1, <5>2 DEF LeadsTo
      <4> QED
        BY <4>2, <4>3
    <3> QED
      BY <3>3, <3>4, <3>5 DEF LeadsTo
  <2> QED
    BY <1>1, <2>1, <2>2 DEF EventsLead, QuietStep
<1> QED
  BY <1>1, <1>2, <1>3, QuietTells DEF OnTheWay

\* An answer repairs what the page shows, or is taken note of as the stale word
\* that it is.
LEMMA AnswerLeads ==
    ASSUME WsInv, OnTheWay, NEW f \in Fetch, Answered(f) \/ Refresh(f) \/ RefreshFails(f)
    PROVE  OnTheWay'
<1>1. QuietStep /\ UNCHANGED <<devices, ctrl>>
  BY DEF Answered, Refresh, RefreshFails, FetchFrame, QuietStep, busVars
<1>2. ASSUME NEW c \in Sub PROVE EventsLead(c)'
  <2>1. CASE Answered(f) \/ RefreshFails(f)
    BY <1>1, <2>1 DEF Answered, RefreshFails, OnTheWay, EventsLead, LeadsTo, NoEvent, QuietStep
  <2>2. CASE Refresh(f)
    <3>1. ASSUME page = c, NEW d \in Device \ unheard' PROVE LeadsTo(c, d, devices[d])'
      <4> DEFINE final == {e \in Device : answer[f][e] # 0 /\ (page \in Sub => NoEvent(page, e))}
      <4>1. /\ table' = Upserted(answer[f])
            /\ unheard' = {e \in unheard \union final : e \in final => answer[f][e] # devices[e]}
        BY <2>2 DEF Refresh
      <4>2. table'[d] = IF answer[f][d] # 0 THEN answer[f][d] ELSE table[d]
        BY <4>1 DEF Upserted
      <4>3. CASE d \in final
        <5>1. answer[f][d] = devices[d] /\ answer[f][d] # 0 /\ NoEvent(c, d)
          BY <3>1, <4>1, <4>3
        <5> QED
          BY <1>1, <4>2, <5>1 DEF LeadsTo, NoEvent
      <4>4. CASE d \notin final
        <5>1. d \notin unheard
          BY <3>1, <4>1, <4>4
        <5>2. LeadsTo(c, d, devices[d]) /\ (answer[f][d] = 0 \/ ~NoEvent(c, d))
          BY <3>1, <4>4, <5>1 DEF OnTheWay, EventsLead
        <5> QED
          BY <1>1, <4>2, <5>2 DEF LeadsTo, NoEvent
      <4> QED
        BY <4>3, <4>4
    <3> QED
      BY <1>1, <3>1 DEF OnTheWay, EventsLead, QuietStep
  <2> QED
    BY <2>1, <2>2
<1> QED
  BY <1>1, <1>2, QuietTells DEF OnTheWay

\* The handler and the page come and go: a connection starts with the present
\* devices, nothing dropped and nothing waiting.
LEMMA ConnectionLeads ==
    ASSUME WsInv, OnTheWay, NEW c \in Sub,
           Connect(c) \/ Serve(c) \/ SnapshotFails(c) \/ Cancel(c) \/ Finish(c)
    PROVE  OnTheWay'
<1>1. CASE Connect(c)
  <2>1. /\ UNCHANGED <<ctrl, devices, told, dropped, batch, queue>>
        /\ page = NoConn /\ handler[c] = "off" /\ page' = c /\ table' = Upserted(devices)
        /\ unheard' = {d \in Device : devices[d] = 0 /\ table[d] # 0}
        /\ handler' = [handler EXCEPT ![c] = "snapshot"] /\ hub' = hub \union {c}
    BY <1>1 DEF Connect, busVars
  <2>2. ctrl[c] = << >> /\ DOMAIN ctrl[c] = {}
    BY <2>1 DEF OnTheWay, EventsLead
  <2>3. \A d \in Device \ unheard' : LeadsTo(c, d, devices[d])'
    BY <2>1, <2>2 DEF LeadsTo, NoEvent, Upserted
  <2>4. \A d \in Sub : DropIsTold(d)'
    BY <2>1 DEF OnTheWay, DropIsTold, WsInv, WsTypeOK
  <2>5. ASSUME NEW d \in Sub PROVE EventsLead(d)'
    BY <2>1, <2>3 DEF OnTheWay, EventsLead, WsInv, WsTypeOK
  <2> QED
    BY <2>4, <2>5 DEF OnTheWay
<1>2. CASE Serve(c)
  <2>1. /\ UNCHANGED <<ctrl, devices, table, unheard, told, dropped, batch, queue, page, hub>>
        /\ handler[c] = "snapshot" /\ handler' = [handler EXCEPT ![c] = "serving"] /\ joined[c] = -1
    BY <1>2 DEF Serve, HandlerFrame, Subscribe
  <2>2. dropped[c] = 0 /\ told[c] = 0
    BY <2>1 DEF OnTheWay, DropIsTold, WsInv, BusInv, Bounded, BoundedAt
  <2>3. \A d \in Sub : DropIsTold(d)'
    BY <2>1, <2>2 DEF OnTheWay, DropIsTold, WsInv, WsTypeOK
  <2>4. ASSUME NEW d \in Sub PROVE EventsLead(d)'
    <3>1. handler'[d] = "off" => handler[d] = "off"
      BY <2>1 DEF WsInv, WsTypeOK
    <3> QED
      BY <2>1, <3>1 DEF OnTheWay, EventsLead, LeadsTo, NoEvent
  <2> QED
    BY <2>3, <2>4 DEF OnTheWay
<1>3. CASE SnapshotFails(c) \/ Cancel(c) \/ Finish(c)
  <2>1. /\ UNCHANGED <<ctrl, devices, table, unheard, told, dropped, batch, queue, page>>
        /\ page # c /\ (hub' = hub \/ hub' = hub \ {c})
        /\ \/ handler[c] = "snapshot" /\ handler' = [handler EXCEPT ![c] = "failed"]
           \/ handler[c] = "serving" /\ handler' = [handler EXCEPT ![c] = "closing"]
           \/ handler[c] = "closing" /\ handler' = [handler EXCEPT ![c] = "over"]
    BY <1>3 DEF SnapshotFails, Cancel, Finish, HandlerFrame, Close, busVars, WsInv, Phases
  <2>2. \A d \in Sub : DropIsTold(d)'
    BY <2>1 DEF OnTheWay, DropIsTold, WsInv, WsTypeOK
  <2>3. ASSUME NEW d \in Sub PROVE EventsLead(d)'
    <3>1. handler'[d] = "off" => handler[d] = "off"
      BY <2>1 DEF WsInv, WsTypeOK
    <3>2. page = d => d # c
      BY <2>1
    <3> QED
      BY <2>1, <3>1, <3>2 DEF OnTheWay, EventsLead, LeadsTo, NoEvent
  <2> QED
    BY <2>2, <2>3 DEF OnTheWay
<1> QED
  BY <1>1, <1>2, <1>3

LEMMA OnTheWayStep == WsInv /\ OnTheWay /\ [Next]_vars => OnTheWay'
<1> SUFFICES ASSUME WsInv, OnTheWay, [Next]_vars PROVE OnTheWay'
  OBVIOUS
<1>1. CASE Publish /\ UNCHANGED wsVars
  <2>1. UNCHANGED <<handler, hub, devices, page, unheard, ctrl, table, told, batch>>
    BY <1>1 DEF wsVars
  <2>2. ASSUME NEW c \in Sub, handler[c] = "serving" PROVE queue'[c] # << >>
    <3>1. c \in open /\ QueueSize[c] # 0 /\ queue[c] \in Seq(Nat \ {0})
      BY <2>2, QueueSizeAssumption DEF WsInv, Phases, BusInv, BusTypeOK
    <3>2. queue'[c] = PushBounded(queue[c], NextSeq, QueueSize[c])
      BY <1>1, <3>1 DEF Publish
    <3>3. NextSeq \in Nat \ {0}
      BY DEF NextSeq, WsInv, BusInv, BusTypeOK
    <3>4. \A buf \in Seq(Nat \ {0}) : Append(buf, NextSeq) # << >>
      BY <3>3
    <3>5. queue[c] # << >> => Tail(queue[c]) \in Seq(Nat \ {0})
      BY <3>1
    <3>6. Len(queue[c]) >= QueueSize[c] => queue[c] # << >>
      BY <3>1, QueueSizeAssumption
    <3> QED
      BY <3>1, <3>2, <3>4, <3>5, <3>6 DEF PushBounded
  <2> QED
    BY <2>1, <2>2 DEF OnTheWay, DropIsTold, EventsLead, LeadsTo, NoEvent
<1>2. CASE PageLeaves
  <2>1. /\ UNCHANGED <<handler, hub, devices, unheard, ctrl, table, told, batch, queue, dropped>>
        /\ page' = NoConn
    BY <1>2 DEF PageLeaves, busVars
  <2> QED
    BY <2>1, WsAssumption DEF OnTheWay, DropIsTold, EventsLead
<1>3. ASSUME NEW d \in Device, DeviceChanges(d) \/ DeviceRemoved(d) PROVE OnTheWay'
  <2>1. changes + 1 \in Nat /\ 0 \in Nat
    BY DEF WsInv, WsTypeOK
  <2> QED
    BY <1>3, <2>1, ChangeLeads DEF DeviceChanges, DeviceRemoved
<1>4. ASSUME NEW c \in Sub,
             Connect(c) \/ Serve(c) \/ SnapshotFails(c) \/ Cancel(c) \/ Finish(c)
      PROVE  OnTheWay'
  BY <1>4, ConnectionLeads
<1>5. ASSUME NEW c \in Sub, Forward(c) PROVE OnTheWay'
  <2>1. CASE EndForwarder(c) \/ Interrupted(c) \/ AwaitRecord(c)
    BY <2>1 DEF EndForwarder, Interrupted, AwaitRecord, ForwarderFrame, busVars, OnTheWay,
      DropIsTold, EventsLead, LeadsTo, NoEvent
  <2> QED
    BY <1>5, <2>1, ControlLeads, TakeTells DEF Forward
<1>6. ASSUME NEW f \in Fetch, Answered(f) \/ Refresh(f) \/ RefreshFails(f) PROVE OnTheWay'
  BY <1>6, AnswerLeads
<1>7. CASE UNCHANGED vars
  BY <1>7 DEF vars, wsVars, busVars, OnTheWay, DropIsTold, EventsLead, LeadsTo, NoEvent
<1> QED
  BY <1>1, <1>2, <1>3, <1>4, <1>5, <1>6, <1>7 DEF Next

LEMMA OnTheWayAlways == Spec => [](WsInv /\ OnTheWay)
<1>1. Init => OnTheWay
  BY WsAssumption DEF Init, OnTheWay, DropIsTold, EventsLead
<1> QED
  BY <1>1, WsInvariance, OnTheWayStep, PTL DEF Spec

\* The page that has had the events on its way shows the present state of every
\* device, whichever snapshots, events and answers it was sent in whichever
\* order, except for the devices of which `unheard` says that a removal passed
\* it by, an event was thrown away or an old answer came last (register before
\* the snapshot in _ws, WSHub.broadcast, upsertDevice and refreshState of
\* web/app.js).
THEOREM EventsReachState == Spec => []EventsLeadToState
<1>1. WsInv /\ OnTheWay => EventsLeadToState
  <2> SUFFICES ASSUME WsInv, OnTheWay, page # NoConn
               PROVE  page \in hub /\ \A d \in Device \ unheard : LeadsTo(page, d, devices[d])
    BY DEF EventsLeadToState
  <2>1. page \in Sub
    BY DEF WsInv, WsTypeOK
  <2> QED
    BY <2>1 DEF OnTheWay, EventsLead
<1> QED
  BY <1>1, OnTheWayAlways, PTL

\* What is shown, collected and waiting is in order, and adds up.
LEMMA ViewFromInv == WsInv /\ OnTheWay => ViewFollowsLog
<1> SUFFICES ASSUME WsInv, OnTheWay, NEW c \in Sub, page = c, handler[c] = "serving"
             PROVE  /\ Ascending(shown \o batch[c] \o queue[c])
                    /\ told[c] = dropped[c] \/ batch[c] # << >> \/ queue[c] # << >>
                    /\ Newer(shown, joined[c]) + Len(batch[c]) + Len(queue[c]) + dropped[c]
                         = seq - joined[c]
  <2>1. DOMAIN shown = 1 .. Len(shown)
    BY DEF WsInv, WsTypeOK
  <2> QED
    BY <2>1 DEF ViewFollowsLog, Newer
<1> DEFINE flow == shown \o batch[c]
<1>1. /\ flow \in Seq(Int) /\ queue[c] \in Seq(Int) /\ Settled(c) \in Int
      /\ joined[c] \in Int /\ taken[c] \in Int /\ dropped[c] \in Int /\ seq \in Int
  <2>1. /\ shown \in Seq(Nat) /\ batch[c] \in Seq(Nat) /\ queue[c] \in Seq(Nat \ {0})
        /\ joined[c] \in Int /\ taken[c] \in Int /\ dropped[c] \in Int /\ seq \in Int
    BY DEF WsInv, WsTypeOK, BusInv, BusTypeOK
  <2> QED
    BY <2>1 DEF Settled
<1>2. IsRun(queue[c], Settled(c)) /\ Settled(c) + Len(queue[c]) = seq
  BY DEF WsInv, Phases, BusInv, QueueIsNextRun, NextRun
<1>3. /\ Ascending(flow) /\ \A i \in 1 .. Len(flow) : flow[i] <= Settled(c)
      /\ Newer(shown, joined[c]) + Len(batch[c]) = taken[c]
  BY DEF WsInv, ShownIsTaken
<1> HIDE DEF flow
<1>4. flow \o queue[c] \in Seq(Int) /\ Ascending(flow \o queue[c])
  BY <1>1, <1>2, <1>3, RunAscends, JoinAscending
<1>5. Newer(shown, joined[c]) + Len(batch[c]) + Len(queue[c]) + dropped[c] = seq - joined[c]
  <2>1. Len(queue[c]) \in Int
    BY <1>1
  <2>2. taken[c] + Len(queue[c]) + dropped[c] = seq - joined[c]
    BY <1>1, <1>2, <2>1 DEF Settled
  <2> QED
    BY <1>3, <2>2
<1> QED
  BY <1>4, <1>5 DEF flow, OnTheWay, DropIsTold

\* What a page lists is the log in its order without a repeat, also across a
\* reconnect while the handler it lost still winds down, and every record
\* published since it subscribed is listed, on its way or counted as dropped,
\* in a count that the page knows or is about to be sent (_ws and _forward of
\* server.py, connect of web/app.js).
THEOREM PageFollowsLog == Spec => []ViewFollowsLog
  BY OnTheWayAlways, ViewFromInv, PTL

-----------------------------------------------------------------------------
(* The files *)


\* Each rotation used up a batch of at least one record.
SinkPhase ==
    /\ seq <= MaxPublished
    /\ rotations + (IF sink \in {"write", "rotate"} THEN 1 ELSE 0) <= taken[file]

\* What was read is settled; the batch is the newest of it.
BatchIsNewest ==
    /\ \A n \in given : 1 <= n /\ n <= Settled(file)
    /\ Ascending(writing) /\ ToSet(writing) \subseteq given /\ ToSet(writing) \intersect lost = {}

\* The files of a kind hold the counted lines, and only halves of records that
\* are older than the batch.
IsHalf(h, n) == h = 2 * n - 1 \/ h = 2 * n
FilesHold(k) ==
    /\ FilesInOrder(k)
    /\ \A n \in rotations + 1 .. MaxPublished : archive[k][n] = << >>
    /\ \A n \in Counted : 2 * n - 1 \in InFiles(k) /\ 2 * n \in InFiles(k)
    /\ \A h \in InFiles(k) : \E n \in given \ ToSet(writing) :
          IsHalf(h, n) /\ \A i \in 1 .. Len(writing) : n < writing[i]

\* The inductive invariant.
SinkInv ==
    /\ BusInv /\ FileTypeOK /\ SinkPhase /\ BatchIsNewest
    /\ Cardinality(Counted) = linesWritten
    /\ \A k \in Kind : FilesHold(k)

-----------------------------------------------------------------------------
(* Half lines *)

LEMMA HalfAt ==
    ASSUME NEW i \in Nat \ {0}
    PROVE  /\ (i + 1) \div 2 \in Nat \ {0} /\ i % 2 \in {0, 1}
           /\ i = 2 * ((i + 1) \div 2) - (i % 2)
  OBVIOUS

LEMMA HalvesOrder ==
    ASSUME NEW x \in Nat, NEW y \in Nat, x < y, NEW a \in {0, 1}, NEW c \in {0, 1}
    PROVE  2 * x - a < 2 * y - c
  OBVIOUS

\* The halves of an ascending list of records ascend, and are both halves of
\* each.
LEMMA HalvesOf ==
    ASSUME NEW b \in Seq(Nat), Ascending(b)
    PROVE  /\ Halves(b) \in Seq(Int) /\ Len(Halves(b)) = 2 * Len(b)
           /\ Ascending(Halves(b))
           /\ \A i \in 1 .. 2 * Len(b) : \E j \in 1 .. Len(b) : IsHalf(Halves(b)[i], b[j])
           /\ \A j \in 1 .. Len(b) :
                 /\ 2 * j - 1 \in 1 .. 2 * Len(b) /\ Halves(b)[2 * j - 1] = 2 * b[j] - 1
                 /\ 2 * j \in 1 .. 2 * Len(b) /\ Halves(b)[2 * j] = 2 * b[j]
<1>1. Len(b) \in Nat /\ 2 * Len(b) \in Nat /\ \A j \in 1 .. Len(b) : b[j] \in Nat
  OBVIOUS
<1>2. ASSUME NEW i \in 1 .. 2 * Len(b)
      PROVE  LET j == (i + 1) \div 2 IN
             /\ j \in 1 .. Len(b) /\ i % 2 \in {0, 1} /\ i = 2 * j - (i % 2)
             /\ Halves(b)[i] = 2 * b[j] - (i % 2) /\ Halves(b)[i] \in Int
             /\ IsHalf(Halves(b)[i], b[j])
  <2> DEFINE j == (i + 1) \div 2
             half == i % 2
  <2>1. j \in Nat \ {0} /\ half \in {0, 1} /\ i = 2 * j - half
    BY <1>1, HalfAt
  <2>2. Halves(b)[i] = 2 * b[j] - half
    BY DEF Halves
  <2> HIDE DEF j, half
  <2>3. j \in 1 .. Len(b)
    BY <1>1, <2>1
  <2>4. Halves(b)[i] \in Int /\ IsHalf(Halves(b)[i], b[j])
    BY <1>1, <2>1, <2>2, <2>3 DEF IsHalf
  <2> QED
    BY <2>1, <2>2, <2>3, <2>4 DEF j, half
<1>3. Halves(b) \in Seq(Int) /\ Len(Halves(b)) = 2 * Len(b)
  <2> DEFINE len == 2 * Len(b)
  <2>1. Halves(b) = [i \in 1 .. len |-> Halves(b)[i]]
    BY DEF Halves
  <2>2. \A i \in 1 .. len : Halves(b)[i] \in Int
    BY <1>2
  <2> HIDE DEF len
  <2>3. len \in Nat
    BY <1>1 DEF len
  <2>4. Halves(b) \in [1 .. len -> Int]
    BY <2>1, <2>2
  <2>5. Halves(b) \in Seq(Int)
    BY <2>3, <2>4
  <2>6. Len(Halves(b)) = len
    BY <2>3, <2>4, <2>5
  <2> QED
    BY <2>5, <2>6 DEF len
<1>4. Ascending(Halves(b))
  <2> SUFFICES ASSUME NEW i \in 1 .. 2 * Len(b), NEW m \in 1 .. 2 * Len(b), i < m
               PROVE  Halves(b)[i] < Halves(b)[m]
    BY <1>3 DEF Ascending
  <2> DEFINE j == (i + 1) \div 2
             n == (m + 1) \div 2
             hi == i % 2
             hm == m % 2
  <2>1. /\ j \in 1 .. Len(b) /\ hi \in {0, 1} /\ i = 2 * j - hi /\ Halves(b)[i] = 2 * b[j] - hi
        /\ n \in 1 .. Len(b) /\ hm \in {0, 1} /\ m = 2 * n - hm /\ Halves(b)[m] = 2 * b[n] - hm
    BY <1>2
  <2> HIDE DEF j, n, hi, hm
  <2>2. b[j] \in Nat /\ b[n] \in Nat /\ j \in Nat /\ n \in Nat
    BY <1>1, <2>1
  <2>3. j < n \/ (j = n /\ hi = 1 /\ hm = 0)
    <3>1. 2 * j - hi < 2 * n - hm
      BY <2>1
    <3>2. (hi = 0 \/ hi = 1) /\ (hm = 0 \/ hm = 1)
      BY <2>1
    <3> QED
      BY ONLY <2>2, <3>1, <3>2
  <2>4. j < n => b[j] < b[n]
    BY <2>1 DEF Ascending
  <2>5. CASE j < n
    <3>1. (hi = 0 \/ hi = 1) /\ (hm = 0 \/ hm = 1) /\ b[j] < b[n]
      BY <2>1, <2>4, <2>5
    <3>2. 2 * b[j] - hi < 2 * b[n] - hm
      BY <2>1, <2>2, <3>1, HalvesOrder
    <3> QED
      BY <2>1, <3>2
  <2>6. CASE j = n /\ hi = 1 /\ hm = 0
    BY <2>1, <2>2, <2>6
  <2> QED
    BY <2>3, <2>5, <2>6
<1>5. ASSUME NEW j \in 1 .. Len(b)
      PROVE  /\ 2 * j - 1 \in 1 .. 2 * Len(b) /\ Halves(b)[2 * j - 1] = 2 * b[j] - 1
             /\ 2 * j \in 1 .. 2 * Len(b) /\ Halves(b)[2 * j] = 2 * b[j]
  <2>1. 2 * j - 1 \in 1 .. 2 * Len(b) /\ 2 * j \in 1 .. 2 * Len(b)
    BY <1>1
  <2>2. /\ ((2 * j - 1) + 1) \div 2 = j /\ (2 * j - 1) % 2 = 1
        /\ (2 * j + 1) \div 2 = j /\ (2 * j) % 2 = 0
    <3>1. j \in Int
      BY <1>1
    <3> QED
      BY <3>1
  <2>3. Halves(b)[2 * j - 1] = 2 * b[((2 * j - 1) + 1) \div 2] - ((2 * j - 1) % 2)
    BY <2>1 DEF Halves
  <2>4. Halves(b)[2 * j] = 2 * b[(2 * j + 1) \div 2] - ((2 * j) % 2)
    BY <2>1 DEF Halves
  <2>5. b[j] \in Int
    BY <1>1
  <2> QED
    BY <2>1, <2>2, <2>3, <2>4, <2>5
<1>6. ASSUME NEW i \in 1 .. 2 * Len(b)
      PROVE  \E j \in 1 .. Len(b) : IsHalf(Halves(b)[i], b[j])
  BY <1>2
<1> QED
  BY <1>3, <1>4, <1>5, <1>6

\* The front of a list.
LEMMA FrontPart ==
    ASSUME NEW s \in Seq(Int), NEW m \in 0 .. Len(s)
    PROVE  /\ SubSeq(s, 1, m) \in Seq(Int) /\ Len(SubSeq(s, 1, m)) = m
           /\ \A i \in 1 .. m : SubSeq(s, 1, m)[i] = s[i]
           /\ Ascending(s) => Ascending(SubSeq(s, 1, m))
<1>1. /\ SubSeq(s, 1, m) \in Seq(Int) /\ Len(SubSeq(s, 1, m)) = m
      /\ \A i \in 1 .. m : SubSeq(s, 1, m)[i] = s[i]
  OBVIOUS
<1>2. 1 .. m \subseteq 1 .. Len(s)
  OBVIOUS
<1> QED
  BY <1>1, <1>2 DEF Ascending

-----------------------------------------------------------------------------
(* The steps of the bus *)

LEMMA InFilesMeans ==
    ASSUME NEW k, NEW h
    PROVE  h \in InFiles(k) <=>
              \/ h \in ToSet(text[k])
              \/ \E n \in 1 .. MaxPublished : h \in ToSet(archive[k][n])
  BY DEF InFiles

LEMMA InList ==
    ASSUME NEW s \in Seq(Int), NEW h
    PROVE  h \in ToSet(s) <=> \E i \in 1 .. Len(s) : h = s[i]
  BY DEF ToSet

LEMMA JoinHolds ==
    ASSUME NEW s \in Seq(Nat), NEW t \in Seq(Int), \A i \in 1 .. Len(t) : t[i] \in Nat
    PROVE  /\ s \o t \in Seq(Nat) /\ Len(s \o t) = Len(s) + Len(t)
           /\ ToSet(s \o t) = ToSet(s) \union ToSet(t)
           /\ \A i \in 1 .. Len(s \o t) : (s \o t)[i] \in ToSet(s) \union ToSet(t)
<1>1. t \in Seq(Nat)
  OBVIOUS
<1>2. /\ s \o t \in Seq(Nat) /\ Len(s \o t) = Len(s) + Len(t)
      /\ \A i \in 1 .. Len(s \o t) : (s \o t)[i] = IF i <= Len(s) THEN s[i] ELSE t[i - Len(s)]
  BY <1>1
<1>3. /\ ToSet(s) = {s[i] : i \in 1 .. Len(s)} /\ ToSet(t) = {t[i] : i \in 1 .. Len(t)}
      /\ ToSet(s \o t) = {(s \o t)[i] : i \in 1 .. Len(s \o t)}
  <2>1. \A l \in Seq(Nat) : ToSet(l) = {l[i] : i \in 1 .. Len(l)}
    BY DEF ToSet
  <2> QED
    BY <1>1, <1>2, <2>1
<1>4. Len(s) \in Nat /\ Len(t) \in Nat
  OBVIOUS
<1>5. ASSUME NEW i \in 1 .. Len(s \o t) PROVE (s \o t)[i] \in ToSet(s) \union ToSet(t)
  <2>1. CASE i <= Len(s)
    BY <1>2, <1>3, <1>4, <2>1
  <2>2. CASE i > Len(s)
    <3>1. i - Len(s) \in 1 .. Len(t) /\ (s \o t)[i] = t[i - Len(s)]
      BY <1>2, <1>4, <2>2
    <3> QED
      BY <1>3, <3>1
  <2> QED
    BY <1>4, <2>1, <2>2
<1>6. ASSUME NEW i \in 1 .. Len(s) PROVE s[i] \in ToSet(s \o t)
  <2>1. i \in 1 .. Len(s \o t) /\ (s \o t)[i] = s[i]
    BY <1>2, <1>4
  <2> QED
    BY <1>3, <2>1
<1>7. ASSUME NEW i \in 1 .. Len(t) PROVE t[i] \in ToSet(s \o t)
  <2>1. Len(s) + i \in 1 .. Len(s \o t) /\ (s \o t)[Len(s) + i] = t[i]
    BY <1>2, <1>4
  <2> QED
    BY <1>3, <2>1
<1> QED
  BY <1>2, <1>3, <1>5, <1>6, <1>7

\* One batch off the front of the queue.
LEMMA DrainFacts ==
    ASSUME BusInv, queue[file] # << >>
    PROVE  LET q == queue[file]
               m == Len(Drained) IN
           /\ joined[file] # -1 /\ Settled(file) \in Int /\ Settled(file) >= 0
           /\ q \in Seq(Nat \ {0}) /\ m \in 1 .. Len(q)
           /\ Drained \in Seq(Nat \ {0})
           /\ \A i \in 1 .. m : Drained[i] = Settled(file) + i
           /\ SubSeq(q, m + 1, Len(q)) \in Seq(Nat \ {0})
           /\ Len(SubSeq(q, m + 1, Len(q))) = Len(q) - m
           /\ \A i \in 1 .. Len(q) - m : SubSeq(q, m + 1, Len(q))[i] = Settled(file) + m + i
           /\ Last(Drained) = Settled(file) + m
<1> DEFINE q == queue[file]
           m == Min({DrainMax + 1, Len(q)})
<1> USE FileSinkAssumption, QueueSizeAssumption
<1>1. q \in Seq(Nat \ {0}) /\ Len(q) \in Nat \ {0}
  BY DEF BusInv, BusTypeOK
<1>2. /\ joined[file] # -1 /\ Settled(file) \in Int /\ Settled(file) >= 0
      /\ \A i \in 1 .. Len(q) : q[i] = Settled(file) + i
  <2>1. joined[file] # -1
    BY DEF BusInv, Bounded, BoundedAt
  <2>2. joined[file] \in Nat /\ taken[file] \in Nat /\ dropped[file] \in Nat
    BY <2>1 DEF BusInv, BusTypeOK
  <2>3. IsRun(q, Settled(file))
    BY <2>1 DEF BusInv, QueueIsNextRun, NextRun
  <2> QED
    BY <2>1, <2>2, <2>3 DEF IsRun, Settled
<1>3. m \in 1 .. Len(q)
  <2> DEFINE S == {DrainMax + 1, Len(q)}
  <2>1. \E x \in S : \A y \in S : x <= y
    BY <1>1
  <2>2. Min(S) \in S /\ \A y \in S : Min(S) <= y
    BY <2>1 DEF Min
  <2> QED
    BY <1>1, <2>2
<1>4. Drained = SubSeq(q, 1, m)
  BY DEF Drained
<1> HIDE DEF q, m
<1>5. /\ Drained \in Seq(Nat \ {0}) /\ Len(Drained) = m
      /\ \A i \in 1 .. m : Drained[i] = q[i]
  BY <1>1, <1>3, <1>4
<1>6. /\ SubSeq(q, m + 1, Len(q)) \in Seq(Nat \ {0})
      /\ Len(SubSeq(q, m + 1, Len(q))) = Len(q) - m
      /\ \A i \in 1 .. Len(q) - m : SubSeq(q, m + 1, Len(q))[i] = q[m + i]
  BY <1>1, <1>3
<1>7. \A i \in 1 .. m : Drained[i] = Settled(file) + i
  <2>1. 1 .. m \subseteq 1 .. Len(q)
    BY <1>1, <1>3
  <2> QED
    BY <1>2, <1>5, <2>1 DEF q
<1>8. \A i \in 1 .. Len(q) - m : SubSeq(q, m + 1, Len(q))[i] = Settled(file) + m + i
  BY <1>1, <1>2, <1>3, <1>6
<1>9. Last(Drained) = Settled(file) + m
  BY <1>3, <1>5, <1>7 DEF Last
<1> QED
  BY <1>1, <1>2, <1>3, <1>5, <1>6, <1>7, <1>8, <1>9 DEF q

LEMMA ReadBus ==
    ASSUME BusInv, Read
    PROVE  /\ BusInv'
           /\ Settled(file)' = Settled(file) + Len(Drained)
           /\ taken'[file] = taken[file] + Len(Drained)
<1> USE FileSinkAssumption, QueueSizeAssumption
<1> DEFINE q == queue[file]
           m == Len(Drained)
           rest == SubSeq(q, m + 1, Len(q))
<1>1. /\ queue' = [queue EXCEPT ![file] = rest]
      /\ taken' = [taken EXCEPT ![file] = @ + m]
      /\ last' = [last EXCEPT ![file] = Last(Drained)]
      /\ UNCHANGED <<seq, ring, open, dropped, joined>> /\ q # << >>
  BY DEF Read
<1>2. /\ joined[file] # -1 /\ Settled(file) \in Int /\ Settled(file) >= 0
      /\ q \in Seq(Nat \ {0}) /\ m \in 1 .. Len(q)
      /\ rest \in Seq(Nat \ {0}) /\ Len(rest) = Len(q) - m
      /\ \A i \in 1 .. Len(q) - m : rest[i] = Settled(file) + m + i
      /\ Last(Drained) = Settled(file) + m
  BY <1>1, DrainFacts
<1>3. /\ queue \in [Sub -> Seq(Nat \ {0})] /\ taken \in [Sub -> Nat] /\ last \in [Sub -> Nat]
      /\ joined[file] \in Nat /\ dropped[file] \in Nat /\ seq \in Nat /\ Len(q) \in Nat
      /\ Len(q) <= QueueSize[file] /\ QueueSize[file] \in Nat
      /\ Settled(file) + Len(q) <= seq
      /\ file \in open => Settled(file) + Len(q) = seq
      /\ last[file] <= Settled(file)
  <2>1. /\ queue \in [Sub -> Seq(Nat \ {0})] /\ taken \in [Sub -> Nat] /\ last \in [Sub -> Nat]
        /\ joined[file] \in Nat /\ dropped[file] \in Nat /\ seq \in Nat
    BY <1>2 DEF BusInv, BusTypeOK
  <2>2. NextRun(file) /\ BoundedAt(file)
    BY DEF BusInv, QueueIsNextRun, Bounded
  <2>3. Len(q) \in Nat
    BY <1>2
  <2> QED
    BY <1>2, <2>1, <2>2, <2>3 DEF NextRun, BoundedAt
<1> HIDE DEF m, rest, q
<1>4. /\ queue'[file] = rest /\ taken'[file] = taken[file] + m /\ last'[file] = Settled(file) + m
      /\ \A s \in Sub \ {file} : queue'[s] = queue[s] /\ taken'[s] = taken[s] /\ last'[s] = last[s]
      /\ m \in Nat
  BY <1>1, <1>2, <1>3
<1>5. Settled(file)' = Settled(file) + m
  <2>1. joined[file] + (taken[file] + m) + dropped[file] = joined[file] + taken[file] + dropped[file] + m
    BY <1>3, <1>4
  <2> QED
    BY <1>1, <1>4, <2>1 DEF Settled
<1>6. BusTypeOK' /\ RingIsNewest'
  <2>1. queue' \in [Sub -> Seq(Nat \ {0})]
    BY <1>1, <1>2, <1>3
  <2>2. taken[file] + m \in Nat /\ Settled(file) + m \in Nat
    <3>1. taken[file] \in Nat /\ Settled(file) \in Nat
      BY <1>2, <1>3
    <3> QED
      BY <1>4, <3>1
  <2>3. taken' \in [Sub -> Nat]
    BY <1>1, <1>3, <2>2 DEF m
  <2>4. last' \in [Sub -> Nat]
    BY <1>1, <1>2, <1>3, <2>2
  <2> QED
    BY <1>1, <2>1, <2>3, <2>4 DEF BusInv, BusTypeOK, RingIsNewest
<1>7. NextRun(file)' /\ BoundedAt(file)'
  <2>1. Len(rest) <= QueueSize[file]
    BY <1>2, <1>3
  <2>2. IsRun(rest, Settled(file) + m)
    BY <1>2 DEF IsRun
  <2>3. (Settled(file) + m) + Len(rest) = Settled(file) + Len(q)
    BY <1>2, <1>3, <1>4
  <2>4. NextRun(file)'
    BY <1>1, <1>3, <1>4, <1>5, <2>1, <2>2, <2>3 DEF NextRun
  <2>5. joined'[file] # -1
    BY <1>1, <1>2
  <2>6. Settled(file)' + Len(queue'[file]) <= seq'
    BY <1>1, <1>3, <1>4, <1>5, <2>3
  <2>7. last'[file] <= Settled(file)'
    <3>1. Settled(file) + m \in Int
      BY <1>2, <1>4
    <3> QED
      BY <1>4, <1>5, <3>1
  <2> QED
    BY <2>4, <2>5, <2>6, <2>7 DEF BoundedAt
<1>8. ASSUME NEW s \in Sub \ {file} PROVE NextRun(s)' /\ BoundedAt(s)'
  <2>1. Settled(s)' = Settled(s)
    BY <1>1, <1>4 DEF Settled
  <2>2. NextRun(s) /\ BoundedAt(s)
    BY DEF BusInv, QueueIsNextRun, Bounded
  <2> QED
    BY <1>1, <1>4, <2>1, <2>2 DEF NextRun, BoundedAt
<1> QED
  BY <1>4, <1>5, <1>6, <1>7, <1>8 DEF BusInv, QueueIsNextRun, Bounded, m

\* The sink closes its subscription, or leaves the bus alone.
LEMMA QuietBus ==
    ASSUME BusInv, QueuesUntouched, open' = open \/ open' = open \ {file}
    PROVE  BusInv' /\ Settled(file)' = Settled(file) /\ taken'[file] = taken[file] /\ seq' = seq
<1>1. [BusNext]_busVars
  <2>1. CASE open' = open
    BY <2>1 DEF QueuesUntouched, busVars
  <2>2. CASE open' # open
    BY <2>2, FileSinkAssumption DEF QueuesUntouched, BusNext, Close
  <2> QED
    BY <2>1, <2>2
<1> QED
  BY <1>1, StepInv DEF QueuesUntouched, Settled

\* What the invariant says of single variables.
LEMMA SinkFacts ==
    ASSUME SinkInv
    PROVE  /\ writing \in Seq(Nat) /\ given \subseteq Nat /\ lost \subseteq given
           /\ \A k \in Kind : text[k] \in Seq(Int)
           /\ \A k \in Kind, n \in 1 .. MaxPublished : archive[k][n] \in Seq(Int)
           /\ Settled(file) \in Int /\ taken[file] \in Nat /\ seq \in Nat /\ rotations \in Nat
           /\ taken[file] <= seq /\ MaxPublished \in Nat
           /\ IsFiniteSet(given) /\ IsFiniteSet(Counted) /\ Counted \subseteq given
<1> USE FileSinkAssumption, MaxPublishedAssumption
<1>1. /\ writing \in Seq(Nat) /\ given \subseteq Nat /\ lost \subseteq given /\ rotations \in Nat
      /\ text \in [Kind -> Seq(Nat)]
      /\ archive \in [Kind -> [1 .. MaxPublished -> Seq(Nat)]]
  BY DEF SinkInv, FileTypeOK
<1>2. Seq(Nat) \subseteq Seq(Int)
  OBVIOUS
<1>3. /\ joined[file] \in Nat \union {-1} /\ taken[file] \in Nat /\ dropped[file] \in Nat
      /\ seq \in Nat /\ queue[file] \in Seq(Nat \ {0})
      /\ BoundedAt(file)
  BY DEF SinkInv, BusInv, BusTypeOK, Bounded
<1>4. Settled(file) \in Int /\ Len(queue[file]) \in Nat
  BY <1>3 DEF Settled
<1>5. taken[file] <= seq
  <2>1. CASE joined[file] = -1
    BY <1>3, <2>1 DEF BoundedAt
  <2>2. CASE joined[file] # -1
    <3>1. joined[file] + taken[file] + dropped[file] + Len(queue[file]) <= seq
      BY <1>3, <2>2 DEF BoundedAt, Settled
    <3> QED
      BY <1>3, <1>4, <2>2, <3>1
  <2> QED
    BY <2>1, <2>2
<1>6. IsFiniteSet(given)
  <2>1. \A n \in given : n \in Nat /\ n <= Settled(file)
    BY <1>1 DEF SinkInv, BatchIsNewest
  <2>2. CASE Settled(file) \in Nat
    BY <1>1, <2>1, <2>2, FS_BoundedSetOfNaturals
  <2>3. CASE Settled(file) \notin Nat
    <3>1. given = {}
      BY <1>4, <2>1, <2>3
    <3> QED
      BY <3>1, FS_EmptySet
  <2> QED
    BY <2>2, <2>3
<1>7. IsFiniteSet(Counted) /\ Counted \subseteq given
  <2>1. Counted \subseteq given
    BY DEF Counted
  <2> QED
    BY <1>6, <2>1, FS_Subset
<1> QED
  BY <1>1, <1>2, <1>3, <1>4, <1>5, <1>6, <1>7

\* A step that leaves the records and the files alone.
LEMMA QuietFiles ==
    ASSUME SinkInv, BusInv', FileTypeOK', SinkPhase',
           UNCHANGED <<writing, text, archive, rotations, linesWritten, given, lost>>,
           Settled(file) <= Settled(file)', Settled(file)' \in Int
    PROVE  SinkInv'
<1>1. BatchIsNewest'
  BY SinkFacts DEF SinkInv, BatchIsNewest
<1>2. \A k \in Kind : FilesHold(k)'
  BY DEF SinkInv, FilesHold, FilesInOrder, InFiles, Counted
<1> QED
  BY <1>1, <1>2 DEF SinkInv, Counted

LEMMA RunSinkFiles == ASSUME SinkInv, RunSink PROVE SinkInv'
<1> USE FileSinkAssumption
<1>1. BusInv'
  BY SubscribeInv DEF RunSink, SinkInv
<1>2. Settled(file) <= Settled(file)' /\ Settled(file)' \in Int /\ taken' = taken /\ seq' = seq
  <2>1. joined \in [Sub -> Nat \union {-1}] /\ taken[file] \in Nat /\ dropped[file] \in Nat /\ seq \in Nat
    BY DEF SinkInv, BusInv, BusTypeOK
  <2>2. joined[file] = -1 /\ joined' = [joined EXCEPT ![file] = seq] /\ UNCHANGED <<taken, dropped, seq>>
    BY DEF RunSink, Subscribe
  <2>3. joined'[file] = seq
    BY <2>1, <2>2
  <2> QED
    BY <2>1, <2>2, <2>3 DEF Settled
<1>3. /\ UNCHANGED <<writing, text, archive, rotations, linesWritten, given, lost, failures, stopping>>
      /\ sink = "off" /\ sink' = "started"
  BY DEF RunSink, FilesUntouched
<1>4. FileTypeOK'
  BY <1>1, <1>3 DEF SinkInv, FileTypeOK, BusInv
<1>5. SinkPhase'
  BY <1>2, <1>3 DEF SinkInv, SinkPhase
<1> QED
  BY <1>1, <1>2, <1>3, <1>4, <1>5, QuietFiles

LEMMA RoundFiles ==
    ASSUME SinkInv, sink \in {"started", "get"},
           sink' \in {"get", "done"}, open' = open \/ open' = open \ {file},
           UNCHANGED <<stopping, writing>>, QueuesUntouched, FilesUntouched
    PROVE  SinkInv'
<1>1. BusInv' /\ Settled(file)' = Settled(file) /\ taken'[file] = taken[file] /\ seq' = seq
  BY QuietBus DEF SinkInv
<1>2. FileTypeOK'
  BY <1>1 DEF SinkInv, FileTypeOK, BusInv, FilesUntouched
<1>3. SinkPhase'
  BY <1>1 DEF SinkInv, SinkPhase, FilesUntouched
<1> QED
  BY <1>1, <1>2, <1>3, QuietFiles, SinkFacts DEF FilesUntouched

\* Records arrive, or the flag is set.
LEMMA OutsideFiles ==
    ASSUME SinkInv, (Publish /\ UNCHANGED fileVars) \/ CloseSink
    PROVE  SinkInv'
<1> USE FileSinkAssumption
<1>1. /\ UNCHANGED <<writing, text, archive, rotations, linesWritten, given, lost, failures, sink>>
      /\ stopping' \in BOOLEAN
  BY DEF fileVars, CloseSink, FilesUntouched, SinkInv, FileTypeOK
<1>2. BusInv' /\ taken' = taken /\ joined' = joined /\ seq' <= MaxPublished
  <2>1. CASE Publish
    <3>1. seq \in Nat
      BY DEF SinkInv, BusInv, BusTypeOK
    <3> QED
      BY <2>1, <3>1, PublishInv, MaxPublishedAssumption DEF SinkInv, Publish
  <2>2. CASE UNCHANGED busVars
    BY <2>2, StepInv DEF SinkInv, SinkPhase, busVars
  <2> QED
    BY <2>1, <2>2 DEF CloseSink
<1>3. Settled(file) <= Settled(file)' /\ Settled(file)' \in Int
  <2>1. /\ joined[file] \in Int /\ taken[file] \in Int /\ dropped[file] \in Int
    BY DEF SinkInv, BusInv, BusTypeOK
  <2>2. dropped'[file] = dropped[file] \/ dropped'[file] = dropped[file] + 1
    BY DEF Publish, CloseSink, busVars
  <2> QED
    BY <1>2, <2>1, <2>2 DEF Settled
<1>4. FileTypeOK'
  BY <1>1, <1>2 DEF SinkInv, FileTypeOK, BusInv
<1>5. SinkPhase'
  BY <1>1, <1>2 DEF SinkInv, SinkPhase
<1> QED
  BY <1>1, <1>2, <1>3, <1>4, <1>5, QuietFiles

LEMMA ReadFiles == ASSUME SinkInv, Read PROVE SinkInv'
<1> USE FileSinkAssumption
<1> DEFINE m == Len(Drained)
<1>1. /\ BusInv' /\ Settled(file)' = Settled(file) + m /\ taken'[file] = taken[file] + m
      /\ m \in Nat \ {0} /\ Settled(file) \in Int /\ Settled(file) >= 0
      /\ Drained \in Seq(Nat \ {0})
      /\ \A i \in 1 .. m : Drained[i] = Settled(file) + i
  <2>1. queue[file] # << >> /\ BusInv
    BY DEF Read, SinkInv
  <2>2. /\ Settled(file) \in Int /\ Settled(file) >= 0 /\ m \in 1 .. Len(queue[file])
        /\ Drained \in Seq(Nat \ {0})
        /\ \A i \in 1 .. m : Drained[i] = Settled(file) + i
    BY <2>1, DrainFacts
  <2>3. m \in Nat \ {0}
    BY <2>2
  <2> HIDE DEF m
  <2>4. /\ BusInv' /\ Settled(file)' = Settled(file) + m /\ taken'[file] = taken[file] + m
    BY <2>1, ReadBus DEF m
  <2> QED
    BY <2>2, <2>3, <2>4
<1>2. /\ sink = "get" /\ sink' = "write" /\ writing' = Drained /\ given' = given \union ToSet(Drained)
      /\ UNCHANGED <<stopping, text, archive, rotations, linesWritten, failures, lost, seq>>
  BY DEF Read
<1> HIDE DEF m
<1>3. Drained \in Seq(Nat) /\ Drained # << >> /\ writing = << >>
  BY <1>1, <1>2 DEF m, SinkInv, FileTypeOK
<1>4. /\ ToSet(Drained) = {Drained[i] : i \in 1 .. m} /\ ToSet(writing) = {}
  BY <1>3 DEF ToSet, m
<1>5. \A n \in ToSet(Drained) : n \in Nat /\ n >= 1 /\ Settled(file) < n /\ n <= Settled(file)'
  <2> SUFFICES ASSUME NEW i \in 1 .. m
               PROVE  LET n == Drained[i] IN
                      n \in Nat /\ n >= 1 /\ Settled(file) < n /\ n <= Settled(file) + m
    BY <1>1, <1>4
  <2>1. Drained[i] = Settled(file) + i
    BY <1>1
  <2> QED
    BY <1>1, <2>1
<1>6. ToSet(Drained) \intersect given = {}
  BY <1>1, <1>5, SinkFacts DEF SinkInv, BatchIsNewest
<1>7. Counted' = Counted
  <2>1. lost \subseteq given
    BY SinkFacts
  <2>2. Counted = given \ lost
    BY <1>4 DEF Counted
  <2>3. Counted' = (given \union ToSet(Drained)) \ (lost \union ToSet(Drained))
    BY <1>2 DEF Counted
  <2> QED
    BY <1>6, <2>1, <2>2, <2>3
<1>8. FileTypeOK'
  <2>1. given' \subseteq Nat /\ lost' \subseteq given'
    BY <1>2, <1>5, SinkFacts
  <2> QED
    BY <1>1, <1>2, <1>3, <2>1 DEF SinkInv, FileTypeOK, BusInv
<1>9. SinkPhase'
  <2>1. rotations <= taken[file] /\ seq <= MaxPublished
    BY <1>2, SinkFacts DEF SinkInv, SinkPhase
  <2>2. rotations \in Nat /\ taken[file] \in Nat
    BY SinkFacts
  <2>3. rotations + 1 <= taken[file] + m
    BY <1>1, <2>1, <2>2
  <2> QED
    BY <1>1, <1>2, <2>1, <2>3 DEF SinkPhase
<1>10. BatchIsNewest'
  <2>1. \A n \in given' : 1 <= n /\ n <= Settled(file)'
    <3>1. ASSUME NEW n \in given PROVE 1 <= n /\ n <= Settled(file)'
      <4>1. n \in Nat /\ 1 <= n /\ n <= Settled(file)
        BY SinkFacts DEF SinkInv, BatchIsNewest
      <4> QED
        BY <1>1, <4>1
    <3> QED
      BY <1>2, <1>5, <3>1
  <2>2. Ascending(Drained)
    BY <1>1 DEF Ascending, m
  <2>3. ToSet(Drained) \intersect lost = {}
    BY <1>6, SinkFacts
  <2> QED
    BY <1>2, <2>1, <2>2, <2>3 DEF BatchIsNewest
<1>11. ASSUME NEW k \in Kind PROVE FilesHold(k)'
  <2>1. FilesHold(k) /\ InFiles(k)' = InFiles(k)
    BY <1>2 DEF SinkInv, InFiles
  <2>2. ASSUME NEW h \in InFiles(k)
        PROVE  \E n \in given' \ ToSet(writing') :
                  IsHalf(h, n) /\ \A i \in 1 .. Len(writing') : n < writing'[i]
    <3>1. PICK n \in given : IsHalf(h, n)
      BY <2>1 DEF FilesHold
    <3>2. n \in Nat /\ n <= Settled(file)
      BY SinkFacts DEF SinkInv, BatchIsNewest
    <3>3. \A i \in 1 .. m : n < Drained[i]
      BY <1>1, <3>2
    <3>4. n \in given' \ ToSet(writing')
      BY <1>2, <1>6
    <3> QED
      BY <1>2, <3>1, <3>3, <3>4 DEF m
  <2> QED
    BY <1>2, <1>7, <2>1, <2>2 DEF FilesHold, FilesInOrder
<1> QED
  BY <1>1, <1>2, <1>7, <1>8, <1>9, <1>10, <1>11 DEF SinkInv

-----------------------------------------------------------------------------
(* Writing a batch *)

\* A part of the batch's halves is put behind what a kind of file holds.
LEMMA PieceIsNewest ==
    ASSUME SinkInv, NEW cut \in [Kind -> 0 .. 2 * Len(writing)], NEW k \in Kind
    PROVE  LET piece == SubSeq(Halves(writing), 1, cut[k]) IN
           /\ piece \in Seq(Int) /\ Ascending(piece)
           /\ \A i \in 1 .. Len(piece) : \E j \in 1 .. Len(writing) : IsHalf(piece[i], writing[j])
           /\ \A h \in InFiles(k) : h \in Int /\ \A i \in 1 .. Len(piece) : h < piece[i]
           /\ cut[k] = 2 * Len(writing) => \A j \in 1 .. Len(writing) :
                 2 * writing[j] - 1 \in ToSet(piece) /\ 2 * writing[j] \in ToSet(piece)
<1> DEFINE piece == SubSeq(Halves(writing), 1, cut[k])
           all == Halves(writing)
<1>1. /\ writing \in Seq(Nat) /\ Ascending(writing) /\ given \subseteq Nat
  BY SinkFacts DEF SinkInv, BatchIsNewest
<1>2. /\ all \in Seq(Int) /\ Len(all) = 2 * Len(writing) /\ Ascending(all)
      /\ \A i \in 1 .. Len(all) : \E j \in 1 .. Len(writing) : IsHalf(all[i], writing[j])
      /\ \A j \in 1 .. Len(writing) :
            /\ 2 * j - 1 \in 1 .. Len(all) /\ all[2 * j - 1] = 2 * writing[j] - 1
            /\ 2 * j \in 1 .. Len(all) /\ all[2 * j] = 2 * writing[j]
  BY <1>1, HalvesOf
<1> HIDE DEF all
<1>3. cut[k] \in 0 .. Len(all)
  BY <1>2
<1>4. /\ piece \in Seq(Int) /\ Ascending(piece) /\ Len(piece) = cut[k]
      /\ \A i \in 1 .. Len(piece) : i \in 1 .. Len(all) /\ piece[i] = all[i]
  <2>1. piece = SubSeq(all, 1, cut[k])
    BY DEF all
  <2>2. Len(all) \in Nat /\ cut[k] \in Nat /\ cut[k] <= Len(all)
    BY <1>2, <1>3
  <2>3. /\ SubSeq(all, 1, cut[k]) \in Seq(Int) /\ Len(SubSeq(all, 1, cut[k])) = cut[k]
        /\ \A i \in 1 .. cut[k] : SubSeq(all, 1, cut[k])[i] = all[i]
        /\ Ascending(SubSeq(all, 1, cut[k]))
    BY <1>2, <1>3, FrontPart
  <2> HIDE DEF piece
  <2> QED
    BY <2>1, <2>2, <2>3
<1> HIDE DEF piece
<1>5. \A i \in 1 .. Len(piece) : \E j \in 1 .. Len(writing) : IsHalf(piece[i], writing[j])
  BY <1>2, <1>4
<1>6. ASSUME NEW h \in InFiles(k) PROVE h \in Int /\ \A i \in 1 .. Len(piece) : h < piece[i]
  <2>1. PICK n \in given : IsHalf(h, n) /\ \A j \in 1 .. Len(writing) : n < writing[j]
    BY DEF SinkInv, FilesHold
  <2>2. n \in Nat /\ h \in Int /\ h <= 2 * n
    BY <1>1, <2>1 DEF IsHalf
  <2>3. ASSUME NEW i \in 1 .. Len(piece) PROVE h < piece[i]
    <3>1. PICK j \in 1 .. Len(writing) : IsHalf(piece[i], writing[j])
      BY <1>5
    <3>2. writing[j] \in Nat /\ n < writing[j]
      BY <1>1, <2>1
    <3>3. piece[i] >= 2 * writing[j] - 1 /\ piece[i] \in Int
      BY <3>1, <3>2 DEF IsHalf
    <3> QED
      BY <2>2, <3>2, <3>3
  <2> QED
    BY <2>2, <2>3
<1>7. ASSUME cut[k] = 2 * Len(writing), NEW j \in 1 .. Len(writing)
      PROVE  2 * writing[j] - 1 \in ToSet(piece) /\ 2 * writing[j] \in ToSet(piece)
  <2>1. Len(piece) = Len(all)
    BY <1>2, <1>4, <1>7
  <2>2. piece[2 * j - 1] = 2 * writing[j] - 1 /\ piece[2 * j] = 2 * writing[j]
    BY <1>2, <1>4, <2>1
  <2>3. 2 * j - 1 \in 1 .. Len(piece) /\ 2 * j \in 1 .. Len(piece)
    BY <1>2, <2>1
  <2> QED
    BY <1>4, <2>2, <2>3, InList
<1> QED
  BY <1>4, <1>5, <1>6, <1>7 DEF piece

\* The batch leaves the sink's hands, written in full or to some point.
LEMMA WrittenFiles ==
    ASSUME SinkInv, sink = "write", NEW cut \in [Kind -> 0 .. 2 * Len(writing)],
           text' = Written(cut), writing' = << >>, QueuesUntouched,
           open' = open \/ open' = open \ {file},
           UNCHANGED <<stopping, archive, rotations, given>>,
           sink' \in {"rotate", "get", "done", "dead"}, failures' \in Nat,
           \/ lost' = lost \union ToSet(writing) /\ linesWritten' = linesWritten
           \/ /\ lost' = lost /\ linesWritten' = linesWritten + Len(writing)
              /\ \A k \in Kind : cut[k] = 2 * Len(writing)
    PROVE  SinkInv'
<1> USE FileSinkAssumption
<1> DEFINE piece(k) == SubSeq(Halves(writing), 1, cut[k])
<1>1. BusInv' /\ Settled(file)' = Settled(file) /\ taken'[file] = taken[file] /\ seq' = seq
  BY QuietBus DEF SinkInv
<1>2. /\ writing \in Seq(Nat) /\ ToSet(writing) \subseteq given /\ ToSet(writing) \intersect lost = {}
      /\ Ascending(writing) /\ given \subseteq Nat /\ lost \subseteq given
      /\ IsFiniteSet(Counted) /\ linesWritten \in Nat
  BY SinkFacts DEF SinkInv, BatchIsNewest, FileTypeOK
<1>3. ToSet(writing') = {} /\ Len(writing') = 0
  BY DEF ToSet
<1>4. \A k \in Kind : text'[k] = text[k] \o piece(k)
  BY DEF Written
<1>5. ASSUME NEW k \in Kind
      PROVE  /\ piece(k) \in Seq(Int) /\ Ascending(piece(k))
             /\ \A i \in 1 .. Len(piece(k)) : \E j \in 1 .. Len(writing) : IsHalf(piece(k)[i], writing[j])
             /\ \A h \in InFiles(k) : h \in Int /\ \A i \in 1 .. Len(piece(k)) : h < piece(k)[i]
             /\ cut[k] = 2 * Len(writing) => \A j \in 1 .. Len(writing) :
                   2 * writing[j] - 1 \in ToSet(piece(k)) /\ 2 * writing[j] \in ToSet(piece(k))
  BY PieceIsNewest
<1> HIDE DEF piece
<1>6. \A n \in ToSet(writing) : \E j \in 1 .. Len(writing) : n = writing[j]
  BY <1>2 DEF ToSet
<1>7. \/ Counted' = Counted
      \/ /\ Counted' = Counted \union ToSet(writing)
         /\ linesWritten' = linesWritten + Len(writing)
         /\ \A k \in Kind : cut[k] = 2 * Len(writing)
  BY <1>2, <1>3 DEF Counted
<1>8. Cardinality(Counted)' = linesWritten'
  <2>1. CASE lost' = lost \union ToSet(writing) /\ linesWritten' = linesWritten
    <3>1. Counted' = Counted
      BY <1>3, <2>1 DEF Counted
    <3> QED
      BY <2>1, <3>1 DEF SinkInv
  <2>2. CASE lost' = lost /\ linesWritten' = linesWritten + Len(writing)
    <3>1. Counted' = Counted \union ToSet(writing) /\ Counted \intersect ToSet(writing) = {}
      BY <1>2, <1>3, <2>2 DEF Counted
    <3>2. IsFiniteSet(ToSet(writing)) /\ Cardinality(ToSet(writing)) = Len(writing)
      BY <1>2, CountAscending
    <3>3. Cardinality(Counted \union ToSet(writing)) = Cardinality(Counted) + Len(writing)
      BY <1>2, <3>1, <3>2, CountDisjoint
    <3> QED
      BY <2>2, <3>1, <3>3 DEF SinkInv
  <2> QED
    BY <2>1, <2>2
<1>9. ASSUME NEW k \in Kind
      PROVE  /\ text'[k] \in Seq(Nat)
             /\ InFiles(k)' = InFiles(k) \union ToSet(piece(k))
             /\ FilesInOrder(k)'
  <2>1. /\ text[k] \in Seq(Nat) /\ text[k] \in Seq(Int) /\ piece(k) \in Seq(Int)
    BY <1>5, SinkFacts DEF SinkInv, FileTypeOK
  <2>2. \A i \in 1 .. Len(piece(k)) : piece(k)[i] \in Nat
    <3> SUFFICES ASSUME NEW i \in 1 .. Len(piece(k)) PROVE piece(k)[i] \in Nat
      OBVIOUS
    <3>1. PICK j \in 1 .. Len(writing) : IsHalf(piece(k)[i], writing[j])
      BY <1>5
    <3>2. writing[j] \in given
      BY <1>2 DEF ToSet
    <3>3. writing[j] \in Nat /\ writing[j] >= 1
      BY <1>2, <3>2 DEF SinkInv, BatchIsNewest
    <3> QED
      BY <3>1, <3>3 DEF IsHalf
  <2>3. /\ text[k] \o piece(k) \in Seq(Nat)
        /\ ToSet(text[k] \o piece(k)) = ToSet(text[k]) \union ToSet(piece(k))
        /\ Len(text[k] \o piece(k)) = Len(text[k]) + Len(piece(k))
        /\ \A i \in 1 .. Len(text[k] \o piece(k)) :
              (text[k] \o piece(k))[i] \in ToSet(text[k]) \union ToSet(piece(k))
    BY <2>1, <2>2, JoinHolds
  <2>4. InFiles(k)' = InFiles(k) \union ToSet(piece(k))
    BY <1>4, <2>3 DEF InFiles
  <2>5. Ascending(text[k] \o piece(k))
    <3>1. \A i \in 1 .. Len(text[k]) : text[k][i] \in InFiles(k)
      BY <2>1, InList, InFilesMeans
    <3>2. \A i \in 1 .. Len(text[k]) : \A j \in 1 .. Len(piece(k)) : text[k][i] < piece(k)[j]
      BY <1>5, <3>1
    <3> QED
      BY <1>5, <2>1, <3>2, JoinInOrder DEF SinkInv, FilesHold, FilesInOrder
  <2>6. ASSUME NEW n \in 1 .. MaxPublished PROVE Before(archive[k][n], text[k] \o piece(k))
    <3>1. archive[k][n] \in Seq(Int)
      BY SinkFacts
    <3>2. \A i \in 1 .. Len(archive[k][n]) : archive[k][n][i] \in InFiles(k)
      BY <3>1, InList, InFilesMeans
    <3>3. ASSUME NEW i \in 1 .. Len(archive[k][n]), NEW h \in ToSet(text[k]) \union ToSet(piece(k))
          PROVE  archive[k][n][i] < h
      <4>1. CASE h \in ToSet(text[k])
        <5>1. PICK j \in 1 .. Len(text[k]) : h = text[k][j]
          BY <2>1, <4>1, InList
        <5>2. Before(archive[k][n], text[k])
          BY DEF SinkInv, FilesHold, FilesInOrder
        <5> QED
          BY <5>1, <5>2 DEF Before
      <4>2. CASE h \in ToSet(piece(k))
        <5>1. PICK j \in 1 .. Len(piece(k)) : h = piece(k)[j]
          BY <2>1, <4>2, InList
        <5>2. archive[k][n][i] \in InFiles(k)
          BY <3>2
        <5> QED
          BY <1>5, <5>1, <5>2
      <4> QED
        BY <4>1, <4>2
    <3> QED
      BY <2>3, <3>3 DEF Before
  <2> QED
    BY <1>4, <2>3, <2>4, <2>5, <2>6 DEF SinkInv, FilesHold, FilesInOrder
<1>10. FileTypeOK'
  <2>1. text' \in [Kind -> Seq(Nat)]
    BY <1>9 DEF Written
  <2>2. lost' \subseteq given'
    BY <1>2
  <2>3. linesWritten' \in Nat
    <3>1. Len(writing) \in Nat /\ linesWritten \in Nat
      BY <1>2
    <3>2. linesWritten' = linesWritten \/ linesWritten' = linesWritten + Len(writing)
      OBVIOUS
    <3> QED
      BY <3>1, <3>2
  <2> QED
    BY <1>1, <2>1, <2>2, <2>3 DEF SinkInv, FileTypeOK, BusInv
<1>11. SinkPhase'
  BY <1>1, SinkFacts DEF SinkInv, SinkPhase
<1>12. BatchIsNewest'
  BY <1>1, <1>3 DEF SinkInv, BatchIsNewest, Ascending
<1>13. ASSUME NEW k \in Kind PROVE FilesHold(k)'
  <2>1. InFiles(k)' = InFiles(k) \union ToSet(piece(k)) /\ FilesInOrder(k)' /\ FilesHold(k)
    BY <1>9 DEF SinkInv
  <2>2. \A n \in Counted' : 2 * n - 1 \in InFiles(k)' /\ 2 * n \in InFiles(k)'
    <3> SUFFICES ASSUME NEW n \in Counted' PROVE 2 * n - 1 \in InFiles(k)' /\ 2 * n \in InFiles(k)'
      OBVIOUS
    <3>1. CASE n \in Counted
      BY <2>1, <3>1 DEF FilesHold
    <3>2. CASE n \notin Counted
      BY <1>5, <1>6, <1>7, <2>1, <3>2
    <3> QED
      BY <3>1, <3>2
  <2>3. ASSUME NEW h \in InFiles(k)' PROVE \E n \in given : IsHalf(h, n)
    <3>1. CASE h \in InFiles(k)
      BY <2>1, <3>1 DEF FilesHold
    <3>2. CASE h \in ToSet(piece(k))
      <4>1. PICK i \in 1 .. Len(piece(k)) : h = piece(k)[i]
        BY <1>5, <3>2, InList
      <4>2. PICK j \in 1 .. Len(writing) : IsHalf(h, writing[j])
        BY <1>5, <4>1
      <4>3. writing[j] \in given
        BY <1>2 DEF ToSet
      <4> QED
        BY <4>2, <4>3
    <3> QED
      BY <2>1, <3>1, <3>2
  <2> QED
    BY <1>3, <2>1, <2>2, <2>3 DEF FilesHold
<1> QED
  BY <1>1, <1>8, <1>10, <1>11, <1>12, <1>13 DEF SinkInv

LEMMA EncodableRange == ASSUME SinkInv PROVE Encodable \in 0 .. Len(writing)
<1> DEFINE good == {i \in 1 .. Len(writing) : \A j \in 1 .. i : writing[j] \notin Unencodable}
           all == 1 .. Len(writing)
<1>1. Len(writing) \in Nat
  BY SinkFacts
<1>2. IsFiniteSet(all) /\ Cardinality(all) = Len(writing) /\ good \subseteq all
  BY <1>1, FS_Interval
<1> HIDE DEF good, all
<1>3. Cardinality(good) \in Nat /\ Cardinality(good) <= Len(writing)
  BY <1>2, FS_Subset, FS_CardinalityType
<1> QED
  BY <1>1, <1>3 DEF Encodable, good

LEMMA WritesFiles ==
    ASSUME SinkInv, Write \/ DiskFails \/ EncodingFails
    PROVE  SinkInv'
<1>1. Encodable \in 0 .. Len(writing) /\ Len(writing) \in Nat
  BY EncodableRange, SinkFacts
<1>2. failures \in Nat
  BY DEF SinkInv, FileTypeOK
<1>3. CASE Write
  <2> DEFINE cut == [k \in Kind |-> 2 * Len(writing)]
  <2>1. cut \in [Kind -> 0 .. 2 * Len(writing)] /\ \A k \in Kind : cut[k] = 2 * Len(writing)
    BY <1>1
  <2>2. text' = Written(cut)
    BY <1>3 DEF Write
  <2> HIDE DEF cut
  <2> QED
    BY <1>2, <1>3, <2>1, <2>2, WrittenFiles DEF Write
<1>4. CASE DiskFails
  <2>1. PICK cut \in [Kind -> 0 .. 2 * Encodable] : text' = Written(cut)
    BY <1>4 DEF DiskFails
  <2>2. cut \in [Kind -> 0 .. 2 * Len(writing)]
    <3>1. 0 .. 2 * Encodable \subseteq 0 .. 2 * Len(writing)
      BY <1>1
    <3> QED
      BY <3>1
  <2>3. /\ sink' \in {"get", "done"} /\ (open' = open \/ open' = open \ {file})
        /\ failures' \in Nat
    BY <1>2, <1>4 DEF DiskFails, NextRound
  <2> QED
    BY <1>4, <2>1, <2>2, <2>3, WrittenFiles DEF DiskFails
<1>5. CASE EncodingFails
  <2>1. PICK line \in {0, 2} :
          text' = Written([k \in Kind |-> 2 * Encodable + IF k = "log" THEN line ELSE 0])
    BY <1>5 DEF EncodingFails
  <2> DEFINE cut == [k \in Kind |-> 2 * Encodable + IF k = "log" THEN line ELSE 0]
  <2>2. cut \in [Kind -> 0 .. 2 * Len(writing)]
    <3>1. Encodable < Len(writing)
      BY <1>5 DEF EncodingFails
    <3>2. 2 * Encodable + 0 \in 0 .. 2 * Len(writing) /\ 2 * Encodable + 2 \in 0 .. 2 * Len(writing)
      BY <1>1, <3>1
    <3> QED
      BY <3>2
  <2>3. text' = Written(cut)
    BY <2>1
  <2> HIDE DEF cut
  <2> QED
    BY <1>2, <1>5, <2>2, <2>3, WrittenFiles DEF EncodingFails
<1> QED
  BY <1>3, <1>4, <1>5

\* The archive that a rotation fills is the first empty one.
LEMMA RotateFiles == ASSUME SinkInv, Rotate PROVE SinkInv'
<1> USE FileSinkAssumption
<1>1. BusInv' /\ Settled(file)' = Settled(file) /\ taken'[file] = taken[file] /\ seq' = seq
  BY QuietBus DEF SinkInv, Rotate, NextRound
<1>2. /\ sink = "rotate" /\ sink' \in {"get", "done"}
      /\ UNCHANGED <<stopping, writing, linesWritten, given, lost>>
  BY DEF Rotate, NextRound
<1>3. CASE UNCHANGED <<text, archive, rotations, failures>>
  <2>1. FileTypeOK' /\ SinkPhase'
    BY <1>1, <1>2, <1>3, SinkFacts DEF SinkInv, FileTypeOK, BusInv, SinkPhase
  <2> QED
    BY <1>1, <1>2, <1>3, <2>1, SinkFacts, QuietFiles
<1>4. CASE ~UNCHANGED <<text, archive, rotations, failures>>
  <2> DEFINE next == rotations + 1
  <2>1. PICK moved \in SUBSET Kind :
          /\ rotations' = next
          /\ failures' = failures + IF moved = Kind THEN 0 ELSE 1
          /\ archive' = [k \in Kind |-> IF k \in moved
                           THEN [archive[k] EXCEPT ![next] = text[k]] ELSE archive[k]]
          /\ text' = [k \in Kind |-> IF k \in moved THEN Empty ELSE text[k]]
    BY <1>4 DEF Rotate, Renamed, NextRotation
  <2>2. rotations \in Nat /\ next <= taken[file] /\ next \in 1 .. MaxPublished
    <3>1. rotations + 1 <= taken[file]
      BY <1>2 DEF SinkInv, SinkPhase
    <3> QED
      BY <3>1, SinkFacts DEF SinkInv, SinkPhase
  <2>3. /\ text \in [Kind -> Seq(Nat)] /\ archive \in [Kind -> [1 .. MaxPublished -> Seq(Nat)]]
        /\ failures \in Nat
    BY DEF SinkInv, FileTypeOK
  <2> HIDE DEF next
  <2>4. ASSUME NEW k \in Kind
        PROVE  /\ text'[k] \in Seq(Nat) /\ archive'[k] \in [1 .. MaxPublished -> Seq(Nat)]
               /\ \A n \in 1 .. MaxPublished : n # next => archive'[k][n] = archive[k][n]
               /\ \/ text'[k] = text[k] /\ archive'[k][next] = archive[k][next]
                  \/ text'[k] = << >> /\ archive'[k][next] = text[k]
    <3>1. text[k] \in Seq(Nat) /\ archive[k] \in [1 .. MaxPublished -> Seq(Nat)] /\ << >> \in Seq(Nat)
      BY <2>3
    <3>2. CASE k \in moved
      <4>1. text'[k] = << >> /\ archive'[k] = [archive[k] EXCEPT ![next] = text[k]]
        BY <2>1, <3>2 DEF Empty
      <4> QED
        BY <2>2, <3>1, <4>1
    <3>3. CASE k \notin moved
      <4>1. text'[k] = text[k] /\ archive'[k] = archive[k]
        BY <2>1, <3>3
      <4> QED
        BY <3>1, <4>1
    <3> QED
      BY <3>2, <3>3
  <2>5. FileTypeOK'
    <3>1. text' \in [Kind -> Seq(Nat)] /\ archive' \in [Kind -> [1 .. MaxPublished -> Seq(Nat)]]
      BY <2>1, <2>4
    <3>2. rotations' \in 0 .. MaxPublished /\ failures' \in Nat
      BY <2>1, <2>2, <2>3
    <3> QED
      BY <1>1, <1>2, <3>1, <3>2 DEF SinkInv, FileTypeOK, BusInv
  <2>6. SinkPhase' /\ BatchIsNewest' /\ Counted' = Counted
    <3>1. rotations' + 0 <= taken'[file]
      BY <1>1, <2>1, <2>2 DEF next
    <3> QED
      BY <1>1, <1>2, <3>1 DEF SinkInv, SinkPhase, BatchIsNewest, Counted
  <2>7. ASSUME NEW k \in Kind PROVE FilesHold(k)'
    <3>1. FilesHold(k) /\ FilesInOrder(k)
      BY DEF SinkInv, FilesHold
    <3>2. \A n \in next .. MaxPublished : archive[k][n] = << >>
      BY <3>1 DEF FilesHold, next
    <3>3. /\ ToSet(<< >>) = {} /\ Len(<< >>) = 0 /\ Ascending(<< >>)
          /\ \A s : Before(<< >>, s) /\ Before(s, << >>)
      BY DEF ToSet, Ascending, Before
    <3>4. archive[k][next] = << >>
      BY <2>2, <3>2
    <3>5. InFiles(k)' = InFiles(k)
      <4>1. ASSUME NEW h PROVE h \in InFiles(k)' <=> h \in InFiles(k)
        <5>1. h \in InFiles(k)' <=> h \in ToSet(text'[k]) \/ \E n \in 1 .. MaxPublished : h \in ToSet(archive'[k][n])
          BY DEF InFiles
        <5>2. h \in InFiles(k) <=> h \in ToSet(text[k]) \/ \E n \in 1 .. MaxPublished : h \in ToSet(archive[k][n])
          BY DEF InFiles
        <5>3. /\ next \in 1 .. MaxPublished /\ h \notin ToSet(<< >>)
              /\ \A n \in 1 .. MaxPublished : n # next => archive'[k][n] = archive[k][n]
          BY <2>2, <2>4, <3>3
        <5>4. CASE text'[k] = text[k] /\ archive'[k][next] = archive[k][next]
          BY ONLY <5>1, <5>2, <5>3, <5>4
        <5>5. CASE text'[k] = << >> /\ archive'[k][next] = text[k]
          BY ONLY <3>4, <5>1, <5>2, <5>3, <5>5, Zenon
        <5> QED
          BY <2>4, <5>4, <5>5
      <4> QED
        BY <4>1
    <3>6. \A n \in rotations' + 1 .. MaxPublished : archive'[k][n] = << >>
      BY <2>1, <2>2, <2>4, <3>2
    <3>7. FilesInOrder(k)'
      <4>1. Ascending(text'[k])
        BY <2>4, <3>1, <3>3 DEF FilesInOrder
      <4>2. ASSUME NEW n \in 1 .. MaxPublished
            PROVE  Ascending(archive'[k][n]) /\ Before(archive'[k][n], text'[k])
        <5>1. CASE n # next
          <6>1. archive'[k][n] = archive[k][n]
            BY <2>4, <5>1
          <6> QED
            BY <2>4, <3>1, <3>3, <6>1 DEF FilesInOrder
        <5>2. CASE n = next
          BY <2>4, <3>1, <3>3, <3>4, <5>2 DEF FilesInOrder
        <5> QED
          BY <5>1, <5>2
      <4>3. ASSUME NEW n \in 1 .. MaxPublished, NEW m \in 1 .. n - 1
            PROVE  Before(archive'[k][m], archive'[k][n])
        <5>0. m \in 1 .. MaxPublished /\ m < n
          BY SinkFacts
        <5>1. CASE n # next /\ m # next
          BY <2>4, <3>1, <5>0, <5>1 DEF FilesInOrder
        <5>2. CASE m = next
          <6>1. archive'[k][n] = << >>
            BY <2>2, <2>4, <3>2, <5>0, <5>2
          <6> QED
            BY <3>3, <6>1
        <5>3. CASE n = next
          <6>1. archive'[k][m] = archive[k][m] /\ Before(archive[k][m], text[k])
            BY <2>4, <3>1, <5>0, <5>3 DEF FilesInOrder
          <6>2. archive'[k][n] = text[k] \/ archive'[k][n] = << >>
            BY <2>4, <3>4, <5>3
          <6> QED
            BY <3>3, <6>1, <6>2
        <5> QED
          BY <5>1, <5>2, <5>3
      <4> QED
        BY <4>1, <4>2, <4>3 DEF FilesInOrder
    <3> QED
      BY <1>2, <2>6, <3>1, <3>5, <3>6, <3>7 DEF FilesHold
  <2> QED
    BY <1>1, <1>2, <2>5, <2>6, <2>7 DEF SinkInv
<1> QED
  BY <1>3, <1>4

\* The process ends before it has started.
LEMMA BootFailsFiles == ASSUME SinkInv, BootFails PROVE SinkInv'
<1>1. BusInv' /\ Settled(file)' = Settled(file) /\ taken'[file] = taken[file] /\ seq' = seq
  BY QuietBus DEF SinkInv, BootFails
<1>2. /\ UNCHANGED <<stopping, writing>> /\ FilesUntouched
      /\ sink' = IF sink \in {"started", "get"} THEN "done" ELSE sink
  BY DEF BootFails
<1>3. FileTypeOK' /\ SinkPhase'
  BY <1>1, <1>2 DEF SinkInv, FileTypeOK, BusInv, SinkPhase, FilesUntouched
<1> QED
  BY <1>1, <1>2, <1>3, SinkFacts, QuietFiles DEF FilesUntouched

-----------------------------------------------------------------------------
LEMMA SinkInit == HostInit => SinkInv
<1> SUFFICES ASSUME HostInit PROVE SinkInv
  OBVIOUS
<1> USE FileSinkAssumption, MaxPublishedAssumption
<1>1. BusInv /\ seq = 0 /\ taken[file] = 0
  BY InitInv DEF HostInit, BusInit
<1>2. FileTypeOK
  <2>1. << >> \in Seq(Nat) /\ 0 \in 0 .. MaxPublished
    OBVIOUS
  <2>2. text \in [Kind -> Seq(Nat)] /\ archive \in [Kind -> [1 .. MaxPublished -> Seq(Nat)]]
    BY <2>1 DEF HostInit, FileInit, Empty
  <2> QED
    BY <1>1, <2>1, <2>2 DEF HostInit, FileInit, FileTypeOK, BusInv
<1>3. SinkPhase
  BY <1>1 DEF HostInit, FileInit, SinkPhase
<1>4. ToSet(<< >>) = {} /\ Len(<< >>) = 0
  BY DEF ToSet
<1>5. BatchIsNewest
  BY <1>4 DEF HostInit, FileInit, BatchIsNewest, Ascending
<1>6. Counted = {} /\ Cardinality(Counted) = linesWritten
  BY <1>4, FS_EmptySet DEF HostInit, FileInit, Counted
<1>7. ASSUME NEW k \in Kind PROVE FilesHold(k)
  <2>1. text[k] = << >> /\ \A n \in 1 .. MaxPublished : archive[k][n] = << >>
    BY DEF HostInit, FileInit, Empty
  <2>2. InFiles(k) = {}
    BY <1>4, <2>1 DEF InFiles
  <2>3. rotations = 0
    BY DEF HostInit, FileInit
  <2>4. FilesInOrder(k)
    <3>1. ASSUME NEW n \in 1 .. MaxPublished, NEW m \in 1 .. n - 1
          PROVE  archive[k][m] = << >>
      BY <2>1
    <3> QED
      BY <1>4, <2>1, <3>1 DEF FilesInOrder, Ascending, Before
  <2> QED
    BY <1>6, <2>1, <2>2, <2>3, <2>4 DEF FilesHold
<1> QED
  BY <1>1, <1>2, <1>3, <1>5, <1>6, <1>7 DEF SinkInv

LEMMA SinkStep == SinkInv /\ [HostNext]_allVars => SinkInv'
<1> SUFFICES ASSUME SinkInv, [HostNext]_allVars PROVE SinkInv'
  OBVIOUS
<1>1. CASE UNCHANGED <<busVars, fileVars>>
  <2>1. BusInv' /\ Settled(file)' = Settled(file)
    BY <1>1, StepInv DEF SinkInv, busVars, Settled
  <2>2. FileTypeOK' /\ SinkPhase'
    BY <1>1, <2>1 DEF SinkInv, FileTypeOK, BusInv, SinkPhase, fileVars, busVars
  <2> QED
    BY <1>1, <2>1, <2>2, SinkFacts, QuietFiles DEF fileVars
<1>2. CASE BootSink
  BY <1>2, RunSinkFiles DEF BootSink
<1>3. CASE BootFails
  BY <1>3, BootFailsFiles
<1>4. CASE DownSink \/ Produce
  BY <1>4, OutsideFiles DEF DownSink, Produce
<1>5. CASE SinkWorks
  <2>1. CASE Round
    BY <2>1, RoundFiles DEF Round, NextRound
  <2> QED
    BY <1>5, <2>1, ReadFiles, WritesFiles, RotateFiles DEF SinkWorks, Consume
<1>6. BootPart \/ SkipAdvert \/ DownPart \/ DownAgent \/ AgentDown \/ SinkDown \/ Cleanup \/ Interrupt
        \/ AgentComes \/ AgentLeaves \/ StartCapture
        \/ UNCHANGED allVars => UNCHANGED <<busVars, fileVars>>
  BY DEF BootPart, SkipAdvert, DownPart, DownAgent, AgentDown, SinkDown, Cleanup, Interrupt,
    AgentComes, AgentLeaves, StartCapture, allVars
<1> QED
  BY <1>1, <1>2, <1>3, <1>4, <1>5, <1>6 DEF HostNext, HostSteps

LEMMA SinkAlways == HostSpec => []SinkInv
<1>1. HostSpec => HostInit /\ [][HostNext]_allVars
  BY PTL DEF HostSpec
<1> QED
  BY <1>1, SinkInit, SinkStep, PTL

LEMMA FilesFromInv == SinkInv => FilesFollowBus
<1> SUFFICES ASSUME SinkInv, NEW k \in Kind
             PROVE  /\ FilesInOrder(k)
                    /\ {n \in given : {2 * n - 1, 2 * n} \subseteq InFiles(k)} \ lost = Counted
  BY DEF SinkInv, FilesFollowBus
<1>1. FilesInOrder(k)
  BY DEF SinkInv, FilesHold
<1>2. ASSUME NEW n \in given, 2 * n \in InFiles(k) PROVE n \notin ToSet(writing)
  <2>1. PICK r \in given \ ToSet(writing) : IsHalf(2 * n, r)
    BY <1>2 DEF SinkInv, FilesHold
  <2>2. n \in Nat /\ r \in Nat
    BY SinkFacts
  <2>3. n = r
    BY <2>1, <2>2 DEF IsHalf
  <2> QED
    BY <2>1, <2>3
<1>3. \A n \in Counted : n \in given /\ {2 * n - 1, 2 * n} \subseteq InFiles(k)
  BY DEF SinkInv, FilesHold, Counted
<1> QED
  BY <1>1, <1>2, <1>3 DEF Counted

\* The files hold what was read from the bus, in order and once, archives
\* first; the lines counted in lines_written are in both (_write_batch and
\* _maybe_rotate of filesink.py).
THEOREM FilesHoldTheLog == HostSpec => []FilesFollowBus
  BY SinkAlways, FilesFromInv, PTL

\* No failure, no difference between the kinds: the two files are rotated
\* together (_maybe_rotate of filesink.py).
THEOREM KindsRotateTogether == HostSpec => []ArchivesPair
<1> DEFINE Pair == failures \in Nat /\ ArchivesPair
<1>1. HostInit => Pair
  BY DEF HostInit, FileInit, ArchivesPair, Kind
<1>2. SinkInv /\ Pair /\ [HostNext]_allVars => Pair'
  <2> SUFFICES ASSUME SinkInv, Pair, [HostNext]_allVars PROVE Pair'
    OBVIOUS
  <2>1. CASE UNCHANGED <<text, archive, failures>> /\ (sink = "dead" => sink' = "dead")
    BY <2>1 DEF ArchivesPair
  <2>2. CASE Write
    <3>1. text'["log"] = text["log"] \o SubSeq(Halves(writing), 1, 2 * Len(writing))
      BY <2>2 DEF Write, Written, Kind
    <3>2. text'["ndjson"] = text["ndjson"] \o SubSeq(Halves(writing), 1, 2 * Len(writing))
      BY <2>2 DEF Write, Written, Kind
    <3> QED
      BY <2>2, <3>1, <3>2 DEF Write, ArchivesPair
  <2>3. CASE DiskFails \/ EncodingFails
    <3>1. failures' = failures + 1 \/ (failures' = failures /\ sink' = "dead")
      BY <2>3 DEF DiskFails, EncodingFails
    <3> QED
      BY <3>1 DEF ArchivesPair
  <2>4. CASE Rotate /\ ~UNCHANGED <<text, archive, rotations, failures>>
    <3>1. PICK moved \in SUBSET Kind :
            /\ failures' = failures + IF moved = Kind THEN 0 ELSE 1
            /\ archive' = [k \in Kind |-> IF k \in moved
                             THEN [archive[k] EXCEPT ![rotations + 1] = text[k]] ELSE archive[k]]
            /\ text' = [k \in Kind |-> IF k \in moved THEN Empty ELSE text[k]]
      BY <2>4 DEF Rotate, Renamed, NextRotation
    <3>2. CASE moved = Kind
      <4>1. \A k \in Kind : text'[k] = Empty /\ archive'[k] = [archive[k] EXCEPT ![rotations + 1] = text[k]]
        BY <3>1, <3>2
      <4>2. "log" \in Kind /\ "ndjson" \in Kind
        BY DEF Kind
      <4>3. failures' = failures /\ sink # "dead"
        BY <2>4, <3>1, <3>2 DEF Rotate
      <4> QED
        BY <4>1, <4>2, <4>3 DEF ArchivesPair
    <3>3. CASE moved # Kind
      BY <3>1, <3>3 DEF ArchivesPair
    <3> QED
      BY <3>2, <3>3
  <2>5. CASE Round \/ Read \/ (Rotate /\ UNCHANGED <<text, archive, rotations, failures>>)
    BY <2>1, <2>5 DEF Round, Read, Rotate, NextRound, FilesUntouched
  <2>6. CASE BootFails \/ BootSink \/ DownSink
    BY <2>1, <2>6 DEF BootFails, BootSink, RunSink, DownSink, CloseSink, FilesUntouched
  <2>7. BootPart \/ SkipAdvert \/ DownPart \/ DownAgent \/ AgentDown \/ SinkDown \/ Cleanup
          \/ Interrupt \/ AgentComes \/ AgentLeaves \/ StartCapture
          \/ Produce \/ UNCHANGED allVars => UNCHANGED fileVars
    BY DEF BootPart, SkipAdvert, DownPart, DownAgent, AgentDown, SinkDown, Cleanup, Interrupt,
      AgentComes, AgentLeaves, StartCapture, Produce, allVars
  <2>8. CASE UNCHANGED fileVars
    BY <2>1, <2>8 DEF fileVars
  <2> QED
    BY <2>2, <2>3, <2>4, <2>5, <2>6, <2>7, <2>8 DEF HostNext, HostSteps, SinkWorks, Consume
<1>3. HostSpec => HostInit /\ [][HostNext]_allVars
  BY PTL DEF HostSpec
<1> QED
  BY <1>1, <1>2, <1>3, SinkAlways, PTL

\* The state of the host keeps its type.
THEOREM HostTypeCorrect == HostSpec => []HostTypeOK
<1> DEFINE Stages ==
             /\ stage \in {"boot", "serving", "down", "over"}
             /\ step \in 1 .. 8 /\ (stage \in {"boot", "down"} => step \in 1 .. 7)
             /\ \A part \in up : \E i \in 1 .. 7 : part = Boot[i]
<1>1. Len(Boot) = 7 /\ Len(Down) = 7 /\ ToSet(Boot) = {Boot[i] : i \in 1 .. 7}
      /\ Boot[6] = "file" /\ Down[7] = "web"
  BY DEF Boot, Down, ToSet
<1>2. HostInit => Stages
  BY DEF HostInit
<1>3. Stages /\ [HostNext]_allVars => Stages'
  <2> SUFFICES ASSUME Stages, [HostNext]_allVars PROVE Stages'
    OBVIOUS
  <2>1. CASE BootPart \/ BootSink \/ SkipAdvert
    <3>1. step \in 1 .. 7 /\ step' = step + 1 /\ stage' = (IF step = 7 THEN "serving" ELSE "boot")
      BY <1>1, <2>1 DEF BootPart, BootSink, SkipAdvert, Started
    <3>2. \A part \in up' : \E i \in 1 .. 7 : part = Boot[i]
      <4>1. up' = up \/ up' = up \union {Boot[step]}
        BY <2>1 DEF BootPart, BootSink, SkipAdvert
      <4> QED
        BY <3>1, <4>1
    <3> QED
      BY <3>1, <3>2
  <2>2. CASE BootFails \/ Interrupt \/ Cleanup \/ StartCapture \/ DownAgent \/ AgentComes \/ AgentLeaves
    BY <2>2 DEF BootFails, Interrupt, Cleanup, StartCapture, DownAgent, AgentComes, AgentLeaves, Exit
  <2>3. CASE DownPart \/ AgentDown \/ SinkDown
    <3>1. step \in 1 .. 7 /\ step # 7 /\ step' = step + 1 /\ stage' = stage
          /\ up' \subseteq up
      <4>1. Down[step] # "web"
        BY <2>3 DEF DownPart, AgentDown, SinkDown
      <4> QED
        BY <1>1, <2>3, <4>1 DEF DownPart, AgentDown, SinkDown, NextStep
    <3> QED
      BY <3>1
  <2>4. CASE DownSink \/ Produce \/ SinkWorks \/ UNCHANGED allVars
    BY <2>4 DEF DownSink, Produce, SinkWorks, hostVars, allVars
  <2> QED
    BY <2>1, <2>2, <2>3, <2>4 DEF HostNext, HostSteps
<1> DEFINE Flags ==
        capturing \in BOOLEAN /\ peer \in BOOLEAN /\ agentStop \in {"idle", "cancelling", "waiting"}
<1>4. HostInit => Flags
  BY DEF HostInit
<1>5. Flags /\ [HostNext]_allVars => Flags'
  <2>1. HostNext =>
          /\ \/ capturing' \in {capturing, TRUE, FALSE}
             \/ capturing' = (capturing /\ Down[step] # "manager")
          /\ peer' \in {peer, TRUE, FALSE} /\ agentStop' \in {agentStop, "cancelling", "waiting"}
    BY DEF HostNext, HostSteps, BootPart, BootSink, SkipAdvert, Started, BootFails, Interrupt, Cleanup,
           StartCapture, Exit, DownPart, DownAgent, AgentDown, DownSink, SinkDown, AgentComes,
           AgentLeaves, Produce, SinkWorks, hostVars
  <2>2. UNCHANGED allVars => UNCHANGED <<capturing, peer, agentStop>>
    BY DEF allVars, hostVars
  <2> QED
    BY <2>1, <2>2
<1>6. SinkInv /\ Stages /\ Flags => HostTypeOK
  <2>1. Stages => /\ stage \in {"boot", "serving", "down", "over"} /\ step \in 1 .. Len(Boot) + 1
                  /\ up \subseteq ToSet(Boot)
    BY <1>1
  <2> HIDE DEF Stages
  <2> QED
    BY <2>1 DEF SinkInv, HostTypeOK
<1>7. HostSpec => HostInit /\ [][HostNext]_allVars
  BY PTL DEF HostSpec
<1> QED
  BY <1>2, <1>3, <1>4, <1>5, <1>6, <1>7, SinkAlways, PTL
=============================================================================
