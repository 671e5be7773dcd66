----------------------------- MODULE WsSession ------------------------------
(***************************************************************************)
(* The live view of one browser tab: the /ws handler and its forwarder     *)
(* (desktop/idevicetail/server.py, _ws), the hub of control events         *)
(* (WSHub) and what the page shows of both (web/app.js, connect).          *)
(*                                                                         *)
(* A subscription of the bus is a connection: the page opens one, loses    *)
(* it, and opens the next.  The state of a device is the number of the     *)
(* change that made it, and 0 is a device that is not in the table: events *)
(* and answers carry such states.  A frame is shown when it is sent,       *)
(* unless the page is gone; the awaiting of a send is the suspension after *)
(* it.  The forwarder may also be interrupted where the code only tests a  *)
(* condition, at the top of its loop, which adds behaviours and removes    *)
(* none.                                                                   *)
(***************************************************************************)
EXTENDS LogBus, FiniteSets

CONSTANTS
    SnapLimit,     \* ?snapshot=5000
    BatchMax,      \* 500 records to a frame
    CtrlSize,      \* WSHub.register(maxsize)
    Device,        \* the devices there may be
    MaxEvents,     \* bound on records and device changes together, for model checking only
    Fetch,         \* the requests of /api/state a page may have under way at once
    NoAnswer,      \* such a request that the host has not answered
    NoConn         \* the page has no connection

ASSUME WsAssumption ==
    /\ SnapLimit \in Nat \ {0} /\ BatchMax \in Nat \ {0} /\ CtrlSize \in Nat \ {0}
    /\ NoConn \notin Sub /\ NoAnswer \notin [Device -> Nat]

VARIABLES
    handler,      \* where _ws is: "off", "snapshot", "serving", "closing", "over" or "failed"
    forwarder,    \* where _forward is: "off", "top", "get" or "ended"
    batch,        \* the local of _forward
    hub,          \* WSHub._queues: the connections registered
    ctrl,         \* their control queues
    devices,      \* DeviceManager.devices: the state of each device, 0 if it is not there
    changes,      \* how often a device has changed
    page,         \* the connection the page has, or NoConn
    shown,        \* state.all: the records the page lists
    table,        \* state.devices: the state of each device that the page shows
    answer,       \* of each request of /api/state the devices in its answer
    told,         \* the dropped count sent last on each connection
    unheard       \* history: devices of whose state the page may have a wrong word

wsVars == <<handler, forwarder, batch, hub, ctrl, devices, changes, page, shown, table,
            answer, told, unheard>>
vars == <<busVars, wsVars>>

Init ==
    /\ BusInit
    /\ handler = [c \in Sub |-> "off"]
    /\ forwarder = [c \in Sub |-> "off"]
    /\ batch = [c \in Sub |-> << >>]
    /\ hub = {}
    /\ ctrl = [c \in Sub |-> << >>]
    /\ devices = [d \in Device |-> 0]
    /\ changes = 0
    /\ page = NoConn
    /\ shown = << >>
    /\ table = [d \in Device |-> 0]
    /\ answer = [f \in Fetch |-> NoAnswer]
    /\ told = [c \in Sub |-> 0]
    /\ unheard = {}

-----------------------------------------------------------------------------
(* What the page makes of a list of devices *)

\* `(m.devices || []).forEach(upsertDevice)`: the devices of the list are put in
\* the table, and one that is not in the list stays.
UpsertedNewOnlyMut(list) == [d \in Device |-> IF table[d] # 0 THEN table[d] ELSE list[d]]
Upserted(list) == [d \in Device |-> IF list[d] # 0 THEN list[d] ELSE table[d]]

\* No event about device d is on its way to the page.
NoEvent(c, d) == \A i \in DOMAIN ctrl[c] : ctrl[c][i].id # d

-----------------------------------------------------------------------------
(* The handler *)

\* Register with the hub, then take and send the snapshot, whose records the
\* page puts in place of what it listed.  Of a device that was removed since the
\* page had a connection it hears nothing.
Connect(c) ==
    /\ page = NoConn /\ handler[c] = "off"
    /\ handler' = [handler EXCEPT ![c] = "snapshot"]
    /\ hub' = hub \union {c}
    /\ page' = c /\ shown' = Snapshot(SnapLimit) /\ table' = Upserted(devices)
    /\ unheard' = {d \in Device : devices[d] = 0 /\ table[d] # 0}
    /\ UNCHANGED <<busVars, forwarder, batch, ctrl, devices, changes, answer, told>>

\* What the handler leaves alone when it goes on.
HandlerFrame ==
    UNCHANGED <<batch, ctrl, devices, changes, page, shown, table, answer, told, unheard>>

\* Once the snapshot is sent: subscribe and start the forwarder.
Serve(c) ==
    /\ handler[c] = "snapshot"
    /\ Subscribe(c)
    /\ handler' = [handler EXCEPT ![c] = "serving"]
    /\ forwarder' = [forwarder EXCEPT ![c] = "top"]
    /\ HandlerFrame /\ UNCHANGED hub

\* The page leaves while its snapshot is being sent: send_str raises, outside
\* the try whose `finally` would unregister.
SnapshotFails(c) ==
    /\ handler[c] = "snapshot" /\ page # c
    /\ handler' = [handler EXCEPT ![c] = "failed"]
    /\ HandlerFrame /\ UNCHANGED <<busVars, forwarder, hub>>

\* `async for` ends: fwd.cancel(), and wait for the forwarder.
Cancel(c) ==
    /\ handler[c] = "serving" /\ page # c
    /\ handler' = [handler EXCEPT ![c] = "closing"]
    /\ HandlerFrame /\ UNCHANGED <<busVars, forwarder, hub>>

\* The forwarder has ended: close the subscription and unregister.
Finish(c) ==
    /\ handler[c] = "closing" /\ forwarder[c] = "ended"
    /\ handler' = [handler EXCEPT ![c] = "over"]
    /\ Close(c)
    /\ hub' = hub \ {c}
    /\ HandlerFrame /\ UNCHANGED forwarder

-----------------------------------------------------------------------------
(* The forwarder *)

ForwarderFrame == UNCHANGED <<handler, hub, devices, changes, page, answer, unheard>>

\* The socket is closed, which the loop tests, or a send raises.
EndForwarder(c) ==
    /\ forwarder[c] = "top" /\ page # c
    /\ forwarder' = [forwarder EXCEPT ![c] = "ended"]
    /\ ForwarderFrame /\ UNCHANGED <<busVars, batch, ctrl, shown, table, told>>

\* CancelledError at the await it is at.  If a record or the timeout was there
\* first, wait_for may return once more (before Python 3.12), and the loop ends at
\* its top.
Interrupted(c) ==
    /\ handler[c] = "closing" /\ forwarder[c] \in {"top", "get"}
    /\ forwarder' = [forwarder EXCEPT ![c] = "ended"]
    /\ ForwarderFrame /\ UNCHANGED <<busVars, batch, ctrl, shown, table, told>>

\* Control events first: the page puts the device in its table, or takes it out.
SendControl(c) ==
    /\ forwarder[c] = "top" /\ page = c
    /\ ctrl[c] # << >>
    /\ ctrl' = [ctrl EXCEPT ![c] = Tail(@)]
    /\ LET event == Head(ctrl[c]) IN table' = [table EXCEPT ![event.id] = event.state]
    /\ ForwarderFrame /\ UNCHANGED <<busVars, forwarder, batch, shown, told>>

AwaitRecord(c) ==
    /\ forwarder[c] = "top" /\ page = c
    /\ ctrl[c] = << >>
    /\ forwarder' = [forwarder EXCEPT ![c] = "get"]
    /\ ForwarderFrame /\ UNCHANGED <<busVars, batch, ctrl, shown, table, told>>

\* Send a batch: the page appends it and shows the dropped count.
SendUntoldMut(c, records) ==
    /\ shown' = IF page = c THEN shown \o records ELSE shown
    /\ batch' = [batch EXCEPT ![c] = << >>]
    /\ UNCHANGED told
SendStrayMut(c, records) ==
    /\ shown' = shown \o records
    /\ told' = [told EXCEPT ![c] = dropped[c]]
    /\ batch' = [batch EXCEPT ![c] = << >>]
Send(c, records) ==
    /\ shown' = IF page = c THEN shown \o records ELSE shown
    /\ told' = IF page = c THEN [told EXCEPT ![c] = dropped[c]] ELSE told
    /\ batch' = [batch EXCEPT ![c] = << >>]

\* get() returns: below BatchMax the loop goes on collecting.
TakeRecord(c) ==
    /\ forwarder[c] = "get"
    /\ Take(c)
    /\ LET records == Append(batch[c], Head(queue[c]))
       IN  IF Len(records) < BatchMax
           THEN batch' = [batch EXCEPT ![c] = records] /\ UNCHANGED <<shown, told>>
           ELSE Send(c, records)
    /\ forwarder' = [forwarder EXCEPT ![c] = "top"]
    /\ ForwarderFrame /\ UNCHANGED <<ctrl, table>>

\* A quarter of a second without a record: send what there is.
GetTimeoutMut(c) ==
    /\ forwarder[c] = "get"
    /\ forwarder' = [forwarder EXCEPT ![c] = "top"]
    /\ ForwarderFrame /\ UNCHANGED <<busVars, batch, shown, told, ctrl, table>>
GetTimeout(c) ==
    /\ forwarder[c] = "get"
    /\ IF batch[c] # << >> THEN Send(c, batch[c]) ELSE UNCHANGED <<batch, shown, told>>
    /\ forwarder' = [forwarder EXCEPT ![c] = "top"]
    /\ ForwarderFrame /\ UNCHANGED <<busVars, ctrl, table>>

-----------------------------------------------------------------------------
(* The rest of the system *)

\* WSHub.broadcast of a device event: a full queue keeps what it has.
Offer(c, event) == IF Len(ctrl[c]) < CtrlSize THEN Append(ctrl[c], event) ELSE ctrl[c]

\* _emit_device and _emit_device_removed: the device is in state n from now on.
Becomes(d, n) ==
    /\ seq + changes < MaxEvents
    /\ changes' = changes + 1
    /\ devices' = [devices EXCEPT ![d] = n]
    /\ ctrl' = [c \in Sub |-> IF c \in hub THEN Offer(c, [id |-> d, state |-> n]) ELSE ctrl[c]]
    /\ unheard' = IF page \notin hub THEN unheard
                  ELSE IF Len(ctrl[page]) < CtrlSize THEN unheard \ {d} ELSE unheard \union {d}
    /\ UNCHANGED <<busVars, handler, forwarder, batch, hub, page, shown, table, answer, told>>

DeviceChanges(d) == Becomes(d, changes + 1)
DeviceRemoved(d) == devices[d] # 0 /\ Becomes(d, 0)

PageLeaves ==
    /\ page # NoConn
    /\ page' = NoConn
    /\ UNCHANGED <<busVars, handler, forwarder, batch, hub, ctrl, devices, changes, shown,
                   table, answer, told, unheard>>

\* What a request of /api/state leaves alone.
FetchFrame ==
    UNCHANGED <<busVars, handler, forwarder, batch, hub, ctrl, devices, changes, page, shown, told>>

\* refreshState, every five seconds and after each connection and command: the
\* host answers with its devices.
Answered(f) ==
    /\ answer[f] = NoAnswer
    /\ answer' = [answer EXCEPT ![f] = devices]
    /\ FetchFrame /\ UNCHANGED <<table, unheard>>

\* The answer arrives, maybe after events that are newer.  It repairs the page's
\* word of a device, or spoils it, unless an event will have the last word.
RefreshNewOnlyMut(f) ==
    /\ answer[f] # NoAnswer
    /\ answer' = [answer EXCEPT ![f] = NoAnswer]
    /\ table' = [d \in Device |-> IF table[d] # 0 THEN table[d] ELSE answer[f][d]]
    /\ FetchFrame /\ UNCHANGED unheard
Refresh(f) ==
    /\ answer[f] # NoAnswer
    /\ answer' = [answer EXCEPT ![f] = NoAnswer]
    /\ table' = Upserted(answer[f])
    /\ LET final == {d \in Device : answer[f][d] # 0 /\ (page \in Sub => NoEvent(page, d))}
       IN  unheard' = {d \in unheard \union final : d \in final => answer[f][d] # devices[d]}
    /\ FetchFrame

\* The request fails: `catch {}`.
RefreshFails(f) ==
    /\ answer[f] # NoAnswer
    /\ answer' = [answer EXCEPT ![f] = NoAnswer]
    /\ FetchFrame /\ UNCHANGED <<table, unheard>>

Forward(c) ==
    \/ EndForwarder(c) \/ Interrupted(c) \/ SendControl(c) \/ AwaitRecord(c)
    \/ TakeRecord(c) \/ GetTimeout(c)

Next ==
    \/ seq + changes < MaxEvents /\ Publish /\ UNCHANGED wsVars
    \/ \E d \in Device : DeviceChanges(d) \/ DeviceRemoved(d)
    \/ PageLeaves
    \/ \E f \in Fetch : Answered(f) \/ Refresh(f) \/ RefreshFails(f)
    \/ \E c \in Sub :
          Connect(c) \/ Serve(c) \/ SnapshotFails(c) \/ Cancel(c) \/ Finish(c) \/ Forward(c)

\* The event loop resumes a handler whose send is done and a forwarder that
\* can go on.  get() returns at once from a queue that is not empty, so its
\* timeout cannot win for ever.  The page asks for the state every five seconds,
\* and not every request fails.
Spec == /\ Init /\ [][Next]_vars
        /\ \A c \in Sub : /\ WF_vars(Serve(c) \/ SnapshotFails(c))
                          /\ WF_vars(Cancel(c) \/ Finish(c))
                          /\ WF_vars(Forward(c))
                          /\ SF_vars(TakeRecord(c))
        /\ \A f \in Fetch : WF_vars(Answered(f)) /\ SF_vars(Refresh(f))

-----------------------------------------------------------------------------
Event == [id : Device, state : Nat]

WsTypeOK ==
    /\ BusTypeOK
    /\ handler \in [Sub -> {"off", "snapshot", "serving", "closing", "over", "failed"}]
    /\ forwarder \in [Sub -> {"off", "top", "get", "ended"}]
    /\ batch \in [Sub -> Seq(Nat)] /\ \A c \in Sub : Len(batch[c]) < BatchMax
    /\ hub \subseteq Sub
    /\ ctrl \in [Sub -> Seq(Event)] /\ \A c \in Sub : Len(ctrl[c]) <= CtrlSize
    /\ devices \in [Device -> Nat] /\ changes \in Nat /\ table \in [Device -> Nat]
    /\ answer \in [Fetch -> [Device -> Nat] \union {NoAnswer}]
    /\ page \in Sub \union {NoConn}
    /\ shown \in Seq(Nat)
    /\ told \in [Sub -> Nat]
    /\ unheard \subseteq Device

\* What the page lists, followed by what is on its way to it, is in the order
\* of publication without a repeat, also right after a reconnect; and every
\* record published since the connection subscribed is listed, on its way, or
\* in its dropped count, which the page knows or is about to be sent with what
\* is on its way.
ViewFollowsLog ==
    \A c \in Sub : page = c /\ handler[c] = "serving" =>
        /\ Ascending(shown \o batch[c] \o queue[c])
        /\ told[c] = dropped[c] \/ batch[c] # << >> \/ queue[c] # << >>
        /\ Cardinality({i \in DOMAIN shown : shown[i] > joined[c]}) + Len(batch[c])
             + Len(queue[c]) + dropped[c] = seq - joined[c]

\* The last event on its way to connection c about device d says state n, or
\* there is none and the page shows n.
LeadsTo(c, d, n) ==
    \/ NoEvent(c, d) /\ table[d] = n
    \/ \E i \in DOMAIN ctrl[c] :
          /\ ctrl[c][i] = [id |-> d, state |-> n]
          /\ \A j \in DOMAIN ctrl[c] : j > i => ctrl[c][j].id # d

\* Whatever snapshots, events and answers the page is sent, and in whichever
\* order, once it has had the events on its way it shows the present state of each
\* device, and removed devices no more.  The exceptions are the devices removed
\* while the page had no connection, those whose newest event a full queue threw
\* away, and those of which an answer older than the page's last event has
\* arrived; an event or a fresh answer that comes through ends the exception.
EventsLeadToState ==
    page # NoConn =>
        /\ page \in hub
        /\ \A d \in Device \ unheard : LeadsTo(page, d, devices[d])

\* Every record published to a connection in service is in the end listed by
\* the page, unless the connection dropped records or was lost.
EveryRecordShown ==
    \A c \in Sub : \A n \in 1 .. MaxPublished :
        (page = c /\ c \in open /\ joined[c] < n /\ n <= seq)
            ~> (n \in ToSet(shown) \/ dropped[c] > 0 \/ page # c)

\* The page learns of every drop (bus.py:10, "so the UI can show"): a drop is
\* always followed by a frame that carries the count.
DropsAreShown ==
    \A c \in Sub : \A n \in 1 .. MaxPublished :
        (page = c /\ dropped[c] = n) ~> (told[c] >= n \/ page # c)

\* Each state of a device that lasts is shown in the end, with or without a
\* connection: also if the event was thrown away or an old answer came after it.
DeviceStateReachesPage ==
    \A d \in Device : \A n \in 1 .. MaxEvents :
        devices[d] = n ~> (table[d] = n \/ devices[d] # n)

\* app.js:35, "device_removed": a device that is gone is not shown for ever by a
\* page that stays connected.
RemovedDevicesGo ==
    \A c \in Sub : \A d \in Device :
        (page = c /\ devices[d] = 0) ~> (table[d] = 0 \/ devices[d] # 0 \/ page # c)

\* bus.py:7-10: the only records a slow page misses are the ones dropped from
\* its queue, "Dropped counts are tracked so the UI can show 'N lines
\* dropped'": nothing between the snapshot and the live records is missing.
NothingMissedUncounted ==
    \A c \in Sub : page = c /\ handler[c] = "serving" /\ dropped[c] = 0 =>
        LET flow == shown \o batch[c] \o queue[c]
        IN  \A i \in 1 .. Len(flow) - 1 : flow[i + 1] = flow[i] + 1

\* TESTPLAN.md:37, "memory flat": once a connection is over, however it ended,
\* the hub keeps no queue for it.
HubForgetsConnection == \A c \in hub : handler[c] \notin {"over", "failed"}
=============================================================================
