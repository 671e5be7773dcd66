# iDeviceTail in TLA+

A verification project for iDeviceTail: TLA+ specifications of its desktop
program and its iOS log client, TLC models that check them on small instances,
and proofs that TLAPS checks for every value of the constants. Paths below are
relative to the repository; `pkg/` stands for `desktop/idevicetail/`.

## 1. The system

iDeviceTail shows the logs of iOS devices in a browser. Logs come from two
engines: *Engine A* runs one `pymobiledevice3` child per capture of a paired
device; *Engine B* is a library inside an iOS app that connects to the desktop
and streams that app's own log. Everything on the desktop is one asyncio event
loop, so code between two `await`s is atomic and everything that can go wrong
goes wrong at an `await`.

| part | source | state | operations | talks to |
|---|---|---|---|---|
| log bus | `pkg/bus.py` | sequence number, ring of the newest records, the open subscriptions with their bounded queues and drop counts | publish, subscribe, get, close, snapshot | called by both engines; read by the store, the file sink and each browser session |
| store | `pkg/store.py` | pending rows, rows_written, one SQLite connection and its transaction | run, consume, flush, upsert_device, start_session, end_session, close | a subscriber of the bus; called by captures, agents and the registry |
| file sink | `pkg/filesink.py` | two files, rotation count, lines_written | run, consume, rotate, close | a subscriber of the bus |
| browser session | `pkg/server.py` (`_ws`, `WSHub`), `pkg/web/app.js` | per socket: control queue, subscription, batch; on the page: records, devices, dropped count | connect, snapshot, forward, broadcast, disconnect | bus, registry |
| capture | `pkg/manager.py` (`CaptureTask`, `start_capture`, `stop_capture`), `pkg/engine_device.py` (`stream`) | per device and mode a task, its child process, its session, and the device's displayed state | start, stop, connect, stream, fail, back off, retry | registry (shares the `Device`), bus, store |
| device registry | `pkg/manager.py` (`merge_device`, `lose_bonjour`, refresh loop) | the device table, bonjour keys | merge, lose, refresh every 6 s | discovery, agent server, captures, hub, store |
| discovery | `pkg/discovery.py` | services seen with a time, a browser, a reaper | state change, resolve, reap, stop | registry callbacks |
| agent server | `pkg/engine_agent.py` | connections, per connection device and session | accept, hello, log and batch, ping, bye, disconnect, stop | bus, registry, store |
| agent client | `LogStreamClient.swift`, `LogForwarder.swift` | state, connection, outbound buffer, timers, counts | connect, stop, send, flush, ping, reconnect | agent server over TCP |
| device engine commands | `pkg/engine_device.py` (`list_devices`, `pull_crashes`, `_run`), `_pull_crashes` in `pkg/server.py` | the transports a device was ever seen on; the directory of pulled crash reports | list, merge, choose a transport, pull and publish, time out | registry, bus |
| HTTP API, start-up and shutdown | `pkg/server.py` | caches | routes, create_app, run, _shutdown | everything |
| normalisation, formatting, export, device names | `pkg/normalize.py`, `pkg/models.py`, `pkg/exporter.py`, `pkg/device_names.py` | none | pure functions | both engines, sinks |
| command line, configuration, scripts, iOS user interface | `pkg/cli.py`, `pkg/config.py`, `scripts/`, `ios/IDeviceTailAgent/` | none worth a model | sequential | |

What is hard in it, and what makes each part correct:

* **Bus**: queues and the ring at their limits. Every record is delivered in
  order, waits, or is counted as dropped; nothing else is lost.
* **Store**: a consumer, several bookkeeping callers and a shutdown share one
  connection and one transaction; statements fail. Every row is accounted for
  and every record ends up on disk unless something said otherwise.
* **Browser session**: the page connects, loses its connection and reconnects
  while records and device events keep coming. What it shows is the log in
  order, with every loss counted, and the current devices.
* **Capture**: start, stop, retry, child exit and the refresh interleave at
  every `await`, and all write one `Device`. No capture may become
  unstoppable, no stop may hang, retries must go on, and the displayed state
  should be the truth.
* **Registry and discovery**: the same device is seen through several sources
  in any order. There should be one row per device and no row for a device
  that is gone.
* **File sink**: a thread writes batches to two files that are rotated by size,
  while the disk may fail and the host may be told to end. The files should hold
  the log in order, agree with each other and with the counter, and let go.
* **Device commands**: four lists from two tools describe the same phones, and
  the phone moves between cable and Wi-Fi. A command should get through where it
  can, and a crash report be published once.
* **Normalisation**: some syslog lines have no year, none has a time zone, and they
  may be continued. Every line should be in one record, and the record have the time
  the phone meant.
* **Start-up and shutdown**: parts start in one order and stop in another, any of
  them may fail, one may wait for an agent to leave, and the process should still
  end with its files written.
* **Agent server and client**: connections break, half-open ones linger,
  reconnects overlap. Sessions and states should follow the live connection;
  records should arrive in order and at least once; a stop should stop.

The hazards, each at its line, are the `hazards` of `PROJECT.json`.

## 2. The modules

| module | models | state and actions against the code |
|---|---|---|
| `LogBus` | `pkg/bus.py` | `seq`, `ring`, `open`, `queue`, `dropped` are the fields of `LogBus` and `Subscription`; no method awaits, so each is one action. `joined`, `taken`, `last` are history. A record is its sequence number. |
| `LogFanout` | nothing: the abstract specification of the bus | one log of which only the length matters, and a cursor per reader; a reader more than a queue behind skips one record per new record. `LogBus!FanoutSpec` instantiates it. |
| `Store` | `pkg/store.py`, on top of `LogBus` | the consumer's `await`s are values of `consumer`; `db` is what the shared connection sees, `disk` what is committed; bookkeeping callers execute, then commit; a statement may fail. |
| `WsSession` | `_ws`, `WSHub` and `_state` in `pkg/server.py`, `connect` and `refreshState` in `pkg/web/app.js`, on top of `LogBus` | `handler` and `forwarder` are the two coroutines of a socket; `devices` is the device table as numbers of changes; `page`, `shown`, `table`, `told` are what the browser has, and `answer` its requests of `/api/state`. A list of devices is put into `table` as the page does it: it removes none. |
| `Capture` | `CaptureTask`, `start_capture`, `stop_capture`, the refresh in `pkg/manager.py`; `stream` in `pkg/engine_device.py` | `pc` is the `await` a task is at; `captures` the registry; `stops` the `stop_capture` calls in progress; `state` and `notReachable` are the shared `Device`. `session` is each task's row; `start_session` and `end_session` may raise, which is suppressed, and `unsaved` remembers it. |
| `DeviceRegistry` | `merge_device`, `_identity`, `lose_bonjour` and their events in `pkg/manager.py` | `devices` and `bonjourKeys` are the fields of `DeviceManager`; of a row its address and transports are kept, by which rows are matched; `told` is what the events make of a page's table. |
| `Discovery` | `pkg/discovery.py`, on top of `DeviceRegistry`, with the refresh's list and the agents as the other sources | `calls` are the callbacks that zeroconf's thread scheduled, `resolving` the `_resolve` coroutines, `seen` the field of that name with its age; `up` is the network, `reported` history. |
| `AgentServer` | `pkg/engine_agent.py`, with what it causes in `merge_device` and the store | `conn` is the `await` a handler is at; `who` its locals `device` and `session_id`; `row`, `stored`, `sessions` the effects elsewhere, where a call of the store may raise and be suppressed (`unsaved`); `phase` is where `stop()` is. |
| `LogStreamClient` | `LogStreamClient.swift`, over a model of `NWConnection` | every block runs on one serial queue and is one action; `updates`, `done`, `receiving`, `pinging` are the callbacks on their way, which may arrive after the connection was replaced. `Odd` are the records that JSON cannot hold: a chunk with one has left the buffer when its encoding fails, and is `lost`. |
| `FileSink` | `pkg/filesink.py`, on top of `LogBus` | `sink` is where `_consume`, or the thread that writes for it, is; a file is the sequence of half lines in it, so a write cut short leaves a torn line; `archive` holds what was renamed. |
| `Host` | `create_app`, `run` and `_shutdown` in `pkg/server.py`, on top of `FileSink` | `step` walks the parts in the order of `Boot`, then of `Down`; of the other parts only whether they run is kept, and whether a capture runs; of the agent server also whether an agent is connected, for which `agent.stop()` may have to wait. |
| `DeviceList` | the parsing and merging of `list_devices` in `pkg/engine_device.py` | operators without state: `ListDevices` is built as the code builds it, `ByUdid` being the dict of `_dedupe` device by device; `IsDeviceList` says outright what the list should be. Keys that `_norm_dev` only tries one after the other are one field, and a connection type stands for its spellings. |
| `DeviceOps` | the refresh's list, the transport of a command, and the crash reports, on top of `DeviceList` | `cable`, `wifi` and `bridges` are where the phone is; `transports` is the field of `Device`; `dest` the directory; `pull` the requests, each with the listing of the directory it took before. |
| `Stamps` | `_parse_ts` in `pkg/normalize.py` | operators over integers, which are moments or readings of the wall clock: `Local` and `Timestamp` convert them, with summer time. A stamp is a month and a day without a year; `ParseTs` guesses the year, `ParseIso` reads a full date. |
| `LineReader` | the line loop of `_stream_once` in `pkg/manager.py` with the parsers of `pkg/normalize.py`, on top of `Stamps` | `pending` is the local of that name, `out` what was published; a line is its kind and its time. |
| `LogBusProofs`, `SubscriberProofs` (`WsSession`, `FileSink`, `Host`), `StoreProofs`, `CaptureProofs` (`Capture`, `LineReader`, `Stamps`), `DiscoveryProofs`, `AgentServerProofs`, `LogStreamClientProofs`, `DeviceOpsProofs` | | theorems, section 6 |
| `MCLogBus`, `MCStore`, `MCWsSession`, `MCCapture`, `MCDiscovery`, `MCAgentServer`, `MCLogStreamClient`, `MCHost`, `MCDeviceOps`, `MCLineReader` | | the values of the constants that a `.cfg` cannot write |

`Store`, `WsSession` and `FileSink` extend `LogBus`, so they run against the real
bus, each with its own subscriptions, and `Host` runs the real file sink. The other modules are coupled by what they share,
and each models the part of the other that it changes: `Capture` writes the
state of a device that `_refresh_pymd_once` also writes, `AgentServer` the rows
that `Store` keeps (with the foreign key that `Store!StartSession` has).

Definitions whose name ends in `Mut` are faulty variants of the definition that
follows them. Nothing in the specifications uses them: they serve to show that
each property fails when the code is changed the way the variant changes it.

## 3. Plan

Done: the modules above, in the order bus, store, browser session, capture,
registry and discovery, agent server, agent client; then the file sink within the
life of the host, the device commands, and the reading and dating of lines.

What would come next, in this order:

1. `AgentLink`: `LogStreamClient` and `AgentServer` composed over a lossy
   connection, for the order and the at-least-once delivery that
   `PROTOCOL.md:102-108` promises, from an abstract specification of a stream of
   records with explicit duplicates.
2. The page's pause buffer and row limit (`web/app.js`), and framing
   (`FrameCodec.swift`, `_frames`) as functions over sequences checked against a
   reference.
3. The device-info cache and the sysdiagnose job of `server.py`.
4. Proofs: every invariant of the passing runs is a theorem now, so what is left is
   what these modules bring: above all the order and the at-least-once delivery of
   `AgentLink`, which can build on `AccountInv` and `AgentInv`.

## 4. The runs

| run | instance | what it shows |
|---|---|---|
| `bus` | two subscriptions with queues of one and two, a ring of two, four records | both queues and the ring overflow; the ring and the queues hold the next records without a hole, every record is settled, and the bus implements `LogFanout` |
| `store` | a queue of two, flushes of two rows, four records, one capture doing bookkeeping, one failing statement | commits of others in the middle of a flush, partly inserted batches, a close at any moment; no record vanishes between the queue, the store's hands and the disk |
| `ws` | two connections one after the other, a queue of one, a ring of one, batches of two, one control slot, one device, one request of the state at a time, and two events in all, each a record, a change of the device or its removal | order and accounting across a lost connection whose handler is still winding down; a count the page has not been told is on its way; snapshots, events and late answers lead to the present devices; everything reaches the page |
| `capture` | two modes, two captures, one stop request | a capture per mode, or a capture restarted while the stop of the previous one waits, with the refresh, child exits, and failures of the child and of every store call |
| `capture_live` | one mode, two captures, one stop request | stops return, also for a child that ignores SIGTERM; retries go on |
| `discovery` | one phone with an Apple service, an agent app and its beacon, an address or none, two callbacks scheduled | every order of coming, going, late resolves, expiry, listing and hello; one row; a loss that would reach it is still to come; and forgotten when gone |
| `agent` | two connections that say the same hello, or nothing, over two devices, one of them in the database from before, and a store that may fail for the session they name | overlapping and successive connections, records before hello, repeated hellos, lost peers, stop at any moment |
| `client` | two connection objects, a buffer of one record, batches of up to two, two records of which the second cannot be encoded, one pending timer | late callbacks of a replaced connection, overflow, failed batches put back, a batch lost to its encoding alone or with the record before it |
| `host` | a queue of two, batches of up to two, a `.log` that is large after one line, or two torn ones, three records of which the last has no UTF-8 encoding, one failing file operation | rotations with a rename that fails, torn lines, a dead consumer, a start that fails, and the end of the process at any moment and with every failure, with an agent that comes and goes and is waited for or not |
| `ops` | a phone with two addresses next to another one, two crash reports of which one is skipped, two requests, one move between cable and Wi-Fi, and a usbmuxd that does not bridge Wi-Fi | every way the two lists overlap, repeat a phone or miss it; pulls that overlap and fail |
| `lines` | four lines of seven kinds around two new years, both kinds of February 28 and the end of summer time, in hours, up to ten months late or half a day ahead, one tick of the clock | every mixture of plain, dated, continued, broken and JSON lines, ended by the child or cut; lines from the other side of a change of the clocks, and in the hour that is shown twice |
| `ops_unplugged` | as `ops`, with two moves, with and without a usbmuxd that bridges Wi-Fi | violated: see below |

The invariants of type are not part of a run: they are proved (section 6), as are
`DeliveryInOrder` of the bus, `PageShowsTable` of the registry, `NeverStranded` of
the client, and `StopsAwaitEndings` and `LinesComeFromTheCapture` of the captures. TLC
checked each of them on the instance of its component's run, in a run of its own,
before it was proved.

Bounds. Two of everything that interacts (connections, tasks, subscriptions,
pulls) is where the interesting orders are: the code relates an object to the one
that replaced it, never to a third. `MaxPublished`, `MaxEvents`, `MaxRecords` and
`MaxFailures` bound how much happens; each exceeds the queue, ring or buffer
it meets and fills the batch, so every limit is hit. `MaxTasks` bounds the captures
started. `MaxTimers` bounds the reconnect timers pending: further timers would
fire into a state in which the client does nothing, or restart it once more.
`MaxCalls` and `MaxResolves` bound the callbacks and resolves that are pending;
two callbacks are a removal behind an arrival, or the reverse. One address is
enough for `discovery`, since its properties are about sources that agree; its
invariants were also checked with two phones that share two addresses. `LossReachesRow` was
also checked with two Apple services of one phone. In `ws` records and changes share
one bound: two records overflow the queue, two changes the control queue, and a
change and a removal are what an old answer can undo. In `agent`, `MayRaise` is the
session that both connections may name; the sessions the server draws have one
connection each. In `lines` the shift of summer time is one hour, as long as the unit,
so the hour that is shown twice is two moments with one reading.
`MaxConns` bounds the connection objects that still have something to report;
`Connect` and `Timer` wait when there is no spare one. In `host` three records are
two rotations and a record in the file after them, and a single failure is enough
since the next batch already meets its torn line. In `ops`, `MaxRequests` is one
pull after another or two at once; one move makes every list stale once, and the
violation needs two; its properties were also checked with a usbmuxd that bridges
Wi-Fi. In `lines`, four lines are a record, two that continue it and
what ends it; `MaxTicks` lets the new year come between two lines. The theorems of
section 6 hold without these bounds.

The violated run is a disagreement between the code and what a document says:

* `ops_unplugged` (`SETUP-iOS.md:90`): a command goes over Wi-Fi only if the phone
  was never seen on a cable, and transports are never taken away. A phone that was
  set up on its cable in the same process and then unplugged cannot be started
  where usbmuxd does not bridge Wi-Fi.

More statements of the repository that the code does not keep are written down as
definitions, each with the configuration that shows it but without a run:

* `NothingMissedUncounted` (`MCWsSessionGap.cfg`): `_ws` takes the snapshot, sends
  it, and subscribes afterwards. A record published in between is in neither, and
  no dropped count includes it.
* `StreamingIsShown` (`MCCaptureState.cfg`): the `finally` of a capture, or its
  retry, writes the state of the shared `Device` while its other capture, or its
  replacement, delivers.
* `LiveAgentIsShown` (`MCAgentServerShown.cfg`): the `finally` of a half-open
  connection sets the device of the reconnected agent offline.
* `StopSticks` (`MCLogStreamClientStop.cfg`): cancelling the connection in `stop()`
  reports `.cancelled`, which schedules a reconnect.
* `DownloadIsFull` (`MCHostDownload.cfg`): a download gives the file of the current
  name; after a rotation the rest of the log is in files that nothing serves.
* `PulledIsPublished` (`MCDeviceOpsPulled.cfg`): what a failed pull left in the
  directory is old to the next pull, and never published.
* `RolloverIsGuarded` (`MCLineReaderRollover.cfg`): a line of a phone that is past
  the new year when the host is not is dated a year back.
* `BonjourOnlyIsFolded` (`MCDiscoveryFold.cfg`; `manager.py:255`, "a bonjour-only
  sighting"): the row of a connected agent is folded into that of a phone at its
  address as well, and comes back at the agent's next hello.
* `HubForgetsConnection` (`MCWsSessionLeak.cfg`; `TESTPLAN.md:37`, "memory flat"):
  a connection that fails while its snapshot is sent stays registered with the hub.
* `RemovedDevicesGo` (`MCWsSessionGhost.cfg`; `app.js:35`, "device_removed"): only an
  event takes a device off the page. One that is removed while the page has no
  connection, or that an old answer of `/api/state` puts back, stays until the page
  is loaded again.
* `DroppedBatchNotStored` of `Store` (`store.py:174`, "drop the batch"): a batch
  whose flush raised is not rolled back, and rows of it may be committed by the next
  commit.

And in `AgentServer` a new device's first session row is never written, since the
device's row comes later (`engine_agent.py:164`).

## 5. Fairness

The event loop resumes every coroutine that can go on, so the steps of a
coroutine that nothing else can block have weak fairness: `Forward`, `Serve`,
`Cancel` and `Finish`, the consumer of the store, `TaskStep`, `HandlerStep`, `StopNext`,
`ServerClosed`, `Stopped`, and the callbacks, resolves and reaper of `Discovery`,
where an entry that is not refreshed turns old. A `wait_for(get())` may time out
again and again, but it returns at once from a queue that is not empty, so `Get` and `TakeRecord` have
strong fairness. Of the bus alone, the readers of the open subscriptions go on
reading; nobody reads one that is closed, and `EveryRecordSettled` promises nothing
for what it still holds. The page asks for `/api/state` every five seconds, so an
answer is made, and not every request fails (strong fairness of `Refresh`). In `Capture`, spawning a child does not fail for ever (strong
fairness of `Spawned`) and the end of a child's output is noticed; no fairness is
assumed of a child that was told to terminate. In `AgentServer`, an agent that
has closed its end has sent finitely many frames, so the end of its stream is
reached (strong fairness of `EndOfStream`); nothing is assumed of one that is
lost, because the code reads without a timeout. In `LogStreamClient` the queue
runs the blocks it is given, in no particular order (weak fairness of `Report`
as a whole), timers fire, and the network completes a connection now and then
(strong fairness of `Establish`). In `Host` the steps of start and shutdown, and
those of the sink and its thread, go on (weak fairness), and its `get()` returns
from a queue that is not empty (strong fairness of `Read`). The stop of the agent
server is such a step only when it need not wait: as of Python 3.12 it waits for the
agents that are connected, nothing makes them leave, and `ShutdownCompletes` says
that the process ends once they have. The stops of the other parts return, which is
`StopCompletes` of the captures and `CloseCompletes` of the store.
`DeviceOps` and `LineReader` have no liveness property and no fairness. Nothing is assumed of users, producers or
failures.

## 6. Proofs

TLAPS proves the following for every value of the constants that satisfies the
assumptions in the modules (`RingSizeAssumption`, `QueueSizeAssumption`,
`StoreAssumption`, `CaptureAssumption`, `RegistryAssumption`,
`DiscoveryAssumption`, `AgentAssumption`, `ClientAssumption`, `WsAssumption`,
`FileSinkAssumption`, `PhoneAssumption`, `CalendarAssumption`, `ClockAssumption`; and
`MaxPublishedAssumption`, that the bound on published records is a number). For each
component the theorems follow from an inductive invariant, with one lemma per action,
and where components are composed it contains that of the component below.

* `LogBusProofs`: `BusInv` is the type, `RingIsNewest`, `QueueIsNextRun` and
  `Bounded`. `Bounded` is the strengthening: a queue never runs past the newest
  record, closed or not, and what was read last is not past what is settled.
  `PushRun` says what the bounded push does to a run of records and carries both
  the ring and the queues. The refinement maps every action of the bus to
  one of `LogFanout`: `PublishIsGrow`, `SubscribeIsAttach`, `TakeIsRead`,
  `CloseIsDetach`. `BusStepReadsNext` and `BusStepIsFanout` say it of any step of the
  bus, so that a component that takes part in the bus needs only the lemma
  that its steps are steps of the bus or stutter. The lemmas on lists of records in their order (`JoinAscending`,
  `CountAscending`, `CountDisjoint`) serve the readers of the bus as well.
* `SubscriberProofs`, the page: `WsInv` proves `ViewFollowsLog`. On top of `BusInv` it
  needs `Phases`, that a connection has its subscription exactly while it is served,
  and `ShownIsTaken`: what the page lists and then the batch in the forwarder's hands
  ascend, hold nothing the subscription has not settled, and have as many records
  newer than the subscription as were taken from its queue. Only with the batch is
  this kept by a step; that a snapshot ends where the subscription begins comes from
  `RingIsNewest`. That the page knows the dropped count, or is about to be sent it, is
  `DropIsTold`: the record whose arrival drops another stays in the queue. `OnTheWay` proves
  `EventsLeadToState`: of every device the last word on its way, or else what the page
  shows, is the present state. `unheard` are the devices for which it need not be: the
  proof has to show that nothing else enters it. `WsStepIsBusStep` makes `PagesReadInOrder` and `PagesImplementFanout`
  follow from the lemmas of the bus: the abstract fan-out is implemented also when
  connections come, wind down and go.
* `SubscriberProofs`, the files: `SinkInv` proves `FilesFollowBus`. `BatchIsNewest` says
  that what is being written is the newest of what was read, and that none of it is
  lost; `FilesHold`, that through the archives and the current file the half lines of
  a kind ascend, contain both halves of every counted record and no half of the batch.
  So a write that is cut short, or a rotation between two batches, adds at the end
  (`PieceIsNewest`). `ArchivesPair` follows from the sink's steps and the number of
  failures; what one kind holds, the other does.
* `CaptureProofs`: `CaptureInv` adds `Shape` and `SoleShape` to the four checked
  invariants. `Shape` says what each position of a task excludes. In particular a
  cancelled task is not wanted and not yet winding down, so the step that ends a
  task can never end a registered one. `SoleShape` says that as long as no two
  captures were alive at once there is one at most, and that it accounts for a
  device that looks streaming. `SessionFollowsTask` says what the store's failures
  cost: `unsaved` are the tasks whose own calls raised, and only of these a row may be
  missing or stay open. `AwaitInv` proves `StopsAwaitEndings`: a stop
  awaits a task that it made unwanted, and since a start makes a task of its own, no
  step makes one wanted again.
* `CaptureProofs`, the lines: `ParseTsCorrect` says that the guessed year is the right
  one for every reading that `Datable` names, in any calendar whose years follow each
  other, and `TimestampCorrect` that the moment made of a reading is the one it was
  read at, or the first with that reading; `DatedInv` carries it from the line to its record while lines are joined,
  held back and published. `WholeInv` proves `EveryLineKept` and `RecordsAreWhole`:
  each published record that can be continued is `Sealed`, by a line that ended it
  before any more came to continue it, and the pending one `Waits`, so a line that
  continues has one record to join; what is in no record yet continues nothing.
* `DiscoveryProofs`: `DiscoveryInv` adds `RowsAreReported`, that the address of a
  row was reported for its phone, and `KeysLeadHome`, that a key leads to the row
  of its own phone. Both need the sources to agree: `Agreed` demands one address
  per phone, which no other phone was given. The registry matches by address, so
  two phones that were given one are beyond what it can tell apart. The lemmas
  `UpdateTable`, `InsertTable` and `LoseTable` say what each operation does to the
  table; one lemma per kind of sighting builds on them. `LossReachesRow` includes that
  the loss is `Awaited`: a service the browser no longer sees has a removal in the
  callbacks that are scheduled until it is done.
* `AgentServerProofs`: `AgentInv` adds `AgentShape`: a handler knows only what was
  said; a device never shared has one claim at most, so a `finally` takes away
  the only claim; and a session row exists only for a stored device, so a
  hello never finds its own session ended. A session is excused from the moment a
  store call for it raises until the next one succeeds. The assumption that a session id
  belongs to one greeting stands for its being a uuid.

* `StoreProofs`: `StoreInv` proves `EveryRowInOneStage` and `StoredIsCounted`.
  `QueueAhead` says that what waits in the queue is newer than all the store has
  had, so a record that is read is new; `RowsAreNew`, that the rows in hand ascend
  and are neither on disk nor discarded, so numbers of rows can be added
  (`CountAscending`, `CountDisjoint` of `LogBusProofs`); `CountIsExact`, that without a failure only
  the batch may be half way to the disk, whoever commits. `PassInv` is the code
  between two awaits, which four actions share. `ReadIsKept` proves that no record vanishes:
  what was read since the start is in hand or on disk until a call fails, and what was
  not is in the queue by `QueueIsNextRun`. `StoreStepOfBus` gives `StoreReadsInOrder`
  from the bus; the refinement of `LogFanout` is not carried over, since a `get()`
  that sees the stop takes a record and closes the subscription in one step, which is
  two of the abstract one.
* `LogStreamClientProofs`: `ClientInv` proves `OneLiveConnection` and `HelloFirst`.
  `PipeIsLive` says that only a live connection has batches to process, so a
  connection object that is taken again has none; `ConnectedIsGreeted`, that being
  connected means that the current connection was greeted, whichever connection's
  report made it so; `BatchesAfterHello` is the property in terms of the queues.
  `AccountInv` proves `EveryRecordAccounted`: the batches given to connections are
  lists of which each record is in one place (`Apart`), and every action either keeps
  them or moves one batch between the buffer, a connection and what is sent. That a
  record dropped or sent leaves its place is `FlushApart`, `TakeFirst` and
  `MatchesTaken`; that the numbers add up is `SendAccount`, from the theorems on
  finite sets. A chunk that cannot be encoded is `lost`: `ChunkLost` bounds it by the
  records in it that JSON cannot hold. `WakeInv` proves `NeverStranded`: "no route for now" is the last report
  of no connection but the one being attempted (`WaitingIsFollowed`), so a report
  that changes nothing is followed by one that does. `FlagsOK` adds to `AccountInv` what
  the type needs: batches that fit a chunk and are not empty, through every flush, failure
  and end of a connection.
* `DeviceOpsProofs`: `CrashInv` proves `PublishedOnce`. `NewIsAlone` says that a
  report that no two pulls contest is new to a pull only if it runs alone;
  `PublishedIsOld`, that what was published is new to nobody; `PartIsCopied`, that
  a half-copied report belongs to the pull that will publish it; and
  `UnpublishedIsNew`, that one not published yet will be, or was left behind.
* `DeviceOpsProofs`, the list: `ListIsRight` holds of any two printed lists.
  `AbsorbIsRight` is one turn of the loop of `_dedupe`: absorbing a device into the
  list of the ones before gives the list of all of them, since what `Merged` makes of
  an entry is the entry of the longer list (`EntryMerges`). `DedupeIsRight` repeats it
  for any number of devices, `ListDevicesIsRight` merges the list of usbmux and that of
  mobdev2, each of which was merged before. `ChoiceInv` proves `FreshChoiceReaches`:
  what usbmux printed was printed somewhere, on the cable only if the phone was seen on it, and a
  list made where the phone is has given it the transport of that place (`FoundIs`).
  Of other phones `PhoneAssumption` only says that they have other UDIDs.

The strengthened invariants were checked with TLC on the instances of `capture`,
`discovery` and `agent` before they were proved.

The type invariants are theorems too: `BusTypeOK`, `StoreTypeOK`, `WsTypeOK`,
`HostTypeOK`, `TypeOK` of `Capture`, `DiscoveryTypeOK`, `AgentTypeOK` and
`ClientTypeOK`; so are `PageShowsTable`, that a page which has had every event shows
the device table, and the action properties `DeliveryInOrder`, of the bus and also
composed with its pages and with the store, and `LinesComeFromTheCapture`.

The induction theorems of the prover's library take an operator as a parameter, which
none of its backends can instantiate. Where a proof needs induction over a list it
goes over a set of numbers (`Induction`, from the least element that
`WellFoundedInduction` gives for the order of the naturals), and what a list holds is
said with quantifiers over its positions. This is why `ByUdid` is a function of the
number of devices, and why the definitions that were proved about use no fold.

What stays with TLC: everything about liveness and fairness, since the prover
handles neither `ENABLED` nor fairness; and the properties that the code does not
keep, which are counterexamples. Of six liveness properties the safety part is a
theorem, that what they promise is never out of reach:

| liveness, with TLC | its safety part, proved |
|---|---|
| `Reconnects` | `NeverStranded`: a client without a connection has something to wake it |
| `StopCompletes` | `StopsAwaitEndings`: what a stop awaits can only end |
| `GoneIsForgotten` | `LossReachesRow`: a row's loss is still to come and would reach it |
| `EveryRecordStored` | `NothingVanishes`, in `StoredIsCounted`: a record is queued, in hand or on disk |
| `DropsAreShown` | `ViewFollowsLog`: the count is told, or something that tells it is on its way |
| `DeviceStateReachesPage` | `EventsLeadToState`: what is queued leads to the present state |

What they leave to fairness is only that each thing on its way arrives. Each
invariant of the passing runs is a theorem, and so is the one refinement, for the bus
alone and for the bus with its browser sessions.

## 7. What is not modelled

* Text: which characters make a line plain, continued or JSON, names, formatting,
  the fields of a record other than its lines and its date, the agent's payload and
  the summary of a crash report. A record is its number, a frame or a line its kind.
* Time, except for dates: how long a timeout, a backoff or a refresh takes. A
  timer may fire at any moment, so every order that some timing allows is included.
* In dates, fractions of a second, and a phone whose time zone is not the host's: the
  lines say no zone, and the host reads them in its own.
* The encoding of hello and ping frames in the client, which hold only strings and
  finite times and so never fail; a record fails only by its `ts`.
* The timeouts of single commands to the phone (`_run`): a command that times out is one
  that fails.
* Read-only routes and queries other than `/api/state`, and what `FileSink.info` reports.
* Pairing, developer mode and device info: single commands to the phone that keep no
  state here but a cache of info by device; and the sysdiagnose job.
* The fallback that reads tables when a tool prints no JSON (`engine_device.py`).
* Export, the command line and configuration (`pkg/cli.py`, `pkg/exporter.py`,
  `pkg/config.py`): sequential reading, formatting and starting of the host.
* The bind policy and the framing of the agent server, which admit or refuse a
  connection, or a frame, before anything here happens.
* In the registry, the names, models and details of rows, the offline pass (it is
  in `Capture`), publishing the host, and the removal of the browser at shutdown.
* In the browser, filters, the pause buffer, the row limit and commands over the
  socket.
* `LogForwarder`, `OSLogReader` and the user interface of the iOS app; installation
  scripts.
