------------------------------ MODULE Capture -------------------------------
(***************************************************************************)
(* The captures of one device: CaptureTask, and the parts of DeviceManager *)
(* that start, stop and observe them (desktop/idevicetail/manager.py), with *)
(* the pymobiledevice3 child each one streams from (engine_device.py,      *)
(* DeviceEngine.stream).                                                   *)
(*                                                                         *)
(* A task is suspended at one await at a time, named by pc:                *)
(*   created   scheduled, not yet run          session  start_session      *)
(*   spawn     create_subprocess_exec          stream   readline           *)
(*   reap      wait for a child after EOF      failing  same, on an error  *)
(*   stopping  same, cancelled                 backoff  sleep before retry *)
(*   ending    end_session                                                 *)
(* "unused" and "gone" are before and after.  How long a backoff lasts and *)
(* what a line says are left out; a session is that of its task, and its   *)
(* row what the task's own statements have made of it, which may fail.     *)
(* Which rows a full disk takes back later is in Store.                    *)
(***************************************************************************)
EXTENDS Integers, Sequences, FiniteSets

CONSTANTS
    Mode,      \* "syslog" and "oslog"
    MaxTasks,  \* bound on the captures started, for model checking only
    Request,   \* the stop requests that may be in progress at once
    NoTask

Task == 1 .. MaxTasks

ASSUME CaptureAssumption == Mode # {} /\ MaxTasks \in Nat /\ NoTask \notin Task

VARIABLES
    captures,     \* DeviceManager.captures, by mode
    pc, mode, desired,
    cancelled,    \* Task.cancel() was called and CancelledError is not raised yet
    gotAny,       \* got_any of _stream_once
    lastError,    \* last_error is not empty
    session,      \* the row of its session: "none", "open" or "ended"
    unsaved,      \* history: tasks whose start_session or end_session raised
    child,        \* its process: "none", "running", "terminated", "killed", "gone"
    state,        \* Device.connection_state
    notReachable, \* Device.detail says "not reachable"
    listing,      \* the refresh between list_devices and its offline pass
    stops,        \* stop_capture calls: the keys left to pop and the task awaited
    shared        \* history: two tasks have been alive at once

rowVars == <<session, unsaved>>
taskVars == <<captures, pc, mode, desired, cancelled, gotAny, lastError, rowVars, child>>
deviceVars == <<state, notReachable>>
vars == <<taskVars, deviceVars, listing, stops, shared>>

Idle == [left |-> {}, waiting |-> NoTask]

Init ==
    /\ captures = [m \in Mode |-> NoTask]
    /\ pc = [t \in Task |-> "unused"]
    /\ mode = [t \in Task |-> CHOOSE m \in Mode : TRUE]
    /\ desired = [t \in Task |-> FALSE]
    /\ cancelled = [t \in Task |-> FALSE]
    /\ gotAny = [t \in Task |-> FALSE]
    /\ lastError = [t \in Task |-> FALSE]
    /\ session = [t \in Task |-> "none"] /\ unsaved = {}
    /\ child = [t \in Task |-> "none"]
    /\ state = "discovered"
    /\ notReachable = FALSE
    /\ listing = "idle"
    /\ stops = [r \in Request |-> Idle]
    /\ shared = FALSE

Alive(t) == pc[t] \notin {"unused", "gone"}

-----------------------------------------------------------------------------
(* Start and stop *)

\* start_capture: an existing capture that is still wanted is returned as it is.
StartMut(m) ==
    \E t \in Task :
        /\ pc[t] = "unused" /\ \A u \in 1 .. t - 1 : pc[u] # "unused"
        /\ captures' = [captures EXCEPT ![m] = t]
        /\ pc' = [pc EXCEPT ![t] = "created"]
        /\ mode' = [mode EXCEPT ![t] = m]
        /\ desired' = [desired EXCEPT ![t] = TRUE]
        /\ shared' = (shared \/ \E u \in Task : Alive(u))
        /\ UNCHANGED <<cancelled, gotAny, lastError, rowVars, child, deviceVars, listing, stops>>
Start(m) ==
    \E t \in Task :
        /\ captures[m] # NoTask => ~desired[captures[m]]
        /\ pc[t] = "unused" /\ \A u \in 1 .. t - 1 : pc[u] # "unused"
        /\ captures' = [captures EXCEPT ![m] = t]
        /\ pc' = [pc EXCEPT ![t] = "created"]
        /\ mode' = [mode EXCEPT ![t] = m]
        /\ desired' = [desired EXCEPT ![t] = TRUE]
        /\ shared' = (shared \/ \E u \in Task : Alive(u))
        /\ UNCHANGED <<cancelled, gotAny, lastError, rowVars, child, deviceVars, listing, stops>>

\* The loop of stop_capture up to its next await: pop a capture that is still
\* there and call its stop(), or return.  `left` are the keys still to pop.
PopNext(r, left) ==
    \/ /\ \A m \in left : captures[m] = NoTask
       /\ stops' = [stops EXCEPT ![r] = Idle]
       /\ UNCHANGED <<captures, desired, cancelled>>
    \/ \E m \in left : LET t == captures[m] IN
       /\ t # NoTask
       /\ captures' = [captures EXCEPT ![m] = NoTask]
       /\ desired' = [desired EXCEPT ![t] = FALSE]
       /\ cancelled' = [cancelled EXCEPT ![t] = TRUE]
       /\ stops' = [stops EXCEPT ![r] = [left |-> left \ {m}, waiting |-> t]]

StopFrame == UNCHANGED <<pc, mode, gotAny, lastError, rowVars, child, deviceVars, listing,
                         shared>>

\* stop_capture(device, mode), or without a mode for every capture it has.
StopCapture(r) ==
    /\ stops[r] = Idle
    /\ \E left \in SUBSET {m \in Mode : captures[m] # NoTask} :
          left # {} /\ PopNext(r, left)
    /\ StopFrame

\* The awaited task has ended: go on with the next key.
StopNext(r) ==
    /\ stops[r].waiting # NoTask /\ pc[stops[r].waiting] = "gone"
    /\ PopNext(r, stops[r].left)
    /\ StopFrame

-----------------------------------------------------------------------------
(* CaptureTask._run *)

\* A task takes its steps while it is at its await and not cancelled.
At(t, place) == pc[t] = place /\ ~cancelled[t]
Go(t, place) == pc' = [pc EXCEPT ![t] = place]
TaskFrame == UNCHANGED <<captures, mode, desired, cancelled, listing, stops, shared>>

\* Errors of the store are suppressed.  A statement that raises has done nothing;
\* a commit that raises leaves its row to the next commit of the connection.
Unsaved(t, rows) == session' \in {session, rows} /\ unsaved' = unsaved \union {t}

StartSession(t) ==
    LET opened == [session EXCEPT ![t] = "open"]
    IN (session' = opened /\ UNCHANGED unsaved) \/ Unsaved(t, opened)

\* It ends the row that is there; without one it does nothing.
EndSession(t) ==
    LET closed == IF session[t] = "open" THEN [session EXCEPT ![t] = "ended"] ELSE session
    IN (session' = closed /\ UNCHANGED unsaved) \/ Unsaved(t, closed)

\* The first tick: start_session, outside the try.
Begin(t) ==
    /\ At(t, "created")
    /\ StartSession(t)
    /\ Go(t, "session")
    /\ TaskFrame /\ UNCHANGED <<gotAny, lastError, child, deviceVars>>

\* The head of the loop, after start_session or a backoff: connect.
ConnectMut(t) ==
    /\ At(t, "session") \/ At(t, "backoff")
    /\ state' = IF pc[t] = "backoff" THEN "reconnecting" ELSE "connecting"
    /\ lastError' = [lastError EXCEPT ![t] = FALSE]
    /\ gotAny' = [gotAny EXCEPT ![t] = FALSE]
    /\ Go(t, "spawn")
    /\ TaskFrame /\ UNCHANGED <<rowVars, child, notReachable>>
Connect(t) ==
    /\ At(t, "session") \/ At(t, "backoff")
    /\ state' = "connecting"
    /\ lastError' = [lastError EXCEPT ![t] = FALSE]
    /\ gotAny' = [gotAny EXCEPT ![t] = FALSE]
    /\ Go(t, "spawn")
    /\ TaskFrame /\ UNCHANGED <<rowVars, child, notReachable>>

Spawned(t) ==
    /\ At(t, "spawn")
    /\ child' = [child EXCEPT ![t] = "running"]
    /\ Go(t, "stream")
    /\ TaskFrame /\ UNCHANGED <<gotAny, lastError, rowVars, deviceVars>>

\* pymobiledevice3 is missing, or create_subprocess_exec raises.
SpawnFailsMut(t) ==
    /\ At(t, "spawn")
    /\ state' = "offline" /\ UNCHANGED notReachable
    /\ EndSession(t)
    /\ Go(t, "ending")
    /\ TaskFrame /\ UNCHANGED <<gotAny, lastError, child>>
SpawnFails(t) ==
    /\ At(t, "spawn")
    /\ state' = "error" /\ notReachable' = FALSE
    /\ lastError' = [lastError EXCEPT ![t] = TRUE]
    /\ Go(t, "backoff")
    /\ TaskFrame /\ UNCHANGED <<gotAny, rowVars, child>>

\* readline returns a line: only the first one since connecting shows.
Line(t) ==
    /\ At(t, "stream") /\ child[t] = "running"
    /\ IF gotAny[t] THEN UNCHANGED deviceVars
                    ELSE state' = "streaming" /\ notReachable' = FALSE
    /\ gotAny' = [gotAny EXCEPT ![t] = TRUE]
    /\ TaskFrame /\ UNCHANGED <<pc, lastError, rowVars, child>>

\* _on_stderr, ignored once there was a line.
Stderr(t) ==
    /\ pc[t] = "stream" /\ ~gotAny[t]
    /\ lastError' = [lastError EXCEPT ![t] = TRUE]
    /\ notReachable' \in BOOLEAN
    /\ state' = IF notReachable' THEN "unreachable" ELSE state
    /\ TaskFrame /\ UNCHANGED <<pc, gotAny, rowVars, child>>

\* stream()'s `finally` ends the child and waits for it.
Terminated(t) == IF child[t] = "running" THEN "terminated" ELSE child[t]

Eof(t) ==
    /\ At(t, "stream")
    /\ child' = [child EXCEPT ![t] = Terminated(t)]
    /\ Go(t, "reap")
    /\ TaskFrame /\ UNCHANGED <<gotAny, lastError, rowVars, deviceVars>>

\* readline raises: the line is longer than the stream's limit.
Overlong(t) ==
    /\ At(t, "stream") /\ child[t] = "running"
    /\ child' = [child EXCEPT ![t] = Terminated(t)]
    /\ Go(t, "failing")
    /\ TaskFrame /\ UNCHANGED <<gotAny, lastError, rowVars, deviceVars>>

\* The wait for the child ends: it is gone, or after five seconds it is killed.
ReapedMut(t) == child[t] = "gone" /\ UNCHANGED child
Reaped(t) ==
    \/ child[t] = "gone" /\ UNCHANGED child
    \/ child[t] = "terminated" /\ child' = [child EXCEPT ![t] = "killed"]

\* The rest of the pass after a stream that ended by itself.
StreamEnds(t) ==
    /\ At(t, "reap")
    /\ Reaped(t)
    /\ IF ~gotAny[t] /\ lastError[t]
       THEN state' = (IF notReachable THEN "unreachable" ELSE "error") /\ UNCHANGED notReachable
       ELSE state' = "offline" /\ notReachable' = FALSE
    /\ Go(t, "backoff")
    /\ TaskFrame /\ UNCHANGED <<gotAny, lastError, rowVars>>

\* The same after an exception.
StreamRaises(t) ==
    /\ At(t, "failing")
    /\ Reaped(t)
    /\ state' = "error" /\ notReachable' = FALSE
    /\ lastError' = [lastError EXCEPT ![t] = TRUE]
    /\ Go(t, "backoff")
    /\ TaskFrame /\ UNCHANGED <<gotAny, rowVars>>

\* The `finally` of _run.
FinallyMut(t) ==
    /\ state' = "offline" /\ UNCHANGED notReachable
    /\ Go(t, "ending")
    /\ UNCHANGED rowVars
Finally(t) ==
    /\ state' = "offline" /\ UNCHANGED notReachable
    /\ EndSession(t)
    /\ Go(t, "ending")

\* CancelledError is raised at the await.  Before the try it ends the task at
\* once; in the stream the child is ended first; a reap is abandoned.
CancelFrame(t) ==
    /\ cancelled' = [cancelled EXCEPT ![t] = FALSE]
    /\ UNCHANGED <<captures, mode, desired, gotAny, lastError, listing, stops, shared>>

CancelEarly(t) ==
    /\ cancelled[t] /\ pc[t] \in {"created", "session"}
    /\ Go(t, "gone")
    /\ CancelFrame(t) /\ UNCHANGED <<rowVars, child, deviceVars>>

CancelStream(t) ==
    /\ cancelled[t] /\ pc[t] = "stream"
    /\ child' = [child EXCEPT ![t] = Terminated(t)]
    /\ Go(t, "stopping")
    /\ CancelFrame(t) /\ UNCHANGED <<rowVars, deviceVars>>

CancelWait(t) ==
    /\ cancelled[t] /\ pc[t] \in {"spawn", "reap", "failing", "backoff"}
    /\ Finally(t)
    /\ CancelFrame(t) /\ UNCHANGED child

ChildStopped(t) ==
    /\ pc[t] = "stopping"
    /\ Reaped(t)
    /\ Finally(t)
    /\ TaskFrame /\ UNCHANGED <<gotAny, lastError>>

Ended(t) ==
    /\ pc[t] = "ending"
    /\ Go(t, "gone")
    /\ TaskFrame /\ UNCHANGED <<gotAny, lastError, rowVars, child, deviceVars>>

-----------------------------------------------------------------------------
(* The refresh, every six seconds, and the world *)

\* list_devices has returned.  A listed device is merged: its detail is
\* replaced, its state kept.
Refresh ==
    /\ listing = "idle"
    /\ \/ listing' = "listed" /\ notReachable' = FALSE
       \/ listing' = "missing" /\ UNCHANGED notReachable
    /\ UNCHANGED <<taskVars, state, stops, shared>>

\* The offline pass, after the awaits in between: a device that was not in the
\* list and has no capture is offline.
OfflinePassMut ==
    /\ listing # "idle"
    /\ listing' = "idle"
    /\ IF listing = "missing" /\ state \notin {"offline", "unreachable"}
       THEN state' = "offline" /\ notReachable' = TRUE
       ELSE UNCHANGED deviceVars
    /\ UNCHANGED <<taskVars, stops, shared>>
OfflinePass ==
    /\ listing # "idle"
    /\ listing' = "idle"
    /\ IF /\ listing = "missing" /\ state \notin {"offline", "unreachable"}
          /\ \A m \in Mode : captures[m] = NoTask
       THEN state' = "offline" /\ notReachable' = TRUE
       ELSE UNCHANGED deviceVars
    /\ UNCHANGED <<taskVars, stops, shared>>

\* A child exits: by itself, or because it was told to.
ChildExits(t) ==
    /\ child[t] \in {"running", "terminated", "killed"}
    /\ child' = [child EXCEPT ![t] = "gone"]
    /\ UNCHANGED <<captures, pc, mode, desired, cancelled, gotAny, lastError, rowVars,
                   deviceVars, listing, stops, shared>>

\* The steps the event loop takes once they can be taken: a coroutine that can
\* go on, a timer that ends.
TaskStep(t) ==
    \/ Begin(t) \/ Connect(t) \/ Spawned(t) \/ StreamEnds(t) \/ StreamRaises(t)
    \/ CancelEarly(t) \/ CancelStream(t) \/ CancelWait(t) \/ ChildStopped(t) \/ Ended(t)

Next ==
    \/ \E m \in Mode : Start(m)
    \/ \E r \in Request : StopCapture(r) \/ StopNext(r)
    \/ \E t \in Task : \/ TaskStep(t)
                      \/ SpawnFails(t) \/ Line(t) \/ Stderr(t) \/ Eof(t) \/ Overlong(t)
                      \/ ChildExits(t)
    \/ Refresh \/ OfflinePass

\* Besides the event loop: a child that has ended is noticed, and spawning one
\* does not fail for ever.  Nothing is assumed of a child told to terminate.
Spec == /\ Init /\ [][Next]_vars
        /\ \A t \in Task : /\ WF_vars(TaskStep(t))
                          /\ SF_vars(Spawned(t))
                          /\ WF_vars(Eof(t) /\ child[t] = "gone")
        /\ \A r \in Request : WF_vars(StopNext(r))

-----------------------------------------------------------------------------
InBody(t) == pc[t] \in {"spawn", "stream", "reap", "failing", "backoff", "stopping"}

TypeOK ==
    /\ captures \in [Mode -> Task \union {NoTask}]
    /\ pc \in [Task -> {"unused", "created", "session", "spawn", "stream", "reap",
                        "failing", "backoff", "stopping", "ending", "gone"}]
    /\ mode \in [Task -> Mode]
    /\ desired \in [Task -> BOOLEAN] /\ cancelled \in [Task -> BOOLEAN]
    /\ gotAny \in [Task -> BOOLEAN] /\ lastError \in [Task -> BOOLEAN]
    /\ session \in [Task -> {"none", "open", "ended"}] /\ unsaved \subseteq Task
    /\ child \in [Task -> {"none", "running", "terminated", "killed", "gone"}]
    /\ state \in {"discovered", "connecting", "streaming", "offline", "unreachable", "error"}
    /\ notReachable \in BOOLEAN /\ shared \in BOOLEAN
    /\ listing \in {"idle", "listed", "missing"}
    /\ stops \in [Request -> [left : SUBSET Mode, waiting : Task \union {NoTask}]]

\* Every capture that still wants to run is the one registered under its mode,
\* so a stop can find it, and one that is not wanted is on its way out: it is
\* cancelled, winding down, or gone.  No interleaving of start and stop leaves
\* a capture running that nothing can stop, or two wanted on one mode.
WantedIsRegistered ==
    \A t \in Task :
        /\ Alive(t) /\ desired[t] => captures[mode[t]] = t
        /\ Alive(t) /\ ~desired[t] => cancelled[t] \/ pc[t] \in {"stopping", "ending"}
        /\ \A m \in Mode : captures[m] = t => Alive(t) /\ desired[t] /\ mode[t] = m

\* A capture that is connecting, streaming or retrying has its session row
\* open, unless start_session failed, which leaves it without one; no row is
\* ended while its capture may still publish; and a task that has connected
\* leaves its row ended, unless a store call of its own failed.  A row stays
\* open for no other reason than such a failure or a stop before the task had
\* connected, and no child outlives the stream it was started for.
SessionFollowsTask ==
    \A t \in Task :
        /\ InBody(t) => session[t] = "open" \/ (session[t] = "none" /\ t \in unsaved)
        /\ pc[t] = "ending" \/ (pc[t] = "gone" /\ child[t] # "none") =>
              session[t] = "ended" \/ t \in unsaved
        /\ child[t] = "running" => pc[t] = "stream"

\* While the captures of a device never overlap, a refresh working from an old
\* list, a retry or a stop cannot make the device look anything but streaming
\* once lines arrive, and a device that looks streaming has a capture that
\* delivers.
StateFollowsSoleCapture ==
    ~shared =>
        /\ \A t \in Task : At(t, "stream") /\ gotAny[t] => state = "streaming"
        /\ state = "streaming" => \E t \in Task : Alive(t) /\ gotAny[t]

\* A stop always completes, also for a child that ignores SIGTERM: the tasks it
\* cancels end and the request that waits for them returns.
StopCompletes ==
    /\ \A t \in Task : (Alive(t) /\ ~desired[t]) ~> pc[t] = "gone"
    /\ \A r \in Request : stops[r] # Idle ~> stops[r] = Idle

\* A wanted capture streams again after every failure, until it is stopped.
RetriesUntilStopped ==
    \A t \in Task : (Alive(t) /\ desired[t]) ~> (pc[t] = "stream" \/ ~desired[t])

\* A task that a stop may wait for: it has ended, or can only end.
Leaving(t) ==
    \/ pc[t] = "gone"
    \/ ~desired[t] /\ (cancelled[t] \/ pc[t] \in {"stopping", "ending"})

\* The safety part of StopCompletes: a request that stop_capture has not
\* answered awaits a task that can only end, never one that a start in between
\* has made wanted again; and a task that awaits its child has told it to go, so
\* five seconds later the wait is over.
StopsAwaitEndings ==
    /\ \A r \in Request : stops[r] # Idle => stops[r].waiting # NoTask /\ Leaving(stops[r].waiting)
    /\ \A t \in Task : pc[t] \in {"reap", "failing", "stopping"} => child[t] \in {"terminated", "gone"}

\* Each line comes from the one capture that is registered and wanted for its
\* mode, into a session that is open unless it could not be written: never from
\* one that was stopped, and never twice because two captures of a mode read it.
LinesComeFromTheCapture ==
    [][\A t \in Task : Line(t) =>
          /\ desired[t] /\ captures[mode[t]] = t
          /\ session[t] = "open" \/ t \in unsaved]_vars

\* manager.py:376: "capture task owns the state while it retries".  So a
\* capture that delivers lines is shown as streaming.
StreamingIsShown ==
    \A t \in Task : At(t, "stream") /\ gotAny[t] => state = "streaming"
=============================================================================
