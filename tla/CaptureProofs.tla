---------------------------- MODULE CaptureProofs ----------------------------
(***************************************************************************)
(* Proofs about a capture's task and about what it makes of the lines it   *)
(* reads: Capture for any modes, requests and number of captures, and      *)
(* LineReader for any calendar in which years have 365 or 366 days, any    *)
(* clock and any lags.  The two have no variable in common.                *)
(***************************************************************************)
EXTENDS Capture, LineReader, SequenceTheorems, TLAPS

\* How far a task is fixes what it can be.  A cancelled task is on its way out
\* and not wanted; one before its loop has no child and no line; once its session
\* row is written, or could not be, that is so to its `finally`.
TaskShape(t) ==
    /\ cancelled[t] =>
          ~desired[t] /\ pc[t] \notin {"unused", "stopping", "ending", "gone"}
    /\ pc[t] \in {"stopping", "ending", "gone"} => ~desired[t]
    /\ pc[t] \in {"unused", "created", "session"} => child[t] = "none"
    /\ pc[t] \in {"unused", "created", "session", "spawn"} => ~gotAny[t]
    /\ pc[t] \in {"unused", "created"} => session[t] = "none"
    /\ pc[t] = "session" => session[t] = "open" \/ (session[t] = "none" /\ t \in unsaved)

Shape == \A t \in Task : TaskShape(t)

\* While no two tasks have been alive at once, the one that is alive alone
\* accounts for a device that looks streaming, until its `finally`.
SoleShape ==
    ~shared =>
        /\ \A t, u \in Task : Alive(t) /\ Alive(u) => t = u
        /\ state = "streaming" =>
              \E t \in Task : Alive(t) /\ gotAny[t] /\ pc[t] # "ending"

\* The inductive invariant.
CaptureInv ==
    /\ TypeOK
    /\ WantedIsRegistered
    /\ SessionFollowsTask
    /\ StateFollowsSoleCapture
    /\ Shape
    /\ SoleShape

LEMMA CaptureInit == Init => CaptureInv
<1> SUFFICES ASSUME Init PROVE CaptureInv
  OBVIOUS
<1> USE CaptureAssumption DEF Init
<1>1. TypeOK
  BY DEF TypeOK, Idle
<1>2. \A t \in Task : ~Alive(t)
  BY DEF Alive
<1>3. WantedIsRegistered /\ SessionFollowsTask
  BY <1>2 DEF WantedIsRegistered, SessionFollowsTask, InBody
<1>4. StateFollowsSoleCapture /\ Shape /\ SoleShape
  BY <1>2 DEF StateFollowsSoleCapture, Shape, TaskShape, SoleShape, At
<1> QED BY <1>1, <1>3, <1>4 DEF CaptureInv

LEMMA StartInv == ASSUME CaptureInv, NEW m \in Mode, Start(m) PROVE CaptureInv'
<1> USE CaptureAssumption DEF CaptureInv
<1>1. TypeOK'
  BY DEF Start, TypeOK, deviceVars, rowVars
<1>2. PICK t \in Task :
        /\ captures[m] # NoTask => ~desired[captures[m]]
        /\ pc[t] = "unused"
        /\ captures' = [captures EXCEPT ![m] = t]
        /\ pc' = [pc EXCEPT ![t] = "created"]
        /\ mode' = [mode EXCEPT ![t] = m]
        /\ desired' = [desired EXCEPT ![t] = TRUE]
        /\ shared' = (shared \/ \E u \in Task : Alive(u))
        /\ UNCHANGED <<cancelled, gotAny, state, child, rowVars>>
  BY DEF Start, deviceVars
<1>3. captures[m] = NoTask
  BY <1>2 DEF WantedIsRegistered, TypeOK
<1>4. WantedIsRegistered'
  <2>1. ASSUME NEW u \in Task, u # t
        PROVE  /\ pc'[u] = pc[u] /\ mode'[u] = mode[u] /\ desired'[u] = desired[u]
               /\ Alive(u)' <=> Alive(u)
    BY <1>2, <2>1 DEF TypeOK, Alive
  <2>2. pc'[t] = "created" /\ mode'[t] = m /\ desired'[t] /\ captures'[m] = t /\ ~Alive(t)
    BY <1>2 DEF TypeOK, Alive
  <2>3. \A n \in Mode : n # m => captures'[n] = captures[n]
    BY <1>2 DEF TypeOK
  <2>4. \A u \in Task : u # t /\ Alive(u) /\ desired[u] => mode[u] # m
    BY <1>3, <2>2 DEF WantedIsRegistered
  <2> QED BY <1>2, <2>1, <2>2, <2>3, <2>4 DEF WantedIsRegistered, TypeOK, Alive
<1>5. SessionFollowsTask'
  BY DEF Start, TypeOK, rowVars, SessionFollowsTask, InBody, Shape, TaskShape
<1>6. StateFollowsSoleCapture'
  BY DEF Start, TypeOK, StateFollowsSoleCapture, Alive, At, Shape, TaskShape, deviceVars
<1>7. Shape'
  BY DEF Start, TypeOK, Alive, rowVars, Shape, TaskShape
<1>8. SoleShape'
  <2>1. CASE \E u \in Task : Alive(u)
    BY <1>2, <2>1 DEF SoleShape, TypeOK
  <2>2. CASE ~ \E u \in Task : Alive(u)
    BY <1>2, <2>2 DEF SoleShape, TypeOK, Alive
  <2> QED BY <2>1, <2>2
<1> QED BY <1>1, <1>4, <1>5, <1>6, <1>7, <1>8

LEMMA BeginInv == ASSUME CaptureInv, NEW t \in Task, Begin(t) PROVE CaptureInv'
<1> USE DEF CaptureInv, Begin, StartSession, Unsaved, At, Go, TaskFrame, deviceVars, rowVars, TypeOK
<1>1. TypeOK'
  OBVIOUS
<1>2. WantedIsRegistered'
  BY DEF WantedIsRegistered, Alive
<1>3. SessionFollowsTask'
  BY DEF SessionFollowsTask, InBody, Shape, TaskShape
<1>4. StateFollowsSoleCapture'
  <2>1. /\ UNCHANGED <<cancelled, gotAny, state, shared>>
        /\ \A u \in Task : (Alive(u)' <=> Alive(u)) /\ (pc'[u] = "stream" => pc[u] = "stream")
    BY DEF Alive
  <2> QED
    BY <2>1 DEF StateFollowsSoleCapture
<1>5. Shape'
  <2>1. ASSUME NEW u \in Task, u # t PROVE TaskShape(u)'
    <3>1. /\ pc'[u] = pc[u] /\ session'[u] = session[u] /\ u \in unsaved => u \in unsaved'
          /\ UNCHANGED <<cancelled, desired, child, gotAny>>
      BY <2>1
    <3> QED
      BY <3>1 DEF Shape, TaskShape
  <2>2. TaskShape(t)'
    <3>1. /\ pc[t] = "created" /\ pc'[t] = "session" /\ ~cancelled'[t]
          /\ UNCHANGED <<cancelled, desired, child, gotAny>>
      OBVIOUS
    <3>2. session[t] = "none" => session'[t] = "open" \/ (session'[t] = "none" /\ t \in unsaved')
      OBVIOUS
    <3> QED
      BY <3>1, <3>2 DEF Shape, TaskShape
  <2> QED
    BY <2>1, <2>2 DEF Shape
<1>6. SoleShape'
  <2>1. /\ UNCHANGED <<gotAny, state, shared>>
        /\ \A u \in Task : (Alive(u)' <=> Alive(u)) /\ (pc'[u] = "ending" => pc[u] = "ending")
    BY DEF Alive
  <2> QED
    BY <2>1 DEF SoleShape
<1> QED BY <1>1, <1>2, <1>3, <1>4, <1>5, <1>6

LEMMA ConnectInv == ASSUME CaptureInv, NEW t \in Task, Connect(t) PROVE CaptureInv'
<1> USE DEF CaptureInv, Connect, At, Go, TaskFrame, deviceVars, rowVars, TypeOK
<1>1. TypeOK'
  OBVIOUS
<1>2. WantedIsRegistered'
  BY DEF WantedIsRegistered, Alive, Shape, TaskShape
<1>3. SessionFollowsTask'
  BY DEF SessionFollowsTask, InBody, Shape, TaskShape
<1>4. StateFollowsSoleCapture' /\ SoleShape'
  BY DEF StateFollowsSoleCapture, SoleShape, Alive, Shape, TaskShape
<1>5. Shape'
  BY DEF Shape, TaskShape, Alive
<1> QED BY <1>1, <1>2, <1>3, <1>4, <1>5

LEMMA SpawnedInv == ASSUME CaptureInv, NEW t \in Task, Spawned(t) PROVE CaptureInv'
<1> USE DEF CaptureInv, Spawned, At, Go, TaskFrame, deviceVars, rowVars, TypeOK
<1>1. TypeOK'
  OBVIOUS
<1>2. WantedIsRegistered'
  BY DEF WantedIsRegistered, Alive, Shape, TaskShape
<1>3. SessionFollowsTask'
  BY DEF SessionFollowsTask, InBody, Shape, TaskShape
<1>4. \A u \in Task : (Alive(u)' <=> Alive(u)) /\ gotAny'[u] = gotAny[u]
  BY DEF Alive
<1>5. SoleShape'
  BY <1>4 DEF SoleShape
<1>6. StateFollowsSoleCapture'
  BY <1>4 DEF StateFollowsSoleCapture, SoleShape, Shape, TaskShape
<1>7. Shape'
  BY DEF Shape, TaskShape, Alive
<1> QED BY <1>1, <1>2, <1>3, <1>5, <1>6, <1>7

LEMMA SpawnFailsInv == ASSUME CaptureInv, NEW t \in Task, SpawnFails(t) PROVE CaptureInv'
<1> USE DEF CaptureInv, SpawnFails, At, Go, TaskFrame, deviceVars, rowVars, TypeOK
<1>1. TypeOK'
  OBVIOUS
<1>2. WantedIsRegistered'
  BY DEF WantedIsRegistered, Alive, Shape, TaskShape
<1>3. SessionFollowsTask'
  BY DEF SessionFollowsTask, InBody, Shape, TaskShape
<1>4. StateFollowsSoleCapture' /\ SoleShape'
  BY DEF StateFollowsSoleCapture, SoleShape, Alive, Shape, TaskShape
<1>5. Shape'
  BY DEF Shape, TaskShape, Alive
<1> QED BY <1>1, <1>2, <1>3, <1>4, <1>5

LEMMA LineInv == ASSUME CaptureInv, NEW t \in Task, Line(t) PROVE CaptureInv'
<1> USE DEF CaptureInv, Line, At, Go, TaskFrame, deviceVars, rowVars, TypeOK
<1>1. TypeOK'
  OBVIOUS
<1>2. WantedIsRegistered'
  BY DEF WantedIsRegistered, Alive, Shape, TaskShape
<1>3. SessionFollowsTask'
  BY DEF SessionFollowsTask, InBody, Shape, TaskShape
<1>4. StateFollowsSoleCapture' /\ SoleShape'
  BY DEF StateFollowsSoleCapture, SoleShape, Alive, Shape, TaskShape
<1>5. Shape'
  BY DEF Shape, TaskShape, Alive
<1> QED BY <1>1, <1>2, <1>3, <1>4, <1>5

LEMMA StderrInv == ASSUME CaptureInv, NEW t \in Task, Stderr(t) PROVE CaptureInv'
<1> USE DEF CaptureInv, Stderr, TaskFrame, At, deviceVars, rowVars, TypeOK
<1>1. TypeOK'
  OBVIOUS
<1>2. WantedIsRegistered'
  BY DEF WantedIsRegistered, Alive, Shape, TaskShape
<1>3. SessionFollowsTask'
  BY DEF SessionFollowsTask, InBody, Shape, TaskShape
<1>4. StateFollowsSoleCapture' /\ SoleShape'
  BY DEF StateFollowsSoleCapture, SoleShape, Alive, Shape, TaskShape
<1>5. Shape'
  BY DEF Shape, TaskShape, Alive
<1> QED BY <1>1, <1>2, <1>3, <1>4, <1>5

LEMMA EofInv == ASSUME CaptureInv, NEW t \in Task, Eof(t) PROVE CaptureInv'
<1> USE DEF CaptureInv, Eof, At, Go, TaskFrame, Terminated, deviceVars, rowVars, TypeOK
<1>1. TypeOK'
  OBVIOUS
<1>2. WantedIsRegistered'
  BY DEF WantedIsRegistered, Alive, Shape, TaskShape
<1>3. SessionFollowsTask'
  BY DEF SessionFollowsTask, InBody, Shape, TaskShape
<1>4. StateFollowsSoleCapture' /\ SoleShape'
  BY DEF StateFollowsSoleCapture, SoleShape, Alive, Shape, TaskShape
<1>5. Shape'
  BY DEF Shape, TaskShape, Alive
<1> QED BY <1>1, <1>2, <1>3, <1>4, <1>5

LEMMA OverlongInv == ASSUME CaptureInv, NEW t \in Task, Overlong(t) PROVE CaptureInv'
<1> USE DEF CaptureInv, Overlong, At, Go, TaskFrame, Terminated, deviceVars, rowVars, TypeOK
<1>1. TypeOK'
  OBVIOUS
<1>2. WantedIsRegistered'
  BY DEF WantedIsRegistered, Alive, Shape, TaskShape
<1>3. SessionFollowsTask'
  BY DEF SessionFollowsTask, InBody, Shape, TaskShape
<1>4. StateFollowsSoleCapture' /\ SoleShape'
  BY DEF StateFollowsSoleCapture, SoleShape, Alive, Shape, TaskShape
<1>5. Shape'
  BY DEF Shape, TaskShape, Alive
<1> QED BY <1>1, <1>2, <1>3, <1>4, <1>5

LEMMA StreamEndsInv == ASSUME CaptureInv, NEW t \in Task, StreamEnds(t) PROVE CaptureInv'
<1> USE DEF CaptureInv, StreamEnds, At, Go, TaskFrame, Reaped, deviceVars, rowVars, TypeOK
<1>1. TypeOK'
  OBVIOUS
<1>2. WantedIsRegistered'
  BY DEF WantedIsRegistered, Alive, Shape, TaskShape
<1>3. SessionFollowsTask'
  BY DEF SessionFollowsTask, InBody, Shape, TaskShape
<1>4. StateFollowsSoleCapture' /\ SoleShape'
  BY DEF StateFollowsSoleCapture, SoleShape, Alive, Shape, TaskShape
<1>5. Shape'
  BY DEF Shape, TaskShape, Alive
<1> QED BY <1>1, <1>2, <1>3, <1>4, <1>5

LEMMA StreamRaisesInv == ASSUME CaptureInv, NEW t \in Task, StreamRaises(t) PROVE CaptureInv'
<1> USE DEF CaptureInv, StreamRaises, At, Go, TaskFrame, Reaped, deviceVars, rowVars, TypeOK
<1>1. TypeOK'
  OBVIOUS
<1>2. WantedIsRegistered'
  BY DEF WantedIsRegistered, Alive, Shape, TaskShape
<1>3. SessionFollowsTask'
  BY DEF SessionFollowsTask, InBody, Shape, TaskShape
<1>4. StateFollowsSoleCapture' /\ SoleShape'
  BY DEF StateFollowsSoleCapture, SoleShape, Alive, Shape, TaskShape
<1>5. Shape'
  BY DEF Shape, TaskShape, Alive
<1> QED BY <1>1, <1>2, <1>3, <1>4, <1>5

LEMMA CancelEarlyInv == ASSUME CaptureInv, NEW t \in Task, CancelEarly(t) PROVE CaptureInv'
<1> USE DEF CaptureInv, CancelEarly, Go, CancelFrame, At, deviceVars, rowVars, TypeOK
<1>1. TypeOK'
  OBVIOUS
<1>2. WantedIsRegistered'
  BY DEF WantedIsRegistered, Alive, Shape, TaskShape
<1>3. SessionFollowsTask'
  BY DEF SessionFollowsTask, InBody, Shape, TaskShape
<1>4. StateFollowsSoleCapture' /\ SoleShape'
  BY DEF StateFollowsSoleCapture, SoleShape, Alive, Shape, TaskShape
<1>5. Shape'
  BY DEF Shape, TaskShape, Alive
<1> QED BY <1>1, <1>2, <1>3, <1>4, <1>5

LEMMA CancelStreamInv == ASSUME CaptureInv, NEW t \in Task, CancelStream(t) PROVE CaptureInv'
<1> USE DEF CaptureInv, CancelStream, Go, CancelFrame, Terminated, At, deviceVars, rowVars, TypeOK
<1>1. TypeOK'
  OBVIOUS
<1>2. WantedIsRegistered'
  BY DEF WantedIsRegistered, Alive, Shape, TaskShape
<1>3. SessionFollowsTask'
  BY DEF SessionFollowsTask, InBody, Shape, TaskShape
<1>4. StateFollowsSoleCapture' /\ SoleShape'
  BY DEF StateFollowsSoleCapture, SoleShape, Alive, Shape, TaskShape
<1>5. Shape'
  BY DEF Shape, TaskShape, Alive
<1> QED BY <1>1, <1>2, <1>3, <1>4, <1>5

LEMMA CancelWaitInv == ASSUME CaptureInv, NEW t \in Task, CancelWait(t) PROVE CaptureInv'
<1> USE DEF CaptureInv, CancelWait, Go, CancelFrame, Finally, EndSession, Unsaved, At, deviceVars, rowVars, TypeOK
<1>1. TypeOK'
  OBVIOUS
<1>2. WantedIsRegistered'
  BY DEF WantedIsRegistered, Alive, Shape, TaskShape
<1>3. SessionFollowsTask'
  BY DEF SessionFollowsTask, InBody, Shape, TaskShape
<1>4. StateFollowsSoleCapture' /\ SoleShape'
  BY DEF StateFollowsSoleCapture, SoleShape, Alive, Shape, TaskShape
<1>5. Shape'
  BY DEF Shape, TaskShape, Alive
<1> QED BY <1>1, <1>2, <1>3, <1>4, <1>5

LEMMA ChildStoppedInv == ASSUME CaptureInv, NEW t \in Task, ChildStopped(t) PROVE CaptureInv'
<1> USE DEF CaptureInv, ChildStopped, At, Go, TaskFrame, Reaped, Finally, EndSession, Unsaved, deviceVars, rowVars, TypeOK
<1>1. TypeOK'
  OBVIOUS
<1>2. WantedIsRegistered'
  BY DEF WantedIsRegistered, Alive, Shape, TaskShape
<1>3. SessionFollowsTask'
  BY DEF SessionFollowsTask, InBody, Shape, TaskShape
<1>4. StateFollowsSoleCapture' /\ SoleShape'
  BY DEF StateFollowsSoleCapture, SoleShape, Alive, Shape, TaskShape
<1>5. Shape'
  BY DEF Shape, TaskShape, Alive
<1> QED BY <1>1, <1>2, <1>3, <1>4, <1>5

LEMMA EndedInv == ASSUME CaptureInv, NEW t \in Task, Ended(t) PROVE CaptureInv'
<1> USE DEF CaptureInv, Ended, At, Go, TaskFrame, deviceVars, rowVars, TypeOK
<1>1. TypeOK'
  OBVIOUS
<1>2. WantedIsRegistered'
  BY DEF WantedIsRegistered, Alive, Shape, TaskShape
<1>3. SessionFollowsTask'
  BY DEF SessionFollowsTask, InBody, Shape, TaskShape
<1>4. StateFollowsSoleCapture' /\ SoleShape'
  BY DEF StateFollowsSoleCapture, SoleShape, Alive, Shape, TaskShape
<1>5. Shape'
  BY DEF Shape, TaskShape, Alive
<1> QED BY <1>1, <1>2, <1>3, <1>4, <1>5

LEMMA ChildExitsInv == ASSUME CaptureInv, NEW t \in Task, ChildExits(t) PROVE CaptureInv'
<1> USE DEF CaptureInv, ChildExits, At, deviceVars, rowVars, TypeOK
<1>1. TypeOK'
  OBVIOUS
<1>2. WantedIsRegistered'
  BY DEF WantedIsRegistered, Alive, Shape, TaskShape
<1>3. SessionFollowsTask'
  BY DEF SessionFollowsTask, InBody, Shape, TaskShape
<1>4. StateFollowsSoleCapture' /\ SoleShape'
  BY DEF StateFollowsSoleCapture, SoleShape, Alive, Shape, TaskShape
<1>5. Shape'
  BY DEF Shape, TaskShape, Alive
<1> QED BY <1>1, <1>2, <1>3, <1>4, <1>5

LEMMA RefreshInv == ASSUME CaptureInv, Refresh PROVE CaptureInv'
<1> USE DEF CaptureInv, Refresh, taskVars, rowVars, TypeOK
<1>1. TypeOK'
  OBVIOUS
<1>2. WantedIsRegistered' /\ SessionFollowsTask' /\ Shape'
  BY DEF WantedIsRegistered, SessionFollowsTask, InBody, Shape, TaskShape, Alive
<1>3. StateFollowsSoleCapture' /\ SoleShape'
  BY DEF StateFollowsSoleCapture, SoleShape, At, Alive
<1> QED BY <1>1, <1>2, <1>3

\* The offline pass finds no capture, so whatever task is left is on its way
\* out: it no longer delivers.
LEMMA OfflinePassInv == ASSUME CaptureInv, OfflinePass PROVE CaptureInv'
<1> USE DEF CaptureInv, OfflinePass, taskVars, deviceVars, rowVars, TypeOK
<1>1. TypeOK'
  OBVIOUS
<1>2. WantedIsRegistered' /\ SessionFollowsTask' /\ Shape'
  BY DEF WantedIsRegistered, SessionFollowsTask, InBody, Shape, TaskShape, Alive
<1>3. ASSUME \A m \in Mode : captures[m] = NoTask, NEW t \in Task PROVE ~At(t, "stream")
  BY <1>3, CaptureAssumption DEF WantedIsRegistered, At, Alive
<1>4. StateFollowsSoleCapture' /\ SoleShape'
  BY <1>3 DEF StateFollowsSoleCapture, SoleShape, At, Alive
<1> QED BY <1>1, <1>2, <1>4

\* A stop takes a capture from the registry and cancels its task in one step.
LEMMA PopNextInv ==
    ASSUME CaptureInv, NEW r \in Request, NEW left \in SUBSET Mode,
           PopNext(r, left), StopFrame
    PROVE  CaptureInv'
<1> USE DEF CaptureInv, StopFrame, deviceVars, rowVars, TypeOK
<1>1. CASE UNCHANGED <<captures, desired, cancelled>> /\ stops' = [stops EXCEPT ![r] = Idle]
  <2>1. TypeOK'
    BY <1>1 DEF Idle
  <2> QED
    BY <1>1, <2>1 DEF WantedIsRegistered, SessionFollowsTask, InBody, Shape, TaskShape,
      Alive, StateFollowsSoleCapture, SoleShape, At
<1>2. ASSUME NEW m \in left, captures[m] # NoTask,
             captures' = [captures EXCEPT ![m] = NoTask],
             desired' = [desired EXCEPT ![captures[m]] = FALSE],
             cancelled' = [cancelled EXCEPT ![captures[m]] = TRUE],
             stops' = [stops EXCEPT ![r] = [left |-> left \ {m}, waiting |-> captures[m]]]
      PROVE  CaptureInv'
  <2> DEFINE t == captures[m]
  <2>1. m \in Mode /\ t \in Task /\ Alive(t) /\ desired[t] /\ mode[t] = m
    BY <1>2 DEF WantedIsRegistered
  <2>2. TypeOK'
    BY <1>2, <2>1
  <2>3. \A u \in Task : Alive(u)' <=> Alive(u)
    BY DEF Alive
  <2>4. WantedIsRegistered'
    BY <1>2, <2>1, <2>3, CaptureAssumption DEF WantedIsRegistered
  <2>5. SessionFollowsTask'
    BY DEF SessionFollowsTask, InBody
  <2>6. StateFollowsSoleCapture' /\ SoleShape'
    BY <1>2, <2>3 DEF StateFollowsSoleCapture, SoleShape, At
  <2>7. Shape'
    BY <1>2, <2>1 DEF Shape, TaskShape, Alive
  <2> QED BY <2>2, <2>4, <2>5, <2>6, <2>7
<1> QED BY <1>1, <1>2 DEF PopNext

LEMMA CaptureStep == CaptureInv /\ [Next]_vars => CaptureInv'
<1> SUFFICES ASSUME CaptureInv, [Next]_vars PROVE CaptureInv'
  OBVIOUS
<1>1. ASSUME NEW m \in Mode, Start(m) PROVE CaptureInv'
  BY <1>1, StartInv
<1>2. ASSUME NEW r \in Request, StopCapture(r) PROVE CaptureInv'
  BY <1>2, PopNextInv DEF StopCapture
<1>3. ASSUME NEW r \in Request, StopNext(r) PROVE CaptureInv'
  <2>1. stops[r].left \in SUBSET Mode
    BY DEF CaptureInv, TypeOK
  <2> QED BY <1>3, <2>1, PopNextInv DEF StopNext
<1>4. ASSUME NEW t \in Task, TaskStep(t) PROVE CaptureInv'
  BY <1>4, BeginInv, ConnectInv, SpawnedInv, StreamEndsInv, StreamRaisesInv, CancelEarlyInv,
    CancelStreamInv, CancelWaitInv, ChildStoppedInv, EndedInv DEF TaskStep
<1>5. ASSUME NEW t \in Task,
             SpawnFails(t) \/ Line(t) \/ Stderr(t) \/ Eof(t) \/ Overlong(t) \/ ChildExits(t)
      PROVE  CaptureInv'
  BY <1>5, SpawnFailsInv, LineInv, StderrInv, EofInv, OverlongInv, ChildExitsInv
<1>6. CASE Refresh
  BY <1>6, RefreshInv
<1>7. CASE OfflinePass
  BY <1>7, OfflinePassInv
<1>8. CASE UNCHANGED vars
  BY <1>8 DEF vars, taskVars, rowVars, deviceVars, CaptureInv, TypeOK, WantedIsRegistered,
    SessionFollowsTask, InBody, Shape, TaskShape, Alive, StateFollowsSoleCapture, SoleShape, At
<1> QED BY <1>1, <1>2, <1>3, <1>4, <1>5, <1>6, <1>7, <1>8 DEF Next

\* The inductive invariant holds in every reachable state.
THEOREM CaptureInvariance == Spec => []CaptureInv
BY CaptureInit, CaptureStep, PTL DEF Spec

\* The captures of a device keep their type.
THEOREM CaptureTypeCorrect == Spec => []TypeOK
BY CaptureInvariance, PTL DEF CaptureInv

\* Every capture that wants to run can be found by a stop, and every other one
\* is on its way out, however starts and stops of it interleave.
THEOREM WantedCapturesAreRegistered == Spec => []WantedIsRegistered
BY CaptureInvariance, PTL DEF CaptureInv

\* A capture that streams or retries has an open session unless start_session
\* raised, and the session ends with it unless end_session raised; one that is
\* cut off before it has connected leaves its row open.
THEOREM SessionsFollowTasks == Spec => []SessionFollowsTask
BY CaptureInvariance, PTL DEF CaptureInv

\* As long as captures of the device never overlap, it looks streaming exactly
\* when one of them delivers lines.
THEOREM SoleCaptureIsShown == Spec => []StateFollowsSoleCapture
BY CaptureInvariance, PTL DEF CaptureInv

-----------------------------------------------------------------------------
(* What a stop waits for, and where the lines come from *)

\* A request that is not answered awaits a task that it has cancelled, and a
\* child outlives its stream only after it was told to go.
AwaitInv ==
    /\ CaptureInv
    /\ \A r \in Request : stops[r] = Idle \/
          (stops[r].waiting \in Task /\ ~desired[stops[r].waiting] /\ pc[stops[r].waiting] # "unused")
    /\ \A t \in Task : pc[t] = "stream" => child[t] \in {"running", "gone"}
    /\ \A t \in Task : pc[t] \in {"reap", "failing", "stopping"} => child[t] \in {"terminated", "gone"}

LEMMA AwaitMeans == AwaitInv => StopsAwaitEndings
<1> SUFFICES ASSUME AwaitInv PROVE StopsAwaitEndings
  OBVIOUS
<1>1. ASSUME NEW t \in Task, ~desired[t], pc[t] # "unused" PROVE Leaving(t)
  BY <1>1 DEF AwaitInv, CaptureInv, WantedIsRegistered, Alive, Leaving
<1>2. \A r \in Request : stops[r] # Idle =>
          stops[r].waiting \in Task /\ ~desired[stops[r].waiting] /\ pc[stops[r].waiting] # "unused"
  BY DEF AwaitInv
<1>3. \A r \in Request : stops[r] # Idle => stops[r].waiting # NoTask /\ Leaving(stops[r].waiting)
  BY <1>1, <1>2, CaptureAssumption
<1> QED
  BY <1>3 DEF AwaitInv, StopsAwaitEndings

\* A step that answers no request leaves each awaited task unwanted and begun.
LEMMA KeepAwait ==
    ASSUME AwaitInv, CaptureInv', stops' = stops,
           \A t \in Task : pc[t] # "unused" /\ ~desired[t] => pc'[t] # "unused" /\ ~desired'[t],
           \A t \in Task : pc'[t] = "stream" => child'[t] \in {"running", "gone"},
           \A t \in Task : pc'[t] \in {"reap", "failing", "stopping"} => child'[t] \in {"terminated", "gone"}
    PROVE  AwaitInv'
  BY DEF AwaitInv

LEMMA PopNextAwait ==
    ASSUME AwaitInv, CaptureInv', NEW r \in Request, NEW left \in SUBSET Mode,
           PopNext(r, left), StopFrame
    PROVE  AwaitInv'
<1>1. TypeOK /\ WantedIsRegistered
  BY DEF AwaitInv, CaptureInv
<1>2. UNCHANGED <<pc, child>>
  BY DEF StopFrame
<1>3. \A q \in Request : q # r => stops'[q] = stops[q]
  BY <1>1 DEF PopNext, TypeOK
<1>4. \A t \in Task : ~desired[t] => ~desired'[t]
  BY <1>1 DEF PopNext, TypeOK
<1>5. stops'[r] = Idle \/
        (stops'[r].waiting \in Task /\ ~desired'[stops'[r].waiting] /\ pc[stops'[r].waiting] # "unused")
  <2>1. CASE stops' = [stops EXCEPT ![r] = Idle]
    BY <1>1, <2>1 DEF TypeOK
  <2>2. ASSUME NEW m \in left, captures[m] # NoTask,
               desired' = [desired EXCEPT ![captures[m]] = FALSE],
               stops' = [stops EXCEPT ![r] = [left |-> left \ {m}, waiting |-> captures[m]]]
        PROVE  stops'[r].waiting \in Task /\ ~desired'[stops'[r].waiting] /\ pc[stops'[r].waiting] # "unused"
    <3>1. captures[m] \in Task /\ Alive(captures[m])
      BY <1>1, <2>2 DEF TypeOK, WantedIsRegistered
    <3>2. stops'[r].waiting = captures[m] /\ ~desired'[captures[m]]
      BY <1>1, <2>2, <3>1 DEF TypeOK
    <3> QED
      BY <3>1, <3>2 DEF Alive
  <2> QED
    BY <2>1, <2>2 DEF PopNext
<1> QED
  BY <1>2, <1>3, <1>4, <1>5 DEF AwaitInv

LEMMA TaskStepAwait ==
    ASSUME AwaitInv, CaptureInv', NEW t \in Task, TaskStep(t)
    PROVE  AwaitInv'
<1> USE DEF At, Go, TaskFrame, CancelFrame, Finally, deviceVars
<1>1. TypeOK
  BY DEF AwaitInv, CaptureInv
<1>2. /\ stops' = stops /\ desired' = desired
      /\ \A u \in Task : u # t => pc'[u] = pc[u] /\ child'[u] = child[u]
      /\ pc[t] # "unused" /\ pc'[t] # "unused"
  BY <1>1 DEF TaskStep, Begin, Connect, Spawned, StreamEnds, StreamRaises, CancelEarly, CancelStream,
              CancelWait, ChildStopped, Ended, Reaped, TypeOK
<1>3. pc'[t] = "stream" => child'[t] \in {"running", "gone"}
  BY <1>1 DEF TaskStep, Begin, Connect, Spawned, StreamEnds, StreamRaises, CancelEarly, CancelStream,
              CancelWait, ChildStopped, Ended, TypeOK
<1>4. pc'[t] \in {"reap", "failing", "stopping"} => child'[t] \in {"terminated", "gone"}
  BY <1>1 DEF TaskStep, Begin, Connect, Spawned, StreamEnds, StreamRaises, CancelEarly, CancelStream,
              CancelWait, ChildStopped, Ended, Terminated, AwaitInv, TypeOK
<1> QED
  BY <1>2, <1>3, <1>4, KeepAwait DEF AwaitInv

LEMMA AwaitStep == AwaitInv /\ [Next]_vars => AwaitInv'
<1> SUFFICES ASSUME AwaitInv, [Next]_vars PROVE AwaitInv'
  OBVIOUS
<1>1. CaptureInv'
  BY CaptureStep DEF AwaitInv
<1>2. TypeOK /\ Shape
  BY DEF AwaitInv, CaptureInv
<1>3. ASSUME NEW m \in Mode, Start(m) PROVE AwaitInv'
  <2>1. PICK t \in Task :
          /\ pc[t] = "unused"
          /\ pc' = [pc EXCEPT ![t] = "created"]
          /\ desired' = [desired EXCEPT ![t] = TRUE]
    BY <1>3 DEF Start
  <2>2. stops' = stops /\ child' = child
    BY <1>3 DEF Start
  <2>3. \A u \in Task : u # t => pc'[u] = pc[u] /\ desired'[u] = desired[u]
    BY <1>2, <2>1 DEF TypeOK
  <2>4. pc'[t] = "created"
    BY <1>2, <2>1 DEF TypeOK
  <2> QED
    BY <1>1, <2>1, <2>2, <2>3, <2>4, KeepAwait DEF AwaitInv
<1>4. ASSUME NEW r \in Request, StopCapture(r) PROVE AwaitInv'
  BY <1>1, <1>4, PopNextAwait DEF StopCapture
<1>5. ASSUME NEW r \in Request, StopNext(r) PROVE AwaitInv'
  <2>1. stops[r].left \in SUBSET Mode
    BY <1>2 DEF TypeOK
  <2> QED
    BY <1>1, <1>5, <2>1, PopNextAwait DEF StopNext
<1>6. ASSUME NEW t \in Task, TaskStep(t) PROVE AwaitInv'
  BY <1>1, <1>6, TaskStepAwait
<1>7. ASSUME NEW t \in Task, SpawnFails(t) \/ Line(t) \/ Stderr(t) PROVE AwaitInv'
  <2>1. /\ stops' = stops /\ desired' = desired /\ child' = child
        /\ \A u \in Task : pc'[u] = pc[u] \/ pc'[u] = "backoff"
    BY <1>2, <1>7 DEF SpawnFails, Line, Stderr, TaskFrame, Go, TypeOK
  <2> QED
    BY <1>1, <2>1, KeepAwait DEF AwaitInv
<1>8. ASSUME NEW t \in Task, Eof(t) \/ Overlong(t) PROVE AwaitInv'
  <2>1. /\ stops' = stops /\ desired' = desired
        /\ \A u \in Task : u # t => pc'[u] = pc[u] /\ child'[u] = child[u]
        /\ pc'[t] \in {"reap", "failing"} /\ child'[t] = Terminated(t) /\ pc[t] = "stream"
    BY <1>2, <1>8 DEF Eof, Overlong, TaskFrame, Go, At, TypeOK
  <2>2. child'[t] \in {"terminated", "gone"}
    BY <2>1 DEF Terminated, AwaitInv
  <2> QED
    BY <1>1, <2>1, <2>2, KeepAwait DEF AwaitInv
<1>9. ASSUME NEW t \in Task, ChildExits(t) PROVE AwaitInv'
  <2>1. /\ UNCHANGED <<stops, desired, pc>>
        /\ \A u \in Task : child'[u] = child[u] \/ child'[u] = "gone"
    BY <1>2, <1>9 DEF ChildExits, TypeOK
  <2> QED
    BY <1>1, <2>1, KeepAwait DEF AwaitInv
<1>10. CASE Refresh \/ OfflinePass \/ UNCHANGED vars
  BY <1>1, <1>10, KeepAwait DEF Refresh, OfflinePass, vars, taskVars, AwaitInv
<1> QED
  BY <1>3, <1>4, <1>5, <1>6, <1>7, <1>8, <1>9, <1>10 DEF Next

LEMMA AwaitAlways == Spec => []AwaitInv
<1>1. Init => AwaitInv
  <2> SUFFICES ASSUME Init PROVE AwaitInv
    OBVIOUS
  <2>1. CaptureInv
    BY CaptureInit
  <2> QED
    BY <2>1 DEF Init, AwaitInv
<1> QED
  BY <1>1, AwaitStep, PTL DEF Spec

\* A stop that has not returned waits for a task that can only end, and for a
\* child that was told to end, whatever starts, failures and other stops come
\* between (stop_capture, CaptureTask.stop and stream()'s finally).
THEOREM StopsWaitForEndings == Spec => []StopsAwaitEndings
BY AwaitAlways, AwaitMeans, PTL

\* A line is only ever read by the capture that is registered for its mode and
\* wanted, while its session is open unless it could not be written
\* (CaptureTask._stream_once).
THEOREM LinesHaveTheirCapture == Spec => LinesComeFromTheCapture
<1>1. ASSUME CaptureInv, NEW t \in Task, Line(t)
      PROVE  desired[t] /\ captures[mode[t]] = t /\ (session[t] = "open" \/ t \in unsaved)
  <2>1. pc[t] = "stream" /\ ~cancelled[t]
    BY <1>1 DEF Line, At
  <2> QED
    BY <1>1, <2>1 DEF CaptureInv, WantedIsRegistered, SessionFollowsTask, InBody, Alive
<1>2. CaptureInv => [\A t \in Task : Line(t) =>
                       /\ desired[t] /\ captures[mode[t]] = t
                       /\ session[t] = "open" \/ t \in unsaved]_vars
  BY <1>1
<1> QED
  BY <1>2, CaptureInvariance, PTL DEF LinesComeFromTheCapture

-----------------------------------------------------------------------------
(* The lines that a capture reads *)

\* A time has one year.
LEMMA OneYear ==
    ASSUME NEW t \in Int, NEW y \in Year, Within(t, y)
    PROVE  YearOf(t) = y
<1>1. \A z \in Year : Within(t, z) => z = y
  BY CalendarAssumption, SMT DEF Within, Length
<1> QED
  BY <1>1, CalendarAssumption DEF YearOf

LEMMA YearBefore ==
    ASSUME NEW t \in Int, NEW y \in Year, Within(t, y), Known(t - 366 * Day)
    PROVE  y - 1 \in Year
<1>1. PICK z \in Year : Within(t - 366 * Day, z)
  BY DEF Known
<1>2. z < y
  BY <1>1, CalendarAssumption, SMT DEF Within, Length
<1> QED
  BY <1>2, CalendarAssumption

LEMMA ReadingInt ==
    ASSUME NEW t \in Int
    PROVE  Local(t) \in Int /\ Timestamp(t) \in Int
  BY CalendarAssumption DEF Local, Timestamp

\* timestamp() finds the moment of a reading, or the first of the two.
LEMMA TimestampCorrect ==
    ASSUME NEW t \in Int
    PROVE  SameReading(Timestamp(Local(t)), t)
<1>1. Shift \in Int /\ (t + Shift) - Shift = t /\ (t - Shift) + Shift = t
  BY CalendarAssumption
<1>2. CASE SummerTime(t)
  <2>1. Local(t) = t + Shift /\ Timestamp(t + Shift) = t
    BY <1>1, <1>2 DEF Local, Timestamp
  <2> QED
    BY <2>1 DEF SameReading
<1>3. CASE ~SummerTime(t) /\ SummerTime(t - Shift)
  <2>1. Local(t) = t /\ Timestamp(t) = t - Shift /\ Local(t - Shift) = t
    BY <1>1, <1>3 DEF Local, Timestamp
  <2> QED
    BY <2>1 DEF SameReading
<1>4. CASE ~SummerTime(t) /\ ~SummerTime(t - Shift)
  <2>1. Local(t) = t /\ Timestamp(t) = t
    BY <1>4 DEF Local, Timestamp
  <2> QED
    BY <2>1 DEF SameReading
<1> QED
  BY <1>2, <1>3, <1>4

\* A stamp read in the year it was written in, or in the one after.
LEMMA StampsResolve ==
    ASSUME NEW w \in Int, NEW y \in Year, Within(w, y)
    PROVE  /\ Stamp(w) \in Int
           /\ Exists(Stamp(w), y)
           /\ Dated(Stamp(w), y) = w
<1>1. Stamp(w) = IF y \in Leap \/ w - YearStart[y] < Feb29 THEN w - YearStart[y] ELSE w - YearStart[y] + Day
  BY OneYear DEF Stamp
<1> QED
  BY <1>1, CalendarAssumption, SMT DEF Exists, Dated, Feb29

\* w is what the line says, m the host's moment and n what its clock shows.
LEMMA ParseTsCorrect ==
    ASSUME NEW w \in Int, NEW m \in Int, NEW n \in Int, n = Local(m),
           Known(w), Known(n), Datable(w, n)
    PROVE  ParseTs(Stamp(w), m) = Timestamp(w)
<1>1. PICK y \in Year : Within(n, y)
  BY DEF Known
<1>2. PICK z \in Year : Within(w, z)
  BY DEF Known
<1>3. YearOf(n) = y /\ YearOf(w) = z
  BY <1>1, <1>2, OneYear
<1>4. Stamp(w) \in Int /\ Exists(Stamp(w), z) /\ Dated(Stamp(w), z) = w
  BY <1>2, StampsResolve
<1>5. CASE z = y
  <2>1. ~Ahead(Stamp(w), n)
    BY <1>3, <1>4, <1>5, CalendarAssumption, SMT DEF Ahead, Datable
  <2> QED
    BY <2>1, <1>3, <1>4, <1>5 DEF ParseTs
<1>6. CASE z # y
  <2>1. n - 300 * Day <= w /\ w <= n
    BY <1>3, <1>6 DEF Datable
  <2>2. z < y
    BY <2>1, <1>1, <1>2, <1>6, CalendarAssumption, SMT DEF Within, Length
  <2>3. y - 1 \in Year
    BY <2>2, CalendarAssumption
  <2>4. YearStart[y] = YearStart[y - 1] + Length(y - 1)
    BY <2>3, CalendarAssumption
  <2>5. z = y - 1
    <3>1. YearStart[z] + Length(z) > YearStart[y - 1]
      BY <2>1, <2>3, <2>4, <1>1, <1>2, CalendarAssumption, SMT DEF Within, Length
    <3> QED
      BY <3>1, <2>2, <2>3, CalendarAssumption, SMT DEF Length
  <2>6. Stamp(w) = IF z \in Leap \/ w - YearStart[z] < Feb29 THEN w - YearStart[z] ELSE w - YearStart[z] + Day
    BY <1>3 DEF Stamp
  <2>7. Exists(Stamp(w), y)
    BY <2>1, <2>4, <2>5, <2>6, <1>1, <1>2, CalendarAssumption, SMT
    DEF Exists, Within, Length, Feb29
  <2>8. Dated(Stamp(w), y) - n > Day
    BY <2>1, <2>4, <2>5, <2>6, <1>1, <1>2, CalendarAssumption, SMT
    DEF Dated, Within, Length, Feb29
  <2>9. Ahead(Stamp(w), n)
    BY <2>8, <1>3 DEF Ahead
  <2> QED
    BY <2>5, <2>7, <2>9, <1>3, <1>4 DEF ParseTs
<1> QED
  BY <1>5, <1>6

LEMMA ParseTsInt ==
    ASSUME NEW w \in Int, NEW m \in Int, NEW n \in Int, n = Local(m),
           Known(w), Known(n), Known(n - 366 * Day)
    PROVE  ParseTs(Stamp(w), m) \in Int
<1>1. PICK y \in Year : Within(n, y)
  BY DEF Known
<1>2. YearOf(n) = y /\ y - 1 \in Year
  BY <1>1, OneYear, YearBefore
<1>3. Stamp(w) \in Int
  BY StampsResolve DEF Known
<1>4. Dated(Stamp(w), y) \in Int /\ Dated(Stamp(w), y - 1) \in Int
  BY <1>2, <1>3, CalendarAssumption DEF Dated
<1>5. Timestamp(Dated(Stamp(w), y)) \in Int /\ Timestamp(Dated(Stamp(w), y - 1)) \in Int
  BY <1>4, ReadingInt
<1> QED
  BY <1>2, <1>5 DEF ParseTs

-----------------------------------------------------------------------------
LineType == [kind : LineKind, time : Int, came : Int]
RecordType == [lines : Seq(Nat), ts : Int]

\* A record has a first line among those read, and its date.
IsTrue(rec, lines) ==
    /\ rec.lines # << >> /\ rec.lines[1] \in 1 .. Len(lines)
    /\ LET line == lines[rec.lines[1]] IN
       HasTime(line) => SameReading(rec.ts, line.time)

\* The inductive invariant.
DatedInv ==
    /\ ticks \in 0 .. MaxTicks
    /\ \E n \in Now : now = n + ticks
    /\ read \in Seq(LineType)
    /\ out \in Seq(RecordType) /\ pending \in Seq(RecordType) /\ Len(pending) <= 1
    /\ \A r \in 1 .. Len(out) : IsTrue(out[r], read)
    /\ \A r \in 1 .. Len(pending) : IsTrue(pending[r], read)

LEMMA DatedInit == ReaderInit => DatedInv
  BY ClockAssumption DEF ReaderInit, DatedInv

\* What is published and what is held back stay true while lines come.
LEMMA ReadKeepsTrue ==
    ASSUME DatedInv, NEW line \in LineType, read' = Append(read, line)
    PROVE  /\ read' \in Seq(LineType) /\ Len(read') = Len(read) + 1
           /\ read'[Len(read) + 1] = line
           /\ \A rec \in RecordType : IsTrue(rec, read) => IsTrue(rec, read')
<1>1. /\ read' \in Seq(LineType) /\ Len(read') = Len(read) + 1
      /\ read'[Len(read) + 1] = line
      /\ \A i \in 1 .. Len(read) : read'[i] = read[i]
  BY DEF DatedInv
<1> QED
  BY <1>1 DEF IsTrue, DatedInv

LEMMA PublishedIsTrue ==
    ASSUME DatedInv
    PROVE  /\ PublishFirst \in Seq(RecordType)
           /\ \A r \in 1 .. Len(PublishFirst) : IsTrue(PublishFirst[r], read)
<1>1. PublishFirst = Records
  BY DEF PublishFirst, Records
<1>2. Records \in Seq(RecordType)
  BY DEF Records, DatedInv
<1>3. ASSUME NEW r \in 1 .. Len(Records) PROVE IsTrue(Records[r], read)
  <2>1. CASE r \in 1 .. Len(out)
    BY <2>1 DEF DatedInv, Records
  <2>2. CASE r \notin 1 .. Len(out)
    <3>1. r - Len(out) \in 1 .. Len(pending) /\ Records[r] = pending[r - Len(out)]
      BY <2>2 DEF DatedInv, Records
    <3> QED
      BY <3>1 DEF DatedInv
  <2> QED
    BY <2>1, <2>2
<1> QED
  BY <1>1, <1>2, <1>3

LEMMA RecordsAreTrue == DatedInv => StampsAreTrue
<1> SUFFICES ASSUME DatedInv PROVE StampsAreTrue
  OBVIOUS
<1>1. PublishFirst = Records
  BY DEF PublishFirst, Records
<1>2. DOMAIN Records = 1 .. Len(PublishFirst)
  BY <1>1, PublishedIsTrue
<1> QED
  BY <1>1, <1>2, PublishedIsTrue DEF StampsAreTrue, IsTrue

LEMMA TickInv == ASSUME DatedInv, Tick PROVE DatedInv'
<1>1. \A rec : IsTrue(rec, read) <=> IsTrue(rec, read')
  BY DEF Tick, IsTrue
<1>2. ticks' \in 0 .. MaxTicks
  BY ClockAssumption DEF DatedInv, Tick
<1>3. \E n \in Now : now' = n + ticks'
  BY ClockAssumption DEF DatedInv, Tick
<1> QED
  BY <1>1, <1>2, <1>3 DEF DatedInv, Tick

\* The clock and the line's time are ones that the calendar has.
LEMMA ReadTimes ==
    ASSUME DatedInv, NEW lag \in Lag
    PROVE  /\ now \in Int /\ now - lag \in Int
           /\ Known(Local(now)) /\ Known(Local(now) - 366 * Day) /\ Known(Local(now - lag))
<1>1. PICK n \in Now : now = n + ticks
  BY DEF DatedInv
<1>2. ticks \in 0 .. MaxTicks
  BY DEF DatedInv
<1>3. n \in Int /\ ticks \in Int /\ lag \in Int /\ Day \in Int
  BY <1>1, <1>2, ClockAssumption, CalendarAssumption
<1>4. \A k \in 0 .. MaxTicks : /\ Known(Local(n + k)) /\ Known(Local(n + k) - 366 * Day)
                             /\ Known(Local(n + k - lag))
  BY ClockAssumption
<1>5. Known(Local(now))
  BY <1>1, <1>2, <1>4
<1>6. Known(Local(now) - 366 * Day)
  BY <1>1, <1>2, <1>3, <1>4
<1>7. Known(Local(now - lag))
  BY <1>1, <1>2, <1>3, <1>4
<1> QED
  BY <1>1, <1>3, <1>5, <1>6, <1>7

\* Facts about sequences and records.
LEMMA AddOne ==
    ASSUME NEW S, NEW s \in Seq(S), NEW e \in Seq(S), Len(e) = 1
    PROVE  /\ s \o e \in Seq(S) /\ Len(s \o e) = Len(s) + 1
           /\ (s \o e)[Len(s) + 1] = e[1]
           /\ \A i \in 1 .. Len(s) : (s \o e)[i] = s[i]
<1>1. Len(s) \in Nat
  BY LenProperties
<1>2. s \o e \in Seq(S) /\ Len(s \o e) = Len(s) + 1
  BY <1>1, ConcatProperties
<1>3. ASSUME NEW i \in 1 .. Len(s) + 1
      PROVE  (s \o e)[i] = IF i <= Len(s) THEN s[i] ELSE e[i - Len(s)]
  BY <1>1, ConcatProperties
<1> QED
  BY <1>1, <1>2, <1>3

LEMMA OneElement ==
    ASSUME NEW S, NEW s \in Seq(S), s # << >>, Len(s) <= 1
    PROVE  Len(s) = 1 /\ s[1] \in S
  OBVIOUS

LEMMA LongerIsTrue ==
    ASSUME NEW rec \in RecordType, NEW lines, IsTrue(rec, lines), NEW n \in Nat
    PROVE  LET longer == [rec EXCEPT !.lines = Append(@, n)] IN
           longer \in RecordType /\ IsTrue(longer, lines)
<1> DEFINE longer == [rec EXCEPT !.lines = Append(@, n)]
<1>1. rec.lines \in Seq(Nat) /\ rec.lines # << >>
  BY DEF RecordType, IsTrue
<1>2. Append(rec.lines, n) \in Seq(Nat) /\ Append(rec.lines, n) # << >>
      /\ Append(rec.lines, n)[1] = rec.lines[1]
  BY <1>1
<1>3. longer \in RecordType /\ longer.lines = Append(rec.lines, n) /\ longer.ts = rec.ts
  BY <1>2 DEF RecordType
<1> QED
  BY <1>2, <1>3 DEF IsTrue

LEMMA ReadLineInv ==
    ASSUME DatedInv, NEW kind \in LineKind, NEW t \in Int, now \in Int, ReadLine(kind, t),
           kind \in DatedKind =>
               Known(Local(t)) /\ Known(Local(now)) /\ Known(Local(now) - 366 * Day)
    PROVE  DatedInv'
<1> DEFINE line == [kind |-> kind, time |-> t, came |-> now]
           next == Len(read) + 1
<1>1. /\ read' = Append(read, line) /\ line \in LineType
      /\ UNCHANGED <<now, ticks>>
  BY DEF ReadLine, LineType
<1>2. /\ read' \in Seq(LineType) /\ Len(read') = next
      /\ read'[next] = line
      /\ \A rec \in RecordType : IsTrue(rec, read) => IsTrue(rec, read')
  BY <1>1, ReadKeepsTrue
<1>3. next \in Nat /\ next >= 1
  BY DEF DatedInv
<1>4. ASSUME NEW ts \in Int, HasTime(line) => SameReading(ts, t)
      PROVE  /\ Record(ts) \in Seq(RecordType) /\ Len(Record(ts)) = 1
             /\ IsTrue(Record(ts)[1], read')
  <2>1. Record(ts) = << [lines |-> << next >>, ts |-> ts] >>
    BY DEF Record
  <2>2. [lines |-> << next >>, ts |-> ts] \in RecordType
    BY <1>3 DEF RecordType
  <2> QED
    BY <2>1, <2>2, <1>2, <1>3, <1>4 DEF IsTrue
<1>5. /\ PublishFirst \in Seq(RecordType)
      /\ \A r \in 1 .. Len(PublishFirst) : IsTrue(PublishFirst[r], read')
  <2>1. \A r \in 1 .. Len(PublishFirst) : PublishFirst[r] \in RecordType
    BY PublishedIsTrue
  <2> QED
    BY <2>1, <1>2, PublishedIsTrue
<1>6. /\ \A r \in 1 .. Len(out) : IsTrue(out[r], read')
      /\ \A r \in 1 .. Len(pending) : IsTrue(pending[r], read')
  <2>1. /\ \A r \in 1 .. Len(out) : out[r] \in RecordType
        /\ \A r \in 1 .. Len(pending) : pending[r] \in RecordType
    BY DEF DatedInv
  <2> QED
    BY <2>1, <1>2 DEF DatedInv
<1>7. /\ out' \in Seq(RecordType) /\ pending' \in Seq(RecordType) /\ Len(pending') <= 1
      /\ \A r \in 1 .. Len(out') : IsTrue(out'[r], read')
      /\ \A r \in 1 .. Len(pending') : IsTrue(pending'[r], read')
  <2>1. CASE kind = "blank"
    <3>1. out' = out /\ pending' = pending
      BY <2>1 DEF ReadLine, Blank, Continues
    <3> QED
      BY <3>1, <1>6 DEF DatedInv
  <2>2. CASE kind = "json"
    <3>0. PICK ts \in Int : ts = ParseIso(Local(t)) /\ SameReading(ts, t)
      BY ReadingInt, TimestampCorrect DEF ParseIso
    <3>1. out' = PublishFirst \o Record(ts) /\ pending' = << >>
      BY <2>2, <3>0 DEF ReadLine, Json, Continues
    <3>2. Record(ts) \in Seq(RecordType) /\ Len(Record(ts)) = 1 /\ IsTrue(Record(ts)[1], read')
      BY <1>4, <3>0
    <3>3. out' \in Seq(RecordType) /\ Len(out') = Len(PublishFirst) + 1
          /\ out'[Len(out')] = Record(ts)[1]
          /\ \A r \in 1 .. Len(PublishFirst) : out'[r] = PublishFirst[r]
      BY <3>1, <3>2, <1>5, AddOne
    <3> QED
      BY <3>1, <3>2, <3>3, <1>5
  <2>3. CASE kind \notin {"blank", "json"} /\ Continues(kind)
    <3>1. pending' = << [pending[1] EXCEPT !.lines = Append(@, next)] >> /\ out' = out
      BY <2>3 DEF ReadLine, Continue, Continues
    <3>2. pending[1] \in RecordType /\ IsTrue(pending[1], read') /\ Len(pending) = 1
      <4>1. Len(pending) = 1 /\ pending \in Seq(RecordType)
        BY <2>3, OneElement DEF DatedInv, Continues
      <4>2. pending[1] \in RecordType
        BY <4>1
      <4>3. 1 \in 1 .. Len(pending)
        BY <4>1
      <4>4. IsTrue(pending[1], read')
        BY <4>3, <1>6
      <4> QED
        BY <4>1, <4>2, <4>4
    <3>3. pending'[1] \in RecordType /\ IsTrue(pending'[1], read')
      BY <3>1, <3>2, <1>3, LongerIsTrue
    <3>4. Len(pending') = 1 /\ pending' \in Seq(RecordType)
      <4>1. PICK e : pending' = << e >>
        BY <3>1
      <4> QED
        BY <4>1, <3>3
    <3>5. out' \in Seq(RecordType) /\ \A r \in 1 .. Len(out') : IsTrue(out'[r], read')
      BY <3>1, <1>6 DEF DatedInv
    <3>6. \A r \in 1 .. Len(pending') : IsTrue(pending'[r], read')
      <4>1. 1 .. Len(pending') = {1}
        BY <3>4
      <4> QED
        BY <4>1, <3>3
    <3> QED
      BY <3>4, <3>5, <3>6
  <2>4. CASE kind \notin {"blank", "json"} /\ ~Continues(kind)
    <3>1. out' = PublishFirst /\ pending' = Parsed(kind, t)
      BY <2>4 DEF ReadLine, Text, Continues
    <3>2. \/ pending' = << >>
          \/ \E ts \in Int : /\ HasTime(line) => SameReading(ts, t)
                             /\ pending' = Record(ts)
      <4>1. CASE kind = "text"
        <5>1. PICK w \in Int, n \in Int : w = Local(t) /\ n = Local(now)
          BY ReadingInt
        <5>2. Known(w) /\ Known(n) /\ Known(n - 366 * Day)
          BY <4>1, <5>1 DEF DatedKind
        <5>3. ParseTs(Stamp(w), now) \in Int
          BY <5>1, <5>2, ParseTsInt
        <5>4. HasTime(line) => ParseTs(Stamp(w), now) = Timestamp(w)
          BY <4>1, <5>1, <5>2, ParseTsCorrect DEF HasTime
        <5>5. SameReading(Timestamp(w), t)
          BY <5>1, TimestampCorrect
        <5>6. pending' = Record(ParseTs(Stamp(w), now))
          BY <3>1, <4>1, <5>1 DEF Parsed
        <5> HIDE DEF line
        <5> QED
          BY <5>3, <5>4, <5>5, <5>6
      <4>2. CASE kind = "iso"
        <5>1. ParseIso(Local(t)) \in Int /\ SameReading(ParseIso(Local(t)), t)
          BY ReadingInt, TimestampCorrect DEF ParseIso
        <5>2. pending' = Record(ParseIso(Local(t)))
          BY <3>1, <4>2 DEF Parsed
        <5> HIDE DEF line
        <5> QED
          BY <5>1, <5>2
      <4>3. CASE kind \notin {"text", "iso"}
        <5>1. ~HasTime(line)
          BY <2>4, <4>3 DEF HasTime, DatedKind
        <5>2. pending' = << >> \/ pending' = Record(now)
          BY <3>1, <4>3 DEF Parsed
        <5> HIDE DEF line
        <5> QED
          BY <5>1, <5>2
      <4> QED
        BY <4>1, <4>2, <4>3
    <3>3. /\ pending' \in Seq(RecordType) /\ Len(pending') <= 1
          /\ \A r \in 1 .. Len(pending') : IsTrue(pending'[r], read')
      <4>1. CASE pending' = << >>
        BY <4>1
      <4>2. CASE pending' # << >>
        <5>1. PICK ts \in Int : /\ HasTime(line) => SameReading(ts, t)
                                /\ pending' = Record(ts)
          BY <4>2, <3>2
        <5>2. Record(ts) \in Seq(RecordType) /\ Len(Record(ts)) = 1
              /\ IsTrue(Record(ts)[1], read')
          BY <5>1, <1>4
        <5> QED
          BY <5>1, <5>2
      <4> QED
        BY <4>1, <4>2
    <3> QED
      BY <3>1, <3>3, <1>5
  <2> QED
    BY <2>1, <2>2, <2>3, <2>4
<1> QED
  BY <1>1, <1>2, <1>7 DEF DatedInv

LEMMA EndInv == ASSUME DatedInv, EndOfOutput \/ Cut PROVE DatedInv'
<1>1. \A rec : IsTrue(rec, read) <=> IsTrue(rec, read')
  BY DEF EndOfOutput, Cut, IsTrue
<1>2. CASE EndOfOutput
  BY <1>1, <1>2, PublishedIsTrue DEF DatedInv, EndOfOutput
<1>3. CASE Cut
  BY <1>1, <1>3 DEF DatedInv, Cut
<1> QED
  BY <1>2, <1>3

LEMMA LineInvInductive == DatedInv /\ [ReaderNext]_readerVars => DatedInv'
<1> SUFFICES ASSUME DatedInv, [ReaderNext]_readerVars PROVE DatedInv'
  OBVIOUS
<1>1. CASE Tick
  BY <1>1, TickInv
<1>2. ASSUME NEW kind \in LineKind \ DatedKind, ReadLine(kind, now) PROVE DatedInv'
  <2>1. now \in Int
    BY ClockAssumption DEF DatedInv
  <2> QED
    BY <1>2, <2>1, ReadLineInv
<1>3. ASSUME NEW kind \in DatedKind, NEW lag \in Lag, ReadLine(kind, now - lag) PROVE DatedInv'
  <2>1. kind \in LineKind
    BY DEF LineKind
  <2> QED
    BY <1>3, <2>1, ReadTimes, ReadLineInv
<1>4. CASE EndOfOutput \/ Cut
  BY <1>4, EndInv
<1>5. CASE UNCHANGED readerVars
  BY <1>5 DEF readerVars, DatedInv, IsTrue
<1> QED
  BY <1>1, <1>2, <1>3, <1>4, <1>5 DEF ReaderNext

\* A record made of a line that the host can date has the time of that line, in
\* any zone with any changes of the clocks, whichever years are leap years and
\* whenever the host's clock ticks; of a reading that the clock shows twice it
\* has the first moment (_parse_ts and _parse_ts_flexible in normalize.py).
THEOREM RecordsAreDated == ReaderSpec => []StampsAreTrue
<1>1. ReaderInit => DatedInv
  BY DatedInit
<1>2. DatedInv /\ [ReaderNext]_readerVars => DatedInv'
  BY LineInvInductive
<1>3. DatedInv => StampsAreTrue
  BY RecordsAreTrue
<1> QED
  BY <1>1, <1>2, <1>3, PTL DEF ReaderSpec

-----------------------------------------------------------------------------
(* Which lines a record has *)

\* A record's lines are some of those read, all but the first continue it, and
\* only what opens a record is continued.
IsWhole(rec) ==
    /\ rec.lines # << >> /\ Ascending(rec.lines)
    /\ \A n \in 1 .. Len(rec.lines) : rec.lines[n] \in Kept
    /\ \A n \in 2 .. Len(rec.lines) : read[rec.lines[n]].kind = "cont"
    /\ Len(rec.lines) > 1 => Opens(rec.lines[1])

EndsAt(rec) == rec.lines[Len(rec.lines)]

\* After its end there are only blank lines, or one that ends the record comes
\* before any that could continue it.
Waits(rec) == \A m \in EndsAt(rec) + 1 .. Len(read) : read[m].kind = "blank"
Sealed(rec) ==
    \E m \in EndsAt(rec) + 1 .. Len(read) :
        /\ read[m].kind \notin {"blank", "cont"}
        /\ \A n \in EndsAt(rec) + 1 .. m - 1 : read[n].kind # "cont"

Listed(i) == \E r \in 1 .. Len(Records) : \E n \in 1 .. Len(Records[r].lines) : i = Records[r].lines[n]

\* The inductive invariant.
WholeInv ==
    /\ DatedInv
    /\ \A r \in 1 .. Len(Records) : IsWhole(Records[r])
    /\ \A r, s \in 1 .. Len(Records) : r < s =>
          \A m \in 1 .. Len(Records[r].lines), n \in 1 .. Len(Records[s].lines) :
             Records[r].lines[m] < Records[s].lines[n]
    /\ ended # "cut" => \A i \in Kept : Listed(i)
    /\ \A i, j \in Kept : ~Listed(i) /\ ~Listed(j) /\ i < j => read[j].kind = "cont"
    /\ pending # << >> => /\ ended = "no" /\ Waits(pending[1])
                          /\ Opens(pending[1].lines[1])
    /\ \A r \in 1 .. Len(out) : Opens(out[r].lines[1]) =>
          Sealed(out[r]) \/ (ended # "no" /\ Waits(out[r]))

LEMMA RecordsList ==
    ASSUME DatedInv
    PROVE  /\ Records \in Seq(RecordType) /\ Len(Records) = Len(out) + Len(pending)
           /\ Len(out) \in Nat /\ Len(pending) \in Nat /\ Len(pending) <= 1 /\ Len(read) \in Nat
           /\ \A r \in 1 .. Len(out) : Records[r] = out[r]
           /\ pending # << >> => Len(pending) = 1 /\ Records[Len(out) + 1] = pending[1]
           /\ pending = << >> => Records = out
           /\ DOMAIN read = 1 .. Len(read)
           /\ Kept \subseteq 1 .. Len(read)
           /\ \A r \in 1 .. Len(Records) : Records[r].lines \in Seq(Nat)
<1>1. /\ out \in Seq(RecordType) /\ pending \in Seq(RecordType) /\ Len(pending) <= 1
      /\ read \in Seq(LineType)
  BY DEF DatedInv
<1>2. /\ Len(out) \in Nat /\ Len(pending) \in Nat /\ Len(pending) <= 1 /\ Len(read) \in Nat
      /\ DOMAIN read = 1 .. Len(read) /\ Kept \subseteq 1 .. Len(read)
      /\ pending # << >> => Len(pending) = 1
  <2>1. Len(out) \in Nat /\ Len(read) \in Nat /\ DOMAIN read = 1 .. Len(read)
    BY <1>1
  <2>2. Kept \subseteq 1 .. Len(read)
    BY <2>1 DEF Kept
  <2>3. Len(pending) \in Nat /\ Len(pending) <= 1
    BY <1>1
  <2>4. pending # << >> => Len(pending) = 1
    BY <1>1, OneElement
  <2> QED
    BY <2>1, <2>2, <2>3, <2>4
<1>3. /\ Records \in Seq(RecordType) /\ Len(Records) = Len(out) + Len(pending)
      /\ \A r \in 1 .. Len(out) : Records[r] = out[r]
      /\ pending = << >> => Records = out
  BY <1>1 DEF Records
<1>4. pending # << >> => Records[Len(out) + 1] = pending[1]
  BY <1>1, <1>2, AddOne DEF Records
<1>5. ASSUME NEW r \in 1 .. Len(Records) PROVE Records[r].lines \in Seq(Nat)
  <2>1. Records[r] \in RecordType
    BY <1>3
  <2> QED
    BY <2>1 DEF RecordType
<1> QED
  BY <1>2, <1>3, <1>4, <1>5

\* What is known of a record stays true while lines come.
LEMMA ReadKeepsWhole ==
    ASSUME WholeInv, NEW line \in LineType, read' = Append(read, line)
    PROVE  /\ Len(read') = Len(read) + 1 /\ read'[Len(read) + 1] = line
           /\ \A i \in 1 .. Len(read) : read'[i] = read[i]
           /\ Kept' = Kept \union (IF line.kind \in {"blank", "hollow"} THEN {} ELSE {Len(read) + 1})
           /\ \A i \in Kept : i \in 1 .. Len(read) /\ (Opens(i) <=> Opens(i)')
           /\ \A rec \in RecordType : IsWhole(rec) => IsWhole(rec)'
           /\ \A rec \in RecordType : IsWhole(rec) /\ Sealed(rec) => Sealed(rec)'
<1>1. read \in Seq(LineType) /\ Len(read) \in Nat
  BY DEF WholeInv, DatedInv
<1>2. /\ read' \in Seq(LineType) /\ Len(read') = Len(read) + 1 /\ read'[Len(read) + 1] = line
      /\ \A i \in 1 .. Len(read) : read'[i] = read[i]
  BY <1>1
<1>3. /\ Kept = {i \in 1 .. Len(read) : read[i].kind \notin {"blank", "hollow"}}
      /\ Kept' = {i \in 1 .. Len(read) + 1 : read'[i].kind \notin {"blank", "hollow"}}
  BY <1>1, <1>2 DEF Kept
<1>4. Kept' = Kept \union (IF line.kind \in {"blank", "hollow"} THEN {} ELSE {Len(read) + 1})
  BY <1>1, <1>2, <1>3
<1>5. \A i \in Kept : i \in 1 .. Len(read) /\ (Opens(i) <=> Opens(i)')
  BY <1>2, <1>3 DEF Opens
<1>6. ASSUME NEW rec \in RecordType, IsWhole(rec) PROVE IsWhole(rec)'
  <2>1. rec.lines \in Seq(Nat)
    BY DEF RecordType
  <2>2. \A n \in 1 .. Len(rec.lines) : rec.lines[n] \in Kept /\ rec.lines[n] \in Kept'
    BY <1>4, <1>6 DEF IsWhole
  <2>3. ASSUME NEW n \in 2 .. Len(rec.lines) PROVE read'[rec.lines[n]].kind = "cont"
    <3>1. n \in 1 .. Len(rec.lines)
      BY <2>1
    <3>2. rec.lines[n] \in 1 .. Len(read) /\ read[rec.lines[n]].kind = "cont"
      BY <1>5, <1>6, <2>2, <3>1 DEF IsWhole
    <3> QED
      BY <1>2, <3>2
  <2>4. Len(rec.lines) > 1 => Opens(rec.lines[1])'
    <3> SUFFICES ASSUME Len(rec.lines) > 1 PROVE Opens(rec.lines[1])'
      OBVIOUS
    <3>1. 1 \in 1 .. Len(rec.lines)
      BY <2>1
    <3>2. rec.lines[1] \in Kept /\ Opens(rec.lines[1])
      BY <1>6, <2>2, <3>1 DEF IsWhole
    <3> QED
      BY <1>5, <3>2
  <2> QED
    BY <1>6, <2>2, <2>3, <2>4 DEF IsWhole
<1>7. ASSUME NEW rec \in RecordType, IsWhole(rec), Sealed(rec) PROVE Sealed(rec)'
  <2>1. EndsAt(rec) \in 1 .. Len(read)
    <3>1. rec.lines \in Seq(Nat) /\ rec.lines # << >>
      BY <1>7 DEF RecordType, IsWhole
    <3>2. Len(rec.lines) \in 1 .. Len(rec.lines)
      BY <3>1
    <3> QED
      BY <1>5, <1>7, <3>2 DEF IsWhole, EndsAt
  <2>2. PICK m \in EndsAt(rec) + 1 .. Len(read) :
          /\ read[m].kind \notin {"blank", "cont"}
          /\ \A n \in EndsAt(rec) + 1 .. m - 1 : read[n].kind # "cont"
    BY <1>7 DEF Sealed
  <2>3. m \in 1 .. Len(read) /\ m \in EndsAt(rec) + 1 .. Len(read')
    BY <1>1, <1>2, <2>1
  <2>4. \A n \in EndsAt(rec) + 1 .. m - 1 : n \in 1 .. Len(read)
    BY <1>1, <2>1, <2>3
  <2>5. read'[m] = read[m] /\ \A n \in EndsAt(rec) + 1 .. m - 1 : read'[n] = read[n]
    BY <1>2, <2>3, <2>4
  <2> QED
    BY <2>2, <2>3, <2>5 DEF Sealed, EndsAt
<1> QED
  BY <1>2, <1>4, <1>5, <1>6, <1>7

\* The last record of the list is sealed by the line that starts another.
LEMMA RecordsSealed ==
    ASSUME WholeInv, ended = "no", NEW line \in LineType, read' = Append(read, line),
           line.kind # "blank", line.kind = "cont" => pending = << >>,
           NEW r \in 1 .. Len(Records), NEW rec, rec = Records[r]
    PROVE  Opens(rec.lines[1])' => Sealed(rec)'
<1>1. /\ rec \in RecordType /\ IsWhole(rec) /\ Len(read) \in Nat
      /\ rec.lines \in Seq(Nat) /\ rec.lines # << >>
      /\ \A n \in 1 .. Len(rec.lines) : rec.lines[n] \in Kept /\ rec.lines[n] \in 1 .. Len(read)
  <2>1. DatedInv /\ IsWhole(rec)
    BY DEF WholeInv
  <2>2. rec \in RecordType /\ rec.lines \in Seq(Nat) /\ Kept \subseteq 1 .. Len(read) /\ Len(read) \in Nat
    BY <2>1, RecordsList
  <2> QED
    BY <2>1, <2>2 DEF IsWhole
<1>2. /\ Len(read') = Len(read) + 1 /\ read'[Len(read) + 1] = line
      /\ \A i \in 1 .. Len(read) : read'[i] = read[i]
      /\ \A i \in Kept : Opens(i) <=> Opens(i)'
      /\ Sealed(rec) => Sealed(rec)'
  BY <1>1, ReadKeepsWhole
<1>3. CASE r <= Len(out)
  <2>1. Records[r] = out[r] /\ r \in 1 .. Len(out)
    BY <1>3, RecordsList DEF WholeInv
  <2>2. Opens(rec.lines[1]) => Sealed(rec)
    BY <2>1 DEF WholeInv
  <2>3. rec.lines[1] \in Kept
    BY <1>1
  <2> QED
    BY <1>1, <1>2, <2>2, <2>3 DEF Opens
<1>4. CASE r > Len(out)
  <2>1. pending # << >> /\ Records[r] = pending[1]
    <3>1. /\ Len(Records) = Len(out) + Len(pending) /\ Len(out) \in Nat
          /\ Len(pending) \in Nat /\ Len(pending) <= 1
          /\ pending = << >> => Records = out
          /\ pending # << >> => Records[Len(out) + 1] = pending[1]
      BY RecordsList DEF WholeInv
    <3>2. pending # << >>
      BY <1>4, <3>1
    <3>3. r = Len(out) + 1
      BY <1>4, <3>1
    <3> QED
      BY <3>1, <3>2, <3>3
  <2>2. Waits(rec) /\ line.kind \notin {"blank", "cont"}
    BY <2>1 DEF WholeInv
  <2>3. EndsAt(rec) \in 1 .. Len(read)
    <3>1. Len(rec.lines) \in 1 .. Len(rec.lines)
      BY <1>1
    <3> QED
      BY <1>1, <3>1 DEF EndsAt
  <2>4. Len(read) + 1 \in EndsAt(rec) + 1 .. Len(read')
    BY <1>1, <1>2, <2>3
  <2>5. ASSUME NEW n \in EndsAt(rec) + 1 .. Len(read) PROVE read'[n].kind # "cont"
    <3>1. n \in 1 .. Len(read) /\ read[n].kind = "blank"
      BY <1>1, <2>2, <2>3 DEF Waits
    <3> QED
      BY <1>2, <3>1
  <2>6. (Len(read) + 1) - 1 = Len(read)
    BY <1>1
  <2>7. Sealed(rec)'
    BY <1>2, <2>2, <2>4, <2>5, <2>6 DEF Sealed, EndsAt
  <2> QED
    BY <1>1, <2>7
<1> QED
  <2>1. r \in Nat /\ Len(out) \in Nat
    BY RecordsList DEF WholeInv
  <2> QED
    BY <1>3, <1>4, <2>1

\* A line that starts a record, or that only ends one.
LEMMA ListGrows ==
    ASSUME WholeInv, ended = "no", NEW line \in LineType, read' = Append(read, line),
           NEW added \in Seq(RecordType), Records' = Records \o added,
           \/ added = << >> /\ line.kind = "hollow"
           \/ /\ Len(added) = 1 /\ added[1].lines = << Len(read) + 1 >>
              /\ line.kind \notin {"blank", "hollow"}
    PROVE  /\ \A r \in 1 .. Len(Records) : r \in 1 .. Len(Records') /\ Records'[r] = Records[r]
           /\ Len(Records') = Len(Records) + Len(added)
           /\ Len(added) = 1 => Records'[Len(Records) + 1] = added[1]
           /\ \A r \in 1 .. Len(Records') : IsWhole(Records[r])'
           /\ \A r, s \in 1 .. Len(Records') : r < s =>
                 \A m \in 1 .. Len(Records'[r].lines), n \in 1 .. Len(Records'[s].lines) :
                    Records'[r].lines[m] < Records'[s].lines[n]
           /\ \A i \in Kept' : Listed(i)'
<1> DEFINE next == Len(read) + 1
<1>1. /\ Records \in Seq(RecordType) /\ Len(Records) \in Nat /\ Len(read) \in Nat /\ next \in Nat
      /\ Kept \subseteq 1 .. Len(read)
      /\ \A r \in 1 .. Len(Records) : Records[r] \in RecordType /\ IsWhole(Records[r])
  <2>1. /\ Records \in Seq(RecordType) /\ Len(read) \in Nat /\ Kept \subseteq 1 .. Len(read)
    BY RecordsList DEF WholeInv
  <2>2. \A r \in 1 .. Len(Records) : IsWhole(Records[r])
    BY DEF WholeInv
  <2> QED
    BY <2>1, <2>2
<1>2. /\ Records' = Records \o added
      /\ \A r \in 1 .. Len(Records) : r \in 1 .. Len(Records') /\ Records'[r] = Records[r]
      /\ Len(Records') = Len(Records) + Len(added)
      /\ Len(added) = 1 => Records'[Len(Records) + 1] = added[1]
  <2>1. CASE added = << >>
    BY <1>1, <2>1
  <2>2. CASE Len(added) = 1
    BY <1>1, <2>2, AddOne
  <2> QED
    BY <2>1, <2>2
<1>3. /\ Len(read') = next /\ read'[next] = line
      /\ Kept' = Kept \union (IF line.kind \in {"blank", "hollow"} THEN {} ELSE {next})
      /\ \A rec \in RecordType : IsWhole(rec) => IsWhole(rec)'
  BY ReadKeepsWhole
<1>4. ASSUME NEW r \in 1 .. Len(Records'), r \notin 1 .. Len(Records)
      PROVE  /\ r = Len(Records) + 1 /\ Len(added) = 1
             /\ Records'[r].lines = << next >> /\ next \in Kept'
  <2>1. Len(added) = 1 /\ added[1].lines = << next >> /\ line.kind \notin {"blank", "hollow"}
    BY <1>1, <1>2, <1>4
  <2>2. r = Len(Records) + 1
    BY <1>1, <1>2, <1>4, <2>1
  <2> QED
    BY <1>2, <1>3, <2>1, <2>2
<1>5. ASSUME NEW r \in 1 .. Len(Records') PROVE IsWhole(Records[r])'
  <2>1. CASE r \in 1 .. Len(Records)
    BY <1>1, <1>2, <1>3, <2>1
  <2>2. CASE r \notin 1 .. Len(Records)
    <3>1. Records'[r].lines = << next >> /\ next \in Kept'
      BY <1>4, <2>2
    <3>2. Len(<< next >>) = 1 /\ << next >>[1] = next /\ << next >> # << >>
      OBVIOUS
    <3> HIDE DEF next
    <3> QED
      BY <3>1, <3>2 DEF IsWhole, Ascending
  <2> QED
    BY <2>1, <2>2
<1>6. ASSUME NEW r \in 1 .. Len(Records'), NEW s \in 1 .. Len(Records'), r < s,
             NEW m \in 1 .. Len(Records'[r].lines), NEW n \in 1 .. Len(Records'[s].lines)
      PROVE  Records'[r].lines[m] < Records'[s].lines[n]
  <2>1. r \in 1 .. Len(Records)
    BY <1>1, <1>2, <1>4, <1>6
  <2>2. CASE s \in 1 .. Len(Records)
    BY <1>2, <1>6, <2>1, <2>2 DEF WholeInv
  <2>3. CASE s \notin 1 .. Len(Records)
    <3>1. Records'[s].lines[n] = next
      <4>1. Records'[s].lines = << next >>
        BY <1>4, <2>3
      <4> QED
        BY <4>1
    <3>2. Records'[r].lines[m] \in Kept
      BY <1>1, <1>2, <2>1 DEF IsWhole
    <3>3. \A i \in Kept : i < next
      BY <1>1
    <3> HIDE DEF next
    <3> QED
      BY <3>1, <3>2, <3>3
  <2> QED
    BY <2>2, <2>3
<1>7. ASSUME NEW i \in Kept' PROVE Listed(i)'
  <2>1. CASE i \in Kept
    <3>1. PICK r \in 1 .. Len(Records) : \E n \in 1 .. Len(Records[r].lines) : i = Records[r].lines[n]
      BY <2>1 DEF WholeInv, Listed
    <3> QED
      BY <1>2, <3>1 DEF Listed
  <2>2. CASE i \notin Kept
    <3>1. i = next /\ Len(added) = 1 /\ added[1].lines = << next >>
      BY <1>3, <2>2
    <3>2. /\ Len(Records) + 1 \in 1 .. Len(Records')
          /\ Records'[Len(Records) + 1].lines = << next >>
      BY <1>1, <1>2, <3>1
    <3>3. 1 \in 1 .. Len(<< next >>) /\ << next >>[1] = next
      OBVIOUS
    <3> HIDE DEF next
    <3> QED
      BY <3>1, <3>2, <3>3 DEF Listed
  <2> QED
    BY <2>1, <2>2
<1> QED
  BY <1>2, <1>5, <1>6, <1>7

\* A step that reads no line changes nothing that is known of a record.
LEMMA QuietRead ==
    ASSUME UNCHANGED read
    PROVE  /\ Kept' = Kept
           /\ \A rec \in RecordType : /\ IsWhole(rec)' <=> IsWhole(rec)
                                      /\ Sealed(rec)' <=> Sealed(rec)
                                      /\ Waits(rec)' <=> Waits(rec)
                                      /\ Opens(rec.lines[1])' <=> Opens(rec.lines[1])
  BY DEF Kept, IsWhole, Sealed, Waits, Opens, EndsAt

LEMMA TickWhole == ASSUME WholeInv, Tick \/ UNCHANGED readerVars PROVE WholeInv'
<1>1. UNCHANGED <<read, pending, out, ended>>
  BY DEF Tick, readerVars
<1>2. DatedInv'
  BY TickInv, LineInvInductive DEF WholeInv
<1>3. UNCHANGED <<Records, Kept>>
  BY <1>1 DEF Records, Kept
<1>4. /\ \A rec : IsWhole(rec)' <=> IsWhole(rec)
      /\ \A rec : Sealed(rec)' <=> Sealed(rec)
      /\ \A rec : Waits(rec)' <=> Waits(rec)
      /\ \A i : Opens(i)' <=> Opens(i)
      /\ \A i : Listed(i)' <=> Listed(i)
  BY <1>1, <1>3 DEF IsWhole, Listed, Opens, Sealed, Waits, EndsAt
<1>5. /\ \A r \in 1 .. Len(Records') : IsWhole(Records[r])'
      /\ pending' # << >> => /\ ended' = "no" /\ Waits(pending[1])'
                             /\ Opens(pending[1].lines[1])'
      /\ \A r \in 1 .. Len(out') : Opens(out[r].lines[1])' =>
            Sealed(out[r])' \/ (ended' # "no" /\ Waits(out[r])')
  BY <1>1, <1>3 DEF WholeInv, IsWhole, Opens, Sealed, Waits, EndsAt
<1>6. /\ ended' # "cut" => \A i \in Kept' : Listed(i)'
      /\ \A i, j \in Kept' : ~Listed(i)' /\ ~Listed(j)' /\ i < j => read'[j].kind = "cont"
  BY <1>1, <1>3, <1>4 DEF WholeInv
<1> QED
  BY <1>1, <1>2, <1>3, <1>5, <1>6 DEF WholeInv

LEMMA BlankWhole ==
    ASSUME WholeInv, NEW line \in LineType, read' = Append(read, line), line.kind = "blank",
           ended = "no", UNCHANGED <<pending, out, ended>>, DatedInv'
    PROVE  WholeInv'
<1>1. UNCHANGED Records
  BY DEF Records
<1>2. /\ Records \in Seq(RecordType) /\ Len(read) \in Nat
      /\ \A r \in 1 .. Len(out) : Records[r] = out[r]
      /\ \A r \in 1 .. Len(Records) : Records[r] \in RecordType
      /\ pending # << >> => Records[Len(out) + 1] = pending[1] /\ Len(out) + 1 \in 1 .. Len(Records)
      /\ \A r \in 1 .. Len(out) : r \in 1 .. Len(Records)
      /\ Kept \subseteq 1 .. Len(read)
  <2>1. DatedInv
    BY DEF WholeInv
  <2>2. /\ Records \in Seq(RecordType) /\ Len(Records) = Len(out) + Len(pending)
        /\ Len(out) \in Nat /\ Len(pending) \in Nat /\ Len(pending) <= 1 /\ Len(read) \in Nat
        /\ \A r \in 1 .. Len(out) : Records[r] = out[r]
        /\ pending # << >> => Len(pending) = 1 /\ Records[Len(out) + 1] = pending[1]
        /\ Kept \subseteq 1 .. Len(read)
    BY ONLY <2>1, RecordsList
  <2> QED
    BY ONLY <2>2
<1>3. /\ Len(read') = Len(read) + 1 /\ read'[Len(read) + 1] = line
      /\ \A i \in 1 .. Len(read) : read'[i] = read[i]
      /\ Kept' = Kept
      /\ \A i \in Kept : i \in 1 .. Len(read) /\ (Opens(i) <=> Opens(i)')
      /\ \A rec \in RecordType : IsWhole(rec) => IsWhole(rec)'
      /\ \A rec \in RecordType : IsWhole(rec) /\ Sealed(rec) => Sealed(rec)'
  <2>1. line.kind \in {"blank", "hollow"}
    OBVIOUS
  <2> QED
    BY <2>1, ReadKeepsWhole
<1>4. \A i : Listed(i)' <=> Listed(i)
  BY <1>1 DEF Listed
<1>5. ASSUME NEW r \in 1 .. Len(Records') PROVE IsWhole(Records[r])'
  <2>1. Records'[r] = Records[r] /\ Records[r] \in RecordType /\ IsWhole(Records[r])
    BY <1>1, <1>2 DEF WholeInv
  <2> QED
    BY <1>3, <2>1
<1>6. ASSUME pending # << >> PROVE Waits(pending[1])'
  <2>1. Waits(pending[1]) /\ pending[1] \in RecordType /\ IsWhole(pending[1])
    BY <1>2, <1>6 DEF WholeInv
  <2>2. EndsAt(pending[1]) \in 1 .. Len(read) /\ pending'[1] = pending[1]
    <3>1. /\ pending[1].lines \in Seq(Nat) /\ pending[1].lines # << >>
          /\ \A n \in 1 .. Len(pending[1].lines) : pending[1].lines[n] \in Kept
      BY <2>1 DEF RecordType, IsWhole
    <3>2. Len(pending[1].lines) \in 1 .. Len(pending[1].lines)
      BY <3>1
    <3> QED
      BY <1>2, <3>1, <3>2 DEF EndsAt
  <2>3. ASSUME NEW m \in EndsAt(pending[1]) + 1 .. Len(read') PROVE read'[m].kind = "blank"
    <3>1. CASE m <= Len(read)
      BY <1>2, <1>3, <2>1, <2>2, <3>1 DEF Waits
    <3>2. CASE m = Len(read) + 1
      BY <1>3, <3>2
    <3> QED
      BY <1>2, <1>3, <2>2, <3>1, <3>2
  <2> QED
    BY <2>2, <2>3 DEF Waits, EndsAt
<1>7. ASSUME NEW r \in 1 .. Len(out'), Opens(out[r].lines[1])' PROVE Sealed(out[r])'
  <2>1. out'[r] = out[r] /\ r \in 1 .. Len(out) /\ out[r] \in RecordType /\ IsWhole(out[r])
    BY <1>2 DEF WholeInv
  <2>2. out[r].lines[1] \in Kept
    <3>1. out[r].lines \in Seq(Nat) /\ out[r].lines # << >>
      BY <2>1 DEF RecordType, IsWhole
    <3>2. 1 \in 1 .. Len(out[r].lines)
      BY <3>1
    <3> QED
      BY <2>1, <3>2 DEF IsWhole
  <2>3. Opens(out[r].lines[1])
    <3>1. read'[out[r].lines[1]] = read[out[r].lines[1]]
      BY <1>3, <2>2
    <3> QED
      BY <1>7, <2>1, <3>1 DEF Opens
  <2>4. Sealed(out[r])
    BY <2>1, <2>3 DEF WholeInv
  <2> QED
    BY <1>3, <2>1, <2>4
<1>8. \A i, j \in Kept' : ~Listed(i)' /\ ~Listed(j)' /\ i < j => read'[j].kind = "cont"
  BY <1>3, <1>4 DEF WholeInv
<1>9. ended' # "cut" => \A i \in Kept' : Listed(i)'
  BY <1>3, <1>4 DEF WholeInv
<1>10. \A r, s \in 1 .. Len(Records') : r < s =>
          \A m \in 1 .. Len(Records'[r].lines), n \in 1 .. Len(Records'[s].lines) :
             Records'[r].lines[m] < Records'[s].lines[n]
  BY <1>1 DEF WholeInv
<1>11. ASSUME pending' # << >> PROVE Opens(pending[1].lines[1])'
  <2>1. /\ pending'[1] = pending[1] /\ pending[1] \in RecordType /\ IsWhole(pending[1])
        /\ Opens(pending[1].lines[1])
    BY <1>2, <1>11 DEF WholeInv
  <2>2. pending[1].lines[1] \in Kept
    <3>1. pending[1].lines \in Seq(Nat) /\ pending[1].lines # << >>
      BY <2>1 DEF RecordType, IsWhole
    <3>2. 1 \in 1 .. Len(pending[1].lines)
      BY <3>1
    <3> QED
      BY <2>1, <3>2 DEF IsWhole
  <2>3. read'[pending[1].lines[1]] = read[pending[1].lines[1]]
    BY <1>3, <2>2
  <2> QED
    BY <2>1, <2>3 DEF Opens
<1> QED
  BY <1>5, <1>6, <1>7, <1>8, <1>9, <1>10, <1>11 DEF WholeInv

\* A line that starts a record, or ends one, after what was pending is published.
LEMMA StartWhole ==
    ASSUME WholeInv, ended = "no", NEW line \in LineType, read' = Append(read, line),
           line.kind # "blank", line.kind = "cont" => pending = << >>,
           NEW added \in Seq(RecordType),
           \/ added = << >> /\ line.kind = "hollow"
           \/ /\ Len(added) = 1 /\ added[1].lines = << Len(read) + 1 >>
              /\ line.kind \notin {"blank", "hollow"},
           \/ out' = Records /\ pending' = added /\ line.kind # "json"
           \/ out' = Records \o added /\ pending' = << >> /\ line.kind = "json",
           UNCHANGED ended, DatedInv'
    PROVE  WholeInv'
<1> DEFINE next == Len(read) + 1
<1>1. /\ Records \in Seq(RecordType) /\ Len(Records) \in Nat /\ Len(read) \in Nat /\ next \in Nat
      /\ Kept \subseteq 1 .. Len(read)
      /\ \A r \in 1 .. Len(Records) : Records[r] \in RecordType /\ IsWhole(Records[r])
  <2>1. /\ Records \in Seq(RecordType) /\ Len(read) \in Nat /\ Kept \subseteq 1 .. Len(read)
    BY RecordsList DEF WholeInv
  <2>2. \A r \in 1 .. Len(Records) : IsWhole(Records[r])
    BY DEF WholeInv
  <2> QED
    BY <2>1, <2>2
<1>2. Records' = Records \o added
  <2>1. Records' = out' \o pending'
    BY DEF Records
  <2>2. (Records \o added) \o << >> = Records \o added
    BY <1>1
  <2> QED
    BY <2>1, <2>2
<1>3. /\ \A r \in 1 .. Len(Records) : r \in 1 .. Len(Records') /\ Records'[r] = Records[r]
      /\ Len(Records') = Len(Records) + Len(added)
      /\ Len(added) = 1 => Records'[Len(Records) + 1] = added[1]
      /\ \A r \in 1 .. Len(Records') : IsWhole(Records[r])'
      /\ \A r, s \in 1 .. Len(Records') : r < s =>
            \A m \in 1 .. Len(Records'[r].lines), n \in 1 .. Len(Records'[s].lines) :
               Records'[r].lines[m] < Records'[s].lines[n]
      /\ \A i \in Kept' : Listed(i)'
  BY <1>2, ListGrows
<1>4. Len(read') = next /\ read'[next] = line
  BY ReadKeepsWhole
<1>5. ASSUME NEW r \in 1 .. Len(out'), Opens(out[r].lines[1])' PROVE Sealed(out[r])'
  <2>1. CASE r \in 1 .. Len(Records)
    <3>1. PICK rec : rec = Records[r]
      OBVIOUS
    <3>2. out'[r] = rec
      BY <1>1, <1>2, <1>3, <2>1, <3>1
    <3>3. Opens(rec.lines[1])'
      BY <1>5, <3>2
    <3>4. Sealed(rec)'
      BY <2>1, <3>1, <3>3, RecordsSealed
    <3> QED
      BY <3>2, <3>4 DEF Sealed, EndsAt
  <2>2. CASE r \notin 1 .. Len(Records)
    <3>1. out' = Records' /\ line.kind = "json" /\ Len(added) = 1
          /\ added[1].lines = << next >>
      BY <1>2, <2>2
    <3>2. r = Len(Records) + 1
      BY <1>1, <1>3, <2>2, <3>1
    <3>3. out'[r].lines[1] = next
      BY <1>3, <3>1, <3>2
    <3> QED
      BY <1>4, <1>5, <3>1, <3>3 DEF Opens
  <2> QED
    BY <2>1, <2>2
<1>6. ASSUME pending' # << >>
      PROVE  ended' = "no" /\ Waits(pending[1])' /\ Opens(pending[1].lines[1])'
  <2>1. pending' = added /\ Len(added) = 1 /\ added[1].lines = << next >>
    BY <1>6
  <2>2. EndsAt(pending[1])' = next
    BY <2>1 DEF EndsAt
  <2>3. EndsAt(pending[1])' + 1 .. Len(read') = {}
    BY <1>1, <1>4, <2>2
  <2>4. pending'[1].lines[1] = next
    BY <2>1
  <2>5. line.kind \in {"text", "iso", "odd", "cont"}
    BY <1>6 DEF LineType, LineKind, DatedKind
  <2>6. Opens(pending[1].lines[1])'
    BY <1>4, <2>4, <2>5 DEF Opens
  <2> QED
    BY <2>3, <2>6 DEF Waits
<1> QED
  BY <1>3, <1>5, <1>6 DEF WholeInv

\* A line that continues the pending record.
LEMMA ContinueWhole ==
    ASSUME WholeInv, ended = "no", NEW line \in LineType, read' = Append(read, line),
           line.kind = "cont", pending # << >>,
           UNCHANGED <<out, ended>>, DatedInv',
           NEW rec, rec = pending[1],
           NEW longer, longer = [rec EXCEPT !.lines = Append(@, Len(read) + 1)],
           pending' = << longer >>
    PROVE  WholeInv'
<1> DEFINE next == Len(read) + 1
           last == Len(out) + 1
<1>1. /\ Len(out) \in Nat /\ Len(read) \in Nat /\ next \in Nat /\ last \in Nat
      /\ Records \in Seq(RecordType) /\ Len(Records) = last /\ Records[last] = rec
      /\ \A r \in 1 .. Len(out) : Records[r] = out[r]
      /\ Kept \subseteq 1 .. Len(read)
      /\ \A r \in 1 .. Len(Records) : Records[r] \in RecordType /\ IsWhole(Records[r])
  <2>1. \A r \in 1 .. Len(Records) : IsWhole(Records[r])
    BY DEF WholeInv
  <2>2. /\ Len(out) \in Nat /\ Len(read) \in Nat /\ Records \in Seq(RecordType)
        /\ Len(Records) = Len(out) + Len(pending) /\ Len(pending) = 1
        /\ Records[Len(out) + 1] = rec /\ Kept \subseteq 1 .. Len(read)
        /\ \A r \in 1 .. Len(out) : Records[r] = out[r]
    BY RecordsList DEF WholeInv
  <2> QED
    BY <2>1, <2>2
<1>2. /\ Records' = Append(out, longer) /\ Len(Records') = last /\ Records'[last] = longer
      /\ \A r \in 1 .. Len(out) : Records'[r] = out[r]
  <2>1. out \in Seq(RecordType)
    BY DEF WholeInv, DatedInv
  <2>2. Records' = out \o << longer >>
    BY DEF Records
  <2> QED
    BY <2>1, <2>2
<1>3. /\ Len(read') = next /\ read'[next] = line
      /\ \A i \in 1 .. Len(read) : read'[i] = read[i]
      /\ Kept' = Kept \union {next}
      /\ \A r \in RecordType : IsWhole(r) => IsWhole(r)'
      /\ \A r \in RecordType : IsWhole(r) /\ Sealed(r) => Sealed(r)'
  BY ReadKeepsWhole
<1>4. /\ rec \in RecordType /\ IsWhole(rec) /\ IsWhole(rec)' /\ rec.lines \in Seq(Nat)
      /\ Len(rec.lines) \in Nat \ {0} /\ Waits(rec)
      /\ \A n \in 1 .. Len(rec.lines) : rec.lines[n] \in 1 .. Len(read)
  <2>1. last \in 1 .. Len(Records)
    BY <1>1
  <2>2. rec \in RecordType /\ IsWhole(rec)
    BY <1>1, <2>1
  <2>3. rec.lines \in Seq(Nat) /\ rec.lines # << >>
    BY <2>2 DEF RecordType, IsWhole
  <2>4. \A n \in 1 .. Len(rec.lines) : rec.lines[n] \in 1 .. Len(read)
    BY <1>1, <2>2 DEF IsWhole
  <2>5. Waits(rec) /\ IsWhole(rec)'
    BY <1>3, <2>2 DEF WholeInv
  <2> QED
    BY <2>2, <2>3, <2>4, <2>5
<1>5. /\ longer.lines \in Seq(Nat) /\ Len(longer.lines) = Len(rec.lines) + 1
      /\ \A n \in 1 .. Len(rec.lines) : longer.lines[n] = rec.lines[n]
      /\ longer.lines[Len(rec.lines) + 1] = next
  <2>1. longer.lines = Append(rec.lines, next)
    BY <1>4 DEF RecordType
  <2> QED
    BY <1>1, <1>4, <2>1
<1>6. Opens(rec.lines[1]) /\ rec.lines[1] \in 1 .. Len(read) /\ longer.lines[1] = rec.lines[1]
  BY <1>4, <1>5 DEF WholeInv
<1> HIDE DEF next, last
<1>7. IsWhole(longer)'
  <2>0. /\ Len(rec.lines) \in Nat \ {0}
        /\ \A n \in 1 .. Len(longer.lines) : n \in 1 .. Len(rec.lines) \/ n = Len(rec.lines) + 1
        /\ \A n \in 2 .. Len(longer.lines) : n \in 2 .. Len(rec.lines) \/ n = Len(rec.lines) + 1
    <3>1. Len(rec.lines) \in Nat \ {0}
      BY <1>4
    <3>2. Len(longer.lines) = Len(rec.lines) + 1
      BY <1>5
    <3> QED
      BY <3>1, <3>2
  <2>1. Ascending(longer.lines)
    <3>1. \A i, j \in 1 .. Len(rec.lines) : i < j => rec.lines[i] < rec.lines[j]
      BY <1>4 DEF IsWhole, Ascending
    <3>2. \A i \in 1 .. Len(rec.lines) : longer.lines[i] < next
      BY <1>1, <1>4, <1>5 DEF next
    <3>3. ASSUME NEW i \in 1 .. Len(longer.lines), NEW j \in 1 .. Len(longer.lines), i < j
          PROVE  longer.lines[i] < longer.lines[j]
      <4>1. i \in 1 .. Len(rec.lines)
        BY <2>0, <3>3
      <4>2. CASE j \in 1 .. Len(rec.lines)
        BY <1>5, <3>1, <3>3, <4>1, <4>2
      <4>3. CASE j = Len(rec.lines) + 1
        BY <1>5, <3>2, <4>1, <4>3
      <4> QED
        BY <2>0, <4>2, <4>3
    <3> QED
      BY <3>3 DEF Ascending
  <2>2. ASSUME NEW n \in 1 .. Len(longer.lines) PROVE longer.lines[n] \in Kept'
    <3>1. CASE n \in 1 .. Len(rec.lines)
      <4>1. rec.lines[n] \in Kept /\ longer.lines[n] = rec.lines[n]
        BY <1>4, <1>5, <3>1 DEF IsWhole
      <4> QED
        BY <1>3, <4>1
    <3>2. CASE n = Len(rec.lines) + 1
      BY <1>3, <1>5, <3>2
    <3> QED
      BY <2>0, <3>1, <3>2
  <2>3. ASSUME NEW n \in 2 .. Len(longer.lines) PROVE read'[longer.lines[n]].kind = "cont"
    <3>1. CASE n \in 2 .. Len(rec.lines)
      <4>1. /\ longer.lines[n] = rec.lines[n] /\ rec.lines[n] \in 1 .. Len(read)
            /\ read[rec.lines[n]].kind = "cont"
        BY <1>4, <1>5, <3>1 DEF IsWhole
      <4> QED
        BY <1>3, <4>1
    <3>2. CASE n = Len(rec.lines) + 1
      BY <1>3, <1>5, <3>2
    <3> QED
      BY <2>0, <3>1, <3>2
  <2>4. Opens(longer.lines[1])'
    BY <1>3, <1>6 DEF Opens
  <2>5. longer.lines # << >>
    BY <1>4, <1>5
  <2> QED
    BY <2>1, <2>2, <2>3, <2>4, <2>5 DEF IsWhole, Ascending
<1>8. ASSUME NEW r \in 1 .. Len(Records') PROVE IsWhole(Records[r])'
  <2>1. CASE r = last
    <3>1. Records'[r] = longer
      BY <1>2, <2>1
    <3> QED
      BY <1>7, <3>1 DEF IsWhole
  <2>2. CASE r # last
    <3>1. r \in 1 .. Len(out)
      BY <1>1, <1>2, <2>2 DEF last
    <3>2. r \in 1 .. Len(Records) /\ Records'[r] = Records[r]
      BY <1>1, <1>2, <3>1 DEF last
    <3>3. Records[r] \in RecordType /\ IsWhole(Records[r])
      BY <1>1, <3>2
    <3> QED
      BY <1>3, <3>2, <3>3
  <2> QED
    BY <2>1, <2>2
<1>9. ASSUME NEW r \in 1 .. Len(Records'), NEW s \in 1 .. Len(Records'), r < s,
             NEW m \in 1 .. Len(Records'[r].lines), NEW n \in 1 .. Len(Records'[s].lines)
      PROVE  Records'[r].lines[m] < Records'[s].lines[n]
  <2>1. r \in 1 .. Len(out) /\ r \in 1 .. Len(Records) /\ Records'[r] = Records[r]
    BY <1>1, <1>2, <1>9 DEF last
  <2>2. CASE s # last
    <3>1. s \in 1 .. Len(Records) /\ Records'[s] = Records[s]
      BY <1>1, <1>2, <2>2 DEF last
    <3> QED
      BY <1>9, <2>1, <3>1 DEF WholeInv
  <2>3. CASE s = last
    <3>1. Records'[s] = longer
      BY <1>2, <2>3
    <3>2. CASE n <= Len(rec.lines)
      <4>1. longer.lines[n] = rec.lines[n] /\ n \in 1 .. Len(rec.lines)
        BY <1>4, <1>5, <3>1, <3>2
      <4>2. s \in 1 .. Len(Records) /\ Records[s] = rec
        BY <1>1, <2>3 DEF last
      <4>3. Records[r].lines[m] < rec.lines[n]
        BY <1>9, <2>1, <4>1, <4>2 DEF WholeInv
      <4> QED
        BY <2>1, <3>1, <4>1, <4>3
    <3>3. CASE n = Len(rec.lines) + 1
      <4>1. Records'[s].lines[n] = next
        BY <1>5, <3>1, <3>3
      <4>2. Records[r].lines[m] \in Kept
        BY <1>1, <2>1 DEF IsWhole
      <4>3. \A i \in Kept : i < next
        BY <1>1 DEF next
      <4> QED
        BY <2>1, <4>1, <4>2, <4>3
    <3> QED
      BY <1>4, <1>5, <3>1, <3>2, <3>3
  <2> QED
    BY <2>2, <2>3
<1>10. ASSUME NEW i \in Kept' PROVE Listed(i)'
  <2>1. CASE i \in Kept
    <3>1. PICK r \in 1 .. Len(Records) : \E n \in 1 .. Len(Records[r].lines) : i = Records[r].lines[n]
      BY <2>1 DEF WholeInv, Listed
    <3>2. PICK n \in 1 .. Len(Records[r].lines) : i = Records[r].lines[n]
      BY <3>1
    <3>3. r \in 1 .. Len(Records')
      BY <1>1, <1>2
    <3>4. n \in 1 .. Len(Records'[r].lines) /\ i = Records'[r].lines[n]
      <4>1. CASE r = last
        <5>1. Records[r] = rec /\ Records'[r] = longer
          BY <1>1, <1>2, <4>1
        <5>2. n \in 1 .. Len(rec.lines)
          BY <5>1
        <5> QED
          BY <1>4, <1>5, <3>2, <5>1, <5>2
      <4>2. CASE r # last
        <5>1. Records'[r] = Records[r]
          BY <1>1, <1>2, <4>2 DEF last
        <5> QED
          BY <3>2, <5>1
      <4> QED
        BY <4>1, <4>2
    <3> QED
      BY <3>3, <3>4 DEF Listed
  <2>2. CASE i \notin Kept
    <3>1. i = next
      BY <1>3, <2>2
    <3>2. last \in 1 .. Len(Records') /\ Records'[last] = longer
      BY <1>1, <1>2
    <3>3. Len(rec.lines) + 1 \in 1 .. Len(longer.lines) /\ longer.lines[Len(rec.lines) + 1] = next
      BY <1>4, <1>5
    <3> QED
      BY <3>1, <3>2, <3>3 DEF Listed
  <2> QED
    BY <2>1, <2>2
<1>11. Waits(pending[1])' /\ Opens(pending[1].lines[1])'
  <2>1. pending'[1] = longer
    OBVIOUS
  <2>2. EndsAt(pending[1])' = next
    BY <1>5, <2>1 DEF EndsAt
  <2>3. EndsAt(pending[1])' + 1 .. Len(read') = {}
    BY <1>1, <1>3, <2>2
  <2> QED
    BY <1>3, <1>6, <2>1, <2>3 DEF Waits, Opens
<1>12. ASSUME NEW r \in 1 .. Len(out'), Opens(out[r].lines[1])' PROVE Sealed(out[r])'
  <2>1. /\ out'[r] = out[r] /\ r \in 1 .. Len(out) /\ out[r] = Records[r]
        /\ r \in 1 .. Len(Records) /\ out[r] \in RecordType /\ IsWhole(out[r])
    BY <1>1 DEF last
  <2>2. out[r].lines[1] \in Kept
    <3>1. out[r].lines \in Seq(Nat) /\ out[r].lines # << >>
      BY <2>1 DEF RecordType, IsWhole
    <3>2. 1 \in 1 .. Len(out[r].lines)
      BY <3>1
    <3> QED
      BY <2>1, <3>2 DEF IsWhole
  <2>3. read'[out[r].lines[1]] = read[out[r].lines[1]]
    BY <1>1, <1>3, <2>2
  <2>4. Opens(out[r].lines[1])
    BY <1>12, <2>1, <2>3 DEF Opens
  <2>5. Sealed(out[r])
    BY <2>1, <2>4 DEF WholeInv
  <2> QED
    BY <1>3, <2>1, <2>5
<1> QED
  BY <1>8, <1>9, <1>10, <1>11, <1>12 DEF WholeInv

LEMMA ReadLineWhole ==
    ASSUME WholeInv, NEW kind \in LineKind, NEW t \in Int, now \in Int, ReadLine(kind, t),
           kind \in DatedKind =>
               Known(Local(t)) /\ Known(Local(now)) /\ Known(Local(now) - 366 * Day)
    PROVE  WholeInv'
<1> DEFINE line == [kind |-> kind, time |-> t, came |-> now]
           next == Len(read) + 1
<1>1. /\ read' = Append(read, line) /\ line \in LineType /\ line.kind = kind
      /\ ended = "no" /\ UNCHANGED ended
      /\ CASE kind = "blank" -> Blank
           [] kind = "json" -> Json(t)
           [] Continues(kind) -> Continue
           [] OTHER -> Text(kind, t)
  BY DEF ReadLine, LineType
<1>2. DatedInv'
  BY ReadLineInv DEF WholeInv
<1>3. PublishFirst = Records /\ next \in Nat
  BY RecordsList DEF PublishFirst, Records, WholeInv
<1>4. ASSUME NEW ts \in Int
      PROVE  Record(ts) \in Seq(RecordType) /\ Len(Record(ts)) = 1 /\ Record(ts)[1].lines = << next >>
  <2>1. [lines |-> << next >>, ts |-> ts] \in RecordType
    BY <1>3 DEF RecordType
  <2> QED
    BY <2>1 DEF Record
<1>5. CASE kind = "blank"
  <2>1. UNCHANGED <<pending, out>>
    BY <1>1, <1>5 DEF Blank, Continues
  <2> HIDE DEF line
  <2> QED
    BY <1>1, <1>2, <1>5, <2>1, BlankWhole
<1>6. CASE kind = "json"
  <2>1. PICK ts \in Int : ts = ParseIso(Local(t))
    BY ReadingInt DEF ParseIso
  <2>2. out' = Records \o Record(ts) /\ pending' = << >>
    BY <1>1, <1>3, <1>6, <2>1 DEF Json, Continues
  <2> HIDE DEF line
  <2> QED
    BY <1>1, <1>2, <1>4, <1>6, <2>2, StartWhole
<1>7. CASE Continues(kind)
  <2>1. kind = "cont" /\ pending # << >>
    BY <1>7 DEF Continues
  <2>2. out' = out /\ pending' = << [pending[1] EXCEPT !.lines = Append(@, next)] >>
    BY <1>1, <1>7, <2>1 DEF Continue
  <2>3. PICK rec : rec = pending[1]
    OBVIOUS
  <2>4. PICK longer : longer = [rec EXCEPT !.lines = Append(@, next)]
    OBVIOUS
  <2>5. pending' = << longer >>
    BY <2>2, <2>3, <2>4
  <2> HIDE DEF line
  <2> QED
    BY <1>1, <1>2, <2>1, <2>2, <2>3, <2>4, <2>5, ContinueWhole
<1>8. CASE kind \notin {"blank", "json"} /\ ~Continues(kind)
  <2>1. out' = Records /\ pending' = Parsed(kind, t)
    BY <1>1, <1>3, <1>8 DEF Text
  <2>2. kind = "cont" => pending = << >>
    BY <1>8 DEF Continues
  <2>3. CASE kind = "hollow"
    <3>1. pending' = << >> /\ << >> \in Seq(RecordType)
      BY <2>1, <2>3 DEF Parsed
    <3> HIDE DEF line
    <3> QED
      BY <1>1, <1>2, <1>8, <2>1, <2>3, <3>1, StartWhole
  <2>4. CASE kind # "hollow"
    <3>1. PICK ts \in Int : pending' = Record(ts)
      <4>1. CASE kind = "text"
        <5>1. PICK w \in Int, n \in Int : w = Local(t) /\ n = Local(now)
          BY ReadingInt
        <5>2. Known(w) /\ Known(n) /\ Known(n - 366 * Day)
          BY <4>1, <5>1 DEF DatedKind
        <5> QED
          BY <2>1, <4>1, <5>1, <5>2, ParseTsInt DEF Parsed
      <4>2. CASE kind = "iso"
        BY <2>1, <4>2, ReadingInt DEF Parsed, ParseIso
      <4>3. CASE kind \notin {"text", "iso"}
        BY <2>1, <2>4, <4>3 DEF Parsed
      <4> QED
        BY <4>1, <4>2, <4>3
    <3> HIDE DEF line
    <3> QED
      BY <1>1, <1>2, <1>4, <1>8, <2>1, <2>2, <2>4, <3>1, StartWhole
  <2> QED
    BY <2>3, <2>4
<1> QED
  BY <1>5, <1>6, <1>7, <1>8

\* The end of the output publishes the pending record ...
LEMMA EndWhole == ASSUME WholeInv, EndOfOutput PROVE WholeInv'
<1>1. /\ DatedInv' /\ ended = "no" /\ ended' = "eof" /\ UNCHANGED read
      /\ out' = Records /\ pending' = << >>
  BY EndInv DEF WholeInv, EndOfOutput, PublishFirst, Records
<1>2. /\ Records \in Seq(RecordType) /\ Len(out) \in Nat /\ Len(Records) = Len(out) + Len(pending)
      /\ Len(pending) \in Nat /\ Len(pending) <= 1
      /\ \A r \in 1 .. Len(out) : Records[r] = out[r]
      /\ pending # << >> => Records[Len(out) + 1] = pending[1]
      /\ pending = << >> => Records = out
  BY RecordsList DEF WholeInv
<1>3. Records' = Records
  <2>1. Records' = Records \o << >>
    BY <1>1 DEF Records
  <2> QED
    BY <1>2, <2>1
<1>4. /\ Kept' = Kept
      /\ \A rec : IsWhole(rec)' <=> IsWhole(rec)
      /\ \A rec : Sealed(rec)' <=> Sealed(rec)
      /\ \A rec : Waits(rec)' <=> Waits(rec)
      /\ \A i : Listed(i)' <=> Listed(i)
  BY <1>1, <1>3 DEF Kept, IsWhole, Opens, Sealed, Waits, EndsAt, Listed
<1>5. \A r \in 1 .. Len(Records') : IsWhole(Records[r])'
  BY <1>1, <1>3, <1>4 DEF WholeInv, IsWhole, Opens
<1>6. /\ ended' # "cut" => \A i \in Kept' : Listed(i)'
      /\ \A i, j \in Kept' : ~Listed(i)' /\ ~Listed(j)' /\ i < j => read'[j].kind = "cont"
  BY <1>1, <1>4 DEF WholeInv
<1>7. ASSUME NEW r \in 1 .. Len(out'), Opens(out[r].lines[1])'
      PROVE  Sealed(out[r])' \/ Waits(out[r])'
  <2>1. PICK rec : rec = Records[r]
    OBVIOUS
  <2>2. Opens(rec.lines[1])
    BY <1>1, <1>7, <2>1 DEF Opens
  <2>3. Sealed(rec) \/ Waits(rec)
    <3>1. CASE r \in 1 .. Len(out)
      BY <1>1, <1>2, <2>1, <2>2, <3>1 DEF WholeInv
    <3>2. CASE r \notin 1 .. Len(out)
      <4>1. pending # << >> /\ r = Len(out) + 1
        BY <1>1, <1>2, <3>2
      <4> QED
        BY <1>2, <2>1, <4>1 DEF WholeInv
    <3> QED
      BY <3>1, <3>2
  <2>4. Sealed(rec)' \/ Waits(rec)'
    BY <1>4, <2>3
  <2> QED
    BY <1>1, <2>1, <2>4 DEF Sealed, Waits, EndsAt
<1> QED
  BY <1>1, <1>3, <1>5, <1>6, <1>7 DEF WholeInv

\* ... and a capture that is cut loses it: its lines, of which all but the first
\* are continuations.
LEMMA CutWhole == ASSUME WholeInv, Cut PROVE WholeInv'
<1>1. /\ DatedInv' /\ ended = "no" /\ ended' = "cut" /\ UNCHANGED <<read, out>> /\ pending' = << >>
  BY EndInv DEF WholeInv, Cut
<1>2. /\ out \in Seq(RecordType) /\ Len(out) \in Nat /\ Len(Records) = Len(out) + Len(pending)
      /\ Len(pending) \in Nat /\ Len(pending) <= 1
      /\ \A r \in 1 .. Len(out) : Records[r] = out[r] /\ r \in 1 .. Len(Records)
      /\ pending # << >> => Records[Len(out) + 1] = pending[1]
      /\ pending = << >> => Records = out
      /\ \A r \in 1 .. Len(Records) : Records[r].lines \in Seq(Nat)
  <2>1. out \in Seq(RecordType)
    BY DEF WholeInv, DatedInv
  <2> QED
    BY <2>1, RecordsList DEF WholeInv
<1>3. Records' = out
  BY <1>1, <1>2 DEF Records
<1>4. /\ Kept' = Kept
      /\ \A rec : IsWhole(rec)' <=> IsWhole(rec)
      /\ \A rec : Sealed(rec)' <=> Sealed(rec)
  BY <1>1 DEF Kept, IsWhole, Opens, Sealed, EndsAt
<1>5. ASSUME NEW r \in 1 .. Len(Records') PROVE IsWhole(Records[r])'
  <2>1. Records'[r] = Records[r] /\ r \in 1 .. Len(Records)
    BY <1>2, <1>3
  <2>2. IsWhole(Records[r])
    BY <2>1 DEF WholeInv
  <2> QED
    BY <1>1, <1>4, <2>1, <2>2 DEF IsWhole, Opens
<1>6. \A r, s \in 1 .. Len(Records') : r < s =>
          \A m \in 1 .. Len(Records'[r].lines), n \in 1 .. Len(Records'[s].lines) :
             Records'[r].lines[m] < Records'[s].lines[n]
  <2>1. \A r \in 1 .. Len(Records') : r \in 1 .. Len(Records) /\ Records'[r] = Records[r]
    BY <1>2, <1>3
  <2> QED
    BY <2>1 DEF WholeInv
<1>7. ASSUME NEW i \in Kept, ~Listed(i)'
      PROVE  /\ pending # << >> /\ Len(out) + 1 \in 1 .. Len(Records)
             /\ \E n \in 1 .. Len(pending[1].lines) : i = pending[1].lines[n]
  <2>1. PICK r \in 1 .. Len(Records) : \E n \in 1 .. Len(Records[r].lines) : i = Records[r].lines[n]
    BY <1>1 DEF WholeInv, Listed
  <2>2. r \notin 1 .. Len(out)
    BY <1>2, <1>3, <1>7, <2>1 DEF Listed
  <2>3. pending # << >> /\ r = Len(out) + 1
    BY <1>2, <2>2
  <2> QED
    BY <1>2, <2>1, <2>3
<1>8. ASSUME NEW i \in Kept, NEW j \in Kept, ~Listed(i)', ~Listed(j)', i < j
      PROVE  read[j].kind = "cont"
  <2>1. /\ pending # << >> /\ Len(out) + 1 \in 1 .. Len(Records)
        /\ \E n \in 1 .. Len(pending[1].lines) : i = pending[1].lines[n]
        /\ \E n \in 1 .. Len(pending[1].lines) : j = pending[1].lines[n]
    BY <1>7, <1>8
  <2>2. PICK m \in 1 .. Len(pending[1].lines) : i = pending[1].lines[m]
    BY <2>1
  <2>3. PICK n \in 1 .. Len(pending[1].lines) : j = pending[1].lines[n]
    BY <2>1
  <2>4. /\ pending[1].lines \in Seq(Nat) /\ Ascending(pending[1].lines)
        /\ \A k \in 2 .. Len(pending[1].lines) : read[pending[1].lines[k]].kind = "cont"
    <3>1. IsWhole(Records[Len(out) + 1])
      BY <2>1 DEF WholeInv
    <3> QED
      BY <1>2, <2>1, <3>1 DEF IsWhole
  <2>5. \A k \in 1 .. Len(pending[1].lines) : pending[1].lines[k] \in Nat
    BY <2>4
  <2>6. n # 1
    <3> SUFFICES ASSUME n = 1 PROVE FALSE
      OBVIOUS
    <3>1. CASE m = 1
      BY <1>8, <2>2, <2>3, <2>5, <3>1
    <3>2. CASE n < m
      BY <1>8, <2>2, <2>3, <2>4, <2>5, <3>2 DEF Ascending
    <3>3. m = 1 \/ n < m
      BY <2>2
    <3> QED
      BY <3>1, <3>2, <3>3
  <2>7. n \in 2 .. Len(pending[1].lines)
    BY <2>3, <2>4, <2>6
  <2> QED
    BY <2>3, <2>4, <2>7
<1>9. ASSUME NEW r \in 1 .. Len(out'), Opens(out[r].lines[1])' PROVE Sealed(out[r])'
  <2>1. Sealed(out[r])
    BY <1>1, <1>9 DEF WholeInv, Opens
  <2> QED
    BY <1>1, <2>1 DEF Sealed, EndsAt
<1> QED
  BY <1>1, <1>4, <1>5, <1>6, <1>8, <1>9 DEF WholeInv

LEMMA WholeStep == WholeInv /\ [ReaderNext]_readerVars => WholeInv'
<1> SUFFICES ASSUME WholeInv, [ReaderNext]_readerVars PROVE WholeInv'
  OBVIOUS
<1>1. CASE Tick \/ UNCHANGED readerVars
  BY <1>1, TickWhole
<1>2. ASSUME NEW kind \in LineKind \ DatedKind, ReadLine(kind, now) PROVE WholeInv'
  <2>1. now \in Int
    BY ClockAssumption DEF WholeInv, DatedInv
  <2> QED
    BY <1>2, <2>1, ReadLineWhole
<1>3. ASSUME NEW kind \in DatedKind, NEW lag \in Lag, ReadLine(kind, now - lag) PROVE WholeInv'
  <2>1. kind \in LineKind /\ DatedInv
    BY DEF LineKind, WholeInv
  <2> QED
    BY <1>3, <2>1, ReadTimes, ReadLineWhole
<1>4. CASE EndOfOutput
  BY <1>4, EndWhole
<1>5. CASE Cut
  BY <1>5, CutWhole
<1> QED
  BY <1>1, <1>2, <1>3, <1>4, <1>5 DEF ReaderNext

LEMMA WholeInit == ReaderInit => WholeInv
<1> SUFFICES ASSUME ReaderInit PROVE WholeInv
  OBVIOUS
<1>1. DatedInv /\ read = << >> /\ pending = << >> /\ out = << >>
  BY DatedInit DEF ReaderInit
<1>2. Len(Records) = 0 /\ Kept = {} /\ Len(out) = 0
  BY <1>1 DEF Records, Kept
<1> QED
  BY <1>1, <1>2 DEF WholeInv

LEMMA WholeAlways == ReaderSpec => []WholeInv
<1> QED
  BY WholeInit, WholeStep, PTL DEF ReaderSpec

-----------------------------------------------------------------------------
\* What is listed is what the records have.
LEMMA KeptFromInv == WholeInv => EveryLineKept
<1> SUFFICES ASSUME WholeInv PROVE EveryLineKept
  OBVIOUS
<1>1. /\ DOMAIN Records = 1 .. Len(Records)
      /\ \A r \in 1 .. Len(Records) : Records[r].lines \in Seq(Nat) /\ IsWhole(Records[r])
  <2>1. Records \in Seq(RecordType) /\ \A r \in 1 .. Len(Records) : Records[r].lines \in Seq(Nat)
    BY RecordsList DEF WholeInv
  <2> QED
    BY <2>1 DEF WholeInv
<1>2. ASSUME NEW r \in 1 .. Len(Records), NEW i
      PROVE  i \in LinesOf(r) <=> \E n \in 1 .. Len(Records[r].lines) : i = Records[r].lines[n]
  <2>1. DOMAIN Records[r].lines = 1 .. Len(Records[r].lines)
    BY <1>1
  <2> QED
    BY <2>1 DEF LinesOf, ToSet
<1>3. ASSUME NEW i PROVE i \in InRecords <=> Listed(i)
  <2>1. i \in InRecords <=> \E r \in 1 .. Len(Records) : i \in LinesOf(r)
    BY <1>1, Zenon DEF InRecords
  <2> QED
    BY <1>2, <2>1 DEF Listed
<1>4. \A r \in DOMAIN Records : Ascending(Records[r].lines)
  BY <1>1 DEF IsWhole
<1>5. ASSUME NEW r \in DOMAIN Records, NEW s \in DOMAIN Records, r < s,
             NEW i \in LinesOf(r), NEW j \in LinesOf(s)
      PROVE  i < j
  <2>1. r \in 1 .. Len(Records) /\ s \in 1 .. Len(Records)
    BY <1>1
  <2>2. /\ \E m \in 1 .. Len(Records[r].lines) : i = Records[r].lines[m]
        /\ \E n \in 1 .. Len(Records[s].lines) : j = Records[s].lines[n]
    BY <1>2, <1>5, <2>1
  <2> QED
    BY <1>5, <2>1, <2>2 DEF WholeInv
<1>6. ASSUME NEW i \in InRecords PROVE i \in Kept
  <2>1. PICK r \in 1 .. Len(Records) : \E n \in 1 .. Len(Records[r].lines) : i = Records[r].lines[n]
    BY <1>3 DEF Listed
  <2> QED
    BY <1>1, <2>1 DEF IsWhole
<1>7. ended # "cut" => InRecords = Kept
  BY <1>3, <1>6 DEF WholeInv
<1>8. \A i, j \in Kept \ InRecords : i < j => read[j].kind = "cont"
  BY <1>3 DEF WholeInv
<1> QED
  BY <1>4, <1>5, <1>6, <1>7, <1>8 DEF EveryLineKept

\* What waits has only blank lines behind it; what is sealed has a line behind it
\* that no continuation crosses.
LEMMA WholeFromInv == WholeInv => RecordsAreWhole
<1> SUFFICES ASSUME WholeInv, NEW r \in DOMAIN Records, NEW rec, rec = Records[r]
             PROVE  /\ \A n \in 2 .. Len(rec.lines) : read[rec.lines[n]].kind = "cont"
                    /\ Len(rec.lines) > 1 => Opens(rec.lines[1])
                    /\ Opens(rec.lines[1]) /\ ended # "cut" =>
                       \A i \in Kept : ~ /\ i > Last(rec.lines) /\ read[i].kind = "cont"
                                         /\ \A n \in Last(rec.lines) + 1 .. i - 1 : read[n].kind = "blank"
  BY DEF RecordsAreWhole
<1>1. /\ r \in 1 .. Len(Records) /\ rec \in RecordType /\ IsWhole(rec) /\ rec.lines \in Seq(Nat)
      /\ Len(out) \in Nat /\ Len(read) \in Nat /\ Len(Records) = Len(out) + Len(pending)
      /\ Len(pending) \in Nat /\ Len(pending) <= 1
      /\ \A s \in 1 .. Len(out) : Records[s] = out[s]
      /\ pending # << >> => Records[Len(out) + 1] = pending[1]
      /\ pending = << >> => Records = out
      /\ Kept \subseteq 1 .. Len(read)
  <2>1. /\ Records \in Seq(RecordType)
        /\ \A s \in 1 .. Len(Records) : Records[s].lines \in Seq(Nat)
    BY RecordsList DEF WholeInv
  <2>2. r \in 1 .. Len(Records)
    BY <2>1
  <2>3. IsWhole(rec)
    BY <2>2 DEF WholeInv
  <2>4. rec \in RecordType /\ rec.lines \in Seq(Nat)
    BY <2>1, <2>2
  <2> QED
    BY <2>2, <2>3, <2>4, RecordsList DEF WholeInv
<1>2. Last(rec.lines) = EndsAt(rec) /\ EndsAt(rec) \in 1 .. Len(read)
  <2>1. Len(rec.lines) \in 1 .. Len(rec.lines)
    BY <1>1 DEF IsWhole
  <2> QED
    BY <1>1, <2>1 DEF Last, EndsAt, IsWhole
<1>3. ASSUME Opens(rec.lines[1]), ended # "cut", NEW i \in Kept,
             i > EndsAt(rec), read[i].kind = "cont",
             \A n \in EndsAt(rec) + 1 .. i - 1 : read[n].kind = "blank"
      PROVE  FALSE
  <2>1. Sealed(rec) \/ Waits(rec)
    <3>1. CASE r \in 1 .. Len(out)
      BY <1>1, <1>3, <3>1 DEF WholeInv
    <3>2. CASE r \notin 1 .. Len(out)
      <4>1. pending # << >> /\ r = Len(out) + 1
        BY <1>1, <3>2
      <4> QED
        BY <1>1, <4>1 DEF WholeInv
    <3> QED
      BY <3>1, <3>2
  <2>2. i \in EndsAt(rec) + 1 .. Len(read)
    BY <1>1, <1>2, <1>3
  <2>3. CASE Waits(rec)
    BY <1>3, <2>2, <2>3 DEF Waits
  <2>4. CASE Sealed(rec)
    <3>1. PICK m \in EndsAt(rec) + 1 .. Len(read) :
            /\ read[m].kind \notin {"blank", "cont"}
            /\ \A n \in EndsAt(rec) + 1 .. m - 1 : read[n].kind # "cont"
      BY <2>4 DEF Sealed
    <3>2. m \in Int /\ i \in Int /\ EndsAt(rec) \in Int
      BY <1>1, <1>2, <3>1
    <3>3. m < i => m \in EndsAt(rec) + 1 .. i - 1
      BY <1>2, <3>1, <3>2
    <3>4. i < m => i \in EndsAt(rec) + 1 .. m - 1
      BY <2>2, <3>2
    <3>5. i # m
      BY <1>3, <3>1
    <3>6. i < m \/ m < i
      BY <3>2, <3>5
    <3> QED
      BY <1>3, <3>1, <3>3, <3>4, <3>6
  <2> QED
    BY <2>1, <2>3, <2>4
<1> QED
  BY <1>1, <1>2, <1>3 DEF IsWhole

\* Every line that says anything is in one record and in the order of the lines,
\* whatever kinds of lines come in whatever order; a capture that is cut loses one
\* record at most.
THEOREM LinesAreKept == ReaderSpec => []EveryLineKept
<1> QED
  BY WholeAlways, KeptFromInv, PTL

\* A record has all the lines that continue it, and no others.
THEOREM RecordsHaveTheirLines == ReaderSpec => []RecordsAreWhole
<1> QED
  BY WholeAlways, WholeFromInv, PTL
=============================================================================
