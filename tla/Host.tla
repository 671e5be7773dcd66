-------------------------------- MODULE Host --------------------------------
(***************************************************************************)
(* The life of the desktop process: create_app and run in                  *)
(* desktop/idevicetail/server.py start the parts one after the other, and  *)
(* _shutdown stops them in another order when the process is told to end.  *)
(* The file sink is the one of FileSink; of the agent server it matters     *)
(* whether an agent is connected, of the other parts whether they run.     *)
(***************************************************************************)
EXTENDS FileSink

VARIABLES
    stage,      \* "boot", "serving", "down" or "over"
    step,       \* the step of Boot or Down that is next
    up,         \* the parts that run
    capturing,  \* whether a capture runs
    peer,       \* whether an agent app is connected
    agentStop   \* where agent.stop() is: "idle", "cancelling" or "waiting"

hostVars == <<stage, step, up, capturing, peer, agentStop>>
allVars == <<busVars, fileVars, hostVars>>

\* create_app, then the site in run.
Boot == << "store", "manager", "agent", "discovery", "advert", "file", "web" >>
\* _shutdown, then runner.cleanup in run.
Down == << "discovery", "advert", "agent", "manager", "file", "store", "web" >>

HostInit ==
    /\ BusInit /\ FileInit
    /\ stage = "boot" /\ step = 1
    /\ up = {} /\ capturing = FALSE
    /\ peer = FALSE /\ agentStop = "idle"

-----------------------------------------------------------------------------
(* Start *)

Started ==
    /\ step' = step + 1
    /\ stage' = IF step = Len(Boot) THEN "serving" ELSE "boot"
    /\ UNCHANGED <<capturing, peer, agentStop>>

BootPart ==
    /\ stage = "boot" /\ Boot[step] # "file"
    /\ up' = up \union {Boot[step]}
    /\ Started
    /\ UNCHANGED <<busVars, fileVars>>

BootSink ==
    /\ stage = "boot" /\ Boot[step] = "file"
    /\ RunSink
    /\ up' = up \union {"file"}
    /\ Started

\* Advertising the host may fail; the start goes on without it.
SkipAdvert ==
    /\ stage = "boot" /\ Boot[step] = "advert"
    /\ Started
    /\ UNCHANGED <<busVars, fileVars, up>>

\* The tasks of the sink and the captures are cancelled with the event loop.
Exit ==
    /\ stage' = "over"
    /\ capturing' = FALSE
    /\ UNCHANGED <<step, up, peer, agentStop>>

\* A part that cannot start (a port in use, a directory that cannot be made)
\* ends the process: run is not yet in its `try`, so nothing is shut down.  What
\* a thread of the sink still writes then is not followed.
BootFails ==
    /\ stage = "boot" /\ Boot[step] \notin {"manager", "advert"}
    /\ Exit
    /\ sink' = IF sink \in {"started", "get"} THEN "done" ELSE sink
    /\ open' = open \ {file}
    /\ UNCHANGED <<stopping, writing>> /\ QueuesUntouched /\ FilesUntouched

-----------------------------------------------------------------------------
(* Stop *)

\* run is cancelled.
Interrupt ==
    /\ stage = "serving"
    /\ stage' = "down" /\ step' = 1
    /\ UNCHANGED <<busVars, fileVars, up, capturing, peer, agentStop>>

\* Each step is attempted whatever became of the one before: an exception is
\* suppressed.
SkipRestMut == step' = Len(Down)
NextStep == step' = step + 1
DownPart ==
    /\ stage = "down" /\ Down[step] \notin {"agent", "file", "web"}
    /\ \/ up' = up \ {Down[step]} /\ NextStep
       \/ Down[step] \in up /\ up' = up /\ NextStep
    /\ capturing' = (capturing /\ Down[step] # "manager")
    /\ UNCHANGED <<busVars, fileVars, stage, peer, agentStop>>

\* agent.stop() stops to listen and awaits wait_closed, which as of Python 3.12
\* waits for the connections that agents still have ...
DownAgent ==
    /\ stage = "down" /\ Down[step] = "agent" /\ agentStop = "idle"
    /\ agentStop' \in {"cancelling", "waiting"}
    /\ UNCHANGED <<busVars, fileVars, stage, step, up, capturing, peer>>

\* ... and ends the handlers only after that.
AgentDown ==
    /\ stage = "down" /\ Down[step] = "agent" /\ agentStop # "idle"
    /\ agentStop = "waiting" => ~peer
    /\ \/ up' = up \ {"agent"} /\ peer' = FALSE
       \/ UNCHANGED <<up, peer>>
    /\ NextStep
    /\ UNCHANGED <<busVars, fileVars, stage, capturing, agentStop>>

\* filesink.close() sets the flag ...
DownSink ==
    /\ stage = "down" /\ Down[step] = "file"
    /\ CloseSink
    /\ UNCHANGED hostVars

\* ... and returns, or raises what ended the consumer, once that is over.
SinkDown ==
    /\ stage = "down" /\ Down[step] = "file" /\ stopping /\ sink \in {"done", "dead"}
    /\ up' = up \ {"file"}
    /\ NextStep
    /\ UNCHANGED <<busVars, fileVars, stage, capturing, peer, agentStop>>

Cleanup ==
    /\ stage = "down" /\ Down[step] = "web"
    /\ Exit
    /\ UNCHANGED <<busVars, fileVars>>

-----------------------------------------------------------------------------
(* Work *)

\* An agent app connects while the server listens, and leaves when it likes.
AgentComes ==
    /\ stage # "over" /\ "agent" \in up /\ agentStop = "idle" /\ ~peer
    /\ peer' = TRUE
    /\ UNCHANGED <<busVars, fileVars, stage, step, up, capturing, agentStop>>

AgentLeaves ==
    /\ stage # "over" /\ peer
    /\ peer' = FALSE
    /\ UNCHANGED <<busVars, fileVars, stage, step, up, capturing, agentStop>>

\* An agent's connection, a capture, or a request that pulls crash reports.
Produce ==
    /\ stage # "over"
    /\ peer \/ capturing \/ "web" \in up
    /\ Publish
    /\ UNCHANGED <<fileVars, hostVars>>

\* POST .../start is served until the site is cleaned up, also after
\* manager.stop().
StartCapture ==
    /\ stage # "over" /\ "web" \in up /\ ~capturing
    /\ capturing' = TRUE
    /\ UNCHANGED <<busVars, fileVars, stage, step, up, peer, agentStop>>

\* _session_file sends the file of the current name, not those renamed.
Download(k) == text[k]

SinkWorks == Consume /\ stage # "over" /\ UNCHANGED hostVars

HostSteps ==
    \/ BootPart \/ BootSink \/ SkipAdvert
    \/ DownPart \/ DownAgent \/ AgentDown \/ DownSink \/ SinkDown \/ Cleanup

HostNext ==
    \/ HostSteps \/ BootFails \/ Interrupt
    \/ AgentComes \/ AgentLeaves \/ Produce \/ StartCapture
    \/ SinkWorks

\* The event loop resumes what waits for nothing; get() returns at once from a
\* queue that is not empty, so its timeout cannot beat it for ever.
HostSpec == /\ HostInit /\ [][HostNext]_allVars
            /\ WF_allVars(HostSteps)
            /\ WF_allVars((Round \/ Write \/ DiskFails \/ EncodingFails \/ Rotate) /\ SinkWorks)
            /\ SF_allVars(Read /\ SinkWorks)

-----------------------------------------------------------------------------
HostTypeOK ==
    /\ FileTypeOK
    /\ stage \in {"boot", "serving", "down", "over"}
    /\ step \in 1 .. Len(Boot) + 1
    /\ up \subseteq ToSet(Boot)
    /\ capturing \in BOOLEAN /\ peer \in BOOLEAN
    /\ agentStop \in {"idle", "cancelling", "waiting"}

\* Every record published while the sink reads is in the end in both files,
\* unless its queue overflowed, the disk or the encoding failed, or the host is
\* told to end.
EveryRecordFiled ==
    \A n \in 1 .. MaxPublished :
        (file \in open /\ joined[file] < n /\ n <= seq)
            ~> (n \in Counted \/ dropped[file] > 0 \/ lost # {} \/ stage \in {"down", "over"})

\* Told to end, the process ends, whatever failed before or fails on the way,
\* and the file sink has finished the batch it was writing; except while an
\* agent stays connected to a server that waits for it: the parts after the agent
\* server are stopped when it leaves, and never before.
ShutdownCompletes ==
    (stage = "down") ~>
        \/ stage = "over" /\ sink \in {"done", "dead"} /\ writing = << >>
        \/ stage = "down" /\ Down[step] = "agent" /\ agentStop = "waiting" /\ peer

\* GUIDE.md:308 of "Download .log / .ndjson": "download the full rolling file".
DownloadIsFull ==
    stage = "serving" /\ failures = 0 /\ sink = "get" =>
        \A k \in Kind : \A n \in Counted : {2 * n - 1, 2 * n} \subseteq ToSet(Download(k))
=============================================================================
