-------------------------- MODULE LogStreamClient ---------------------------
(***************************************************************************)
(* The iOS log client (LogStreamClient.swift), over a model of the network *)
(* framework's connections.                                                *)
(*                                                                         *)
(* Every block of the client runs on one serial queue, so a block is one   *)
(* action.  A connection reports by callbacks that are queued: a change of *)
(* its state (updates), the completion of a send (done), of a receive and  *)
(* of a ping.  A report may be delivered after the client has replaced the *)
(* connection, and acts on the client's fields, not on that connection.    *)
(* Connection objects are reused here once they have nothing to report.    *)
(* Delays, and so the backoff, are left out: a timer is pending or fires.  *)
(***************************************************************************)
EXTENDS Integers, Sequences, SequencesExt, FiniteSets

CONSTANTS
    MaxConns,   \* bound on the connections in use at once, for model checking
    NoConn,
    BufferCap,  \* bufferCap
    ChunkSize,  \* chunkSize of flush
    Odd,        \* the records that JSON cannot hold: their ts is not finite
    MaxRecords, \* bound on the records logged, for model checking only
    MaxTimers   \* bound on the timers pending, for model checking only

Conn == 1 .. MaxConns

ASSUME ClientAssumption ==
    /\ MaxConns \in Nat \ {0} /\ NoConn \notin Conn
    /\ BufferCap \in Nat \ {0} /\ ChunkSize \in Nat \ {0} /\ Odd \subseteq Nat
    /\ MaxRecords \in Nat /\ MaxTimers \in Nat \ {0}

VARIABLES
    state,          \* "idle", "connecting", "connected" or "waiting"
    current,        \* connection
    timers,         \* reconnect timers pending
    buffer,
    flushScheduled,
    sent,           \* the records sentCount counts
    dropped,        \* droppedCount
    link,           \* each connection's own state
    updates,        \* its state updates on their way
    pipe,           \* the batches it was given and has not processed
    done,           \* completions on their way: the batch, and whether it was processed
    receiving,      \* connections with a receive in progress
    pinging,        \* connections with a ping in progress
    greeted,        \* history: the connections given a hello
    lost,           \* history: the records of the batches that could not be encoded
    made            \* history: how many records were logged

connVars == <<link, updates, pipe, done, receiving, pinging, greeted>>
bufferVars == <<buffer, flushScheduled, sent, dropped, lost, made>>
vars == <<state, current, timers, bufferVars, connVars>>

Init ==
    /\ state = "idle" /\ current = NoConn /\ timers = 0
    /\ buffer = << >> /\ flushScheduled = FALSE
    /\ sent = {} /\ dropped = 0 /\ lost = {} /\ made = 0
    /\ link = [c \in Conn |-> "unused"]
    /\ updates = [c \in Conn |-> << >>]
    /\ pipe = [c \in Conn |-> << >>]
    /\ done = [c \in Conn |-> << >>]
    /\ receiving = {} /\ pinging = {} /\ greeted = {}

-----------------------------------------------------------------------------
(* Connections *)

Live(c) == link[c] \in {"preparing", "ready"}

\* What a connection that ends makes of the batches it has not processed.
Failures(batches) ==
    [i \in 1 .. Len(batches) |-> [records |-> batches[i], ok |-> FALSE]]

\* Connection c ends, `how`: failed, or cancelled by the client.
EndLink(c, how) ==
    /\ link' = [link EXCEPT ![c] = how]
    /\ updates' = [updates EXCEPT ![c] = Append(@, how)]
    /\ pipe' = [pipe EXCEPT ![c] = << >>]
    /\ done' = [done EXCEPT ![c] = @ \o Failures(pipe[c])]

\* A connection object with nothing more to report.
Spare(c) ==
    /\ link[c] \in {"unused", "cancelled"} /\ c # current
    /\ updates[c] = << >> /\ done[c] = << >>
    /\ c \notin receiving \union pinging

ConnFrame == UNCHANGED <<receiving, pinging>>

\* restart(): replace the connection.
RestartUncancelledMut ==
    \E new \in Conn :
        /\ Spare(new) /\ \A c \in 1 .. new - 1 : ~Spare(c)
        /\ link' = [link EXCEPT ![new] = "preparing"]
        /\ UNCHANGED <<updates, pipe, done>>
        /\ current' = new
        /\ state' = "connecting"
        /\ greeted' = greeted \ {new}
        /\ ConnFrame
RestartConnectedMut ==
    \E new \in Conn :
        /\ Spare(new) /\ \A c \in 1 .. new - 1 : ~Spare(c)
        /\ IF current # NoConn /\ link[current] # "cancelled"
           THEN /\ link' = [link EXCEPT ![current] = "cancelled", ![new] = "preparing"]
                /\ updates' = [updates EXCEPT ![current] = Append(@, "cancelled")]
                /\ pipe' = [pipe EXCEPT ![current] = << >>]
                /\ done' = [done EXCEPT ![current] = @ \o Failures(pipe[current])]
           ELSE /\ link' = [link EXCEPT ![new] = "preparing"]
                /\ UNCHANGED <<updates, pipe, done>>
        /\ current' = new
        /\ UNCHANGED state
        /\ greeted' = greeted \ {new}
        /\ ConnFrame
Restart ==
    \E new \in Conn :
        /\ Spare(new) /\ \A c \in 1 .. new - 1 : ~Spare(c)
        /\ IF current # NoConn /\ link[current] # "cancelled"
           THEN /\ link' = [link EXCEPT ![current] = "cancelled", ![new] = "preparing"]
                /\ updates' = [updates EXCEPT ![current] = Append(@, "cancelled")]
                /\ pipe' = [pipe EXCEPT ![current] = << >>]
                /\ done' = [done EXCEPT ![current] = @ \o Failures(pipe[current])]
           ELSE /\ link' = [link EXCEPT ![new] = "preparing"]
                /\ UNCHANGED <<updates, pipe, done>>
        /\ current' = new
        /\ state' = "connecting"
        /\ greeted' = greeted \ {new}
        /\ ConnFrame

\* `state = .waiting; scheduleReconnect()`, in every callback that sees a failure.
LoseConnectionMut == state' = "waiting" /\ UNCHANGED timers
LoseConnection ==
    /\ state' = "waiting"
    /\ timers' = IF timers < MaxTimers THEN timers + 1 ELSE timers

-----------------------------------------------------------------------------
(* Commands *)

Connect ==
    /\ Restart
    /\ UNCHANGED <<timers, bufferVars>>

Stop ==
    /\ state' = "idle" /\ current' = NoConn
    /\ IF current # NoConn
       THEN EndLink(current, "cancelled")
       ELSE UNCHANGED <<link, updates, pipe, done>>
    /\ UNCHANGED <<timers, bufferVars, receiving, pinging, greeted>>

\* send(): buffer a record, drop the oldest ones over the cap, ask for a flush.
Send ==
    /\ made < MaxRecords
    /\ made' = made + 1
    /\ LET records == Append(buffer, made')
           over == IF Len(records) > BufferCap THEN Len(records) - BufferCap ELSE 0
       IN  /\ buffer' = SubSeq(records, over + 1, Len(records))
           /\ dropped' = dropped + over
    /\ flushScheduled' = TRUE
    /\ UNCHANGED <<state, current, timers, sent, lost, connVars>>

\* flush(): give the connection the next chunk of the buffer.  A chunk that
\* cannot be encoded is gone: it has left the buffer and is counted nowhere.
Chunk(size) == IF Len(buffer) < size THEN Len(buffer) ELSE size
Unencodable(batch) == ToSet(batch) \intersect Odd # {}

Flush ==
    /\ flushScheduled
    /\ flushScheduled' = FALSE
    /\ IF state = "connected" /\ current # NoConn /\ buffer # << >>
       THEN LET k == Chunk(ChunkSize)
                batch == SubSeq(buffer, 1, k)
            IN  /\ buffer' = SubSeq(buffer, k + 1, Len(buffer))
                /\ \/ /\ Unencodable(batch)
                      /\ lost' = lost \union ToSet(batch)
                      /\ UNCHANGED <<pipe, done>>
                   \/ /\ ~Unencodable(batch) /\ Live(current)
                      /\ pipe' = [pipe EXCEPT ![current] = Append(@, batch)]
                      /\ UNCHANGED <<done, lost>>
                   \/ /\ ~Unencodable(batch) /\ ~Live(current)
                      /\ done' = [done EXCEPT ![current] = @ \o Failures(<<batch>>)]
                      /\ UNCHANGED <<pipe, lost>>
       ELSE UNCHANGED <<pipe, buffer, done, lost>>
    /\ UNCHANGED <<state, current, timers, sent, dropped, made, link, updates,
                   receiving, pinging, greeted>>

-----------------------------------------------------------------------------
(* Callbacks *)

\* stateUpdateHandler.  A report of an old connection acts on the current one:
\* .ready sends hello on it and starts receiving from it.
Ready ==
    /\ state' = "connected"
    /\ flushScheduled' = TRUE
    /\ IF current # NoConn
       THEN /\ receiving' = receiving \union {current}
            /\ greeted' = greeted \union {current}
       ELSE UNCHANGED <<receiving, greeted>>
    /\ UNCHANGED timers

Update(c) ==
    /\ updates[c] # << >>
    /\ updates' = [updates EXCEPT ![c] = Tail(@)]
    /\ LET report == Head(updates[c])
       IN  \/ report = "ready" /\ Ready
           \/ /\ report \in {"failed", "cancelled"}
              /\ LoseConnection
              /\ UNCHANGED <<flushScheduled, receiving, greeted>>
           \/ /\ report = "waiting"
              /\ state' = "waiting"
              /\ UNCHANGED <<timers, flushScheduled, receiving, greeted>>
    /\ UNCHANGED <<current, buffer, sent, dropped, lost, made, link, pipe, done, pinging>>

\* The completion of flush's send.  A failed batch goes back in front.
CompletedMut(c) ==
    /\ done[c] # << >>
    /\ done' = [done EXCEPT ![c] = Tail(@)]
    /\ IF Head(done[c]).ok
       THEN /\ sent' = sent \union ToSet(Head(done[c]).records)
            /\ flushScheduled' = (flushScheduled \/ buffer # << >>)
            /\ UNCHANGED <<buffer, state, timers>>
       ELSE /\ LoseConnection
            /\ UNCHANGED <<buffer, sent, flushScheduled>>
    /\ UNCHANGED <<current, dropped, lost, made, link, updates, pipe, receiving,
                   pinging, greeted>>
Completed(c) ==
    /\ done[c] # << >>
    /\ done' = [done EXCEPT ![c] = Tail(@)]
    /\ IF Head(done[c]).ok
       THEN /\ sent' = sent \union ToSet(Head(done[c]).records)
            /\ flushScheduled' = (flushScheduled \/ buffer # << >>)
            /\ UNCHANGED <<buffer, state, timers>>
       ELSE /\ buffer' = Head(done[c]).records \o buffer
            /\ LoseConnection
            /\ UNCHANGED <<sent, flushScheduled>>
    /\ UNCHANGED <<current, dropped, lost, made, link, updates, pipe, receiving,
                   pinging, greeted>>

\* The receive of c completes: with data, and the next one is started, on the
\* current connection; or at its end.
Received(c) ==
    /\ c \in receiving
    /\ \/ /\ link[c] = "ready"
          /\ receiving' = (receiving \ {c}) \union (IF current = NoConn THEN {} ELSE {current})
          /\ UNCHANGED <<state, timers>>
       \/ /\ link[c] # "preparing"
          /\ receiving' = receiving \ {c}
          /\ LoseConnection
    /\ UNCHANGED <<current, bufferVars, link, updates, pipe, done, pinging, greeted>>

Ping ==
    /\ state = "connected" /\ current # NoConn /\ current \notin pinging
    /\ pinging' = pinging \union {current}
    /\ UNCHANGED <<state, current, timers, bufferVars, link, updates, pipe, done,
                   receiving, greeted>>

Pinged(c) ==
    /\ c \in pinging
    /\ pinging' = pinging \ {c}
    /\ IF Live(c) THEN link[c] = "ready" /\ UNCHANGED <<state, timers>> ELSE LoseConnection
    /\ UNCHANGED <<current, bufferVars, link, updates, pipe, done, receiving, greeted>>

\* A reconnect timer fires.
Timer ==
    /\ timers > 0
    /\ timers' = timers - 1
    /\ IF state = "waiting" THEN Restart
       ELSE UNCHANGED <<state, current, connVars>>
    /\ UNCHANGED <<bufferVars>>

-----------------------------------------------------------------------------
(* The network *)

ClientFrame == UNCHANGED <<state, current, timers, bufferVars>>

Establish(c) ==
    /\ link[c] = "preparing"
    /\ link' = [link EXCEPT ![c] = "ready"]
    /\ updates' = [updates EXCEPT ![c] = Append(@, "ready")]
    /\ ClientFrame /\ UNCHANGED <<pipe, done, receiving, pinging, greeted>>

\* No route for now: reported once.
NoRoute(c) ==
    /\ link[c] = "preparing" /\ "waiting" \notin ToSet(updates[c])
    /\ updates' = [updates EXCEPT ![c] = Append(@, "waiting")]
    /\ ClientFrame /\ UNCHANGED <<link, pipe, done, receiving, pinging, greeted>>

Break(c) ==
    /\ Live(c)
    /\ EndLink(c, "failed")
    /\ ClientFrame /\ UNCHANGED <<receiving, pinging, greeted>>

\* The stack takes a batch, which may still be lost with the connection.
Process(c) ==
    /\ link[c] = "ready" /\ pipe[c] # << >>
    /\ pipe' = [pipe EXCEPT ![c] = Tail(@)]
    /\ done' = [done EXCEPT ![c] = Append(@, [records |-> Head(pipe[c]), ok |-> TRUE])]
    /\ ClientFrame /\ UNCHANGED <<link, updates, receiving, pinging, greeted>>

-----------------------------------------------------------------------------
Callback(c) == Update(c) \/ Completed(c) \/ Received(c) \/ Pinged(c)

Next ==
    \/ Connect \/ Stop \/ Send \/ Flush \/ Ping \/ Timer
    \/ \E c \in Conn :
        \/ Callback(c)
        \/ Establish(c) \/ NoRoute(c) \/ Break(c) \/ Process(c)

\* The blocks the queue runs without anything new from outside: a timer, and
\* what a connection has to report.
Report(c) == Update(c) \/ Completed(c) \/ Pinged(c) \/ (Received(c) /\ ~Live(c))

\* The queue runs the blocks it is given, timers fire, and the network lets a
\* connection through again and again.
Spec == /\ Init /\ [][Next]_vars
        /\ WF_vars(Timer)
        /\ \A c \in Conn : WF_vars(Report(c)) /\ SF_vars(Establish(c))

-----------------------------------------------------------------------------
Record == 1 .. MaxRecords

ClientTypeOK ==
    /\ state \in {"idle", "connecting", "connected", "waiting"}
    /\ current \in Conn \union {NoConn}
    /\ timers \in 0 .. MaxTimers
    /\ flushScheduled \in BOOLEAN
    /\ buffer \in Seq(Record)
    /\ sent \subseteq Record /\ lost \subseteq Record
    /\ dropped \in 0 .. MaxRecords /\ made \in 0 .. MaxRecords
    /\ \A c \in Conn :
        /\ link[c] \in {"unused", "preparing", "ready", "failed", "cancelled"}
        /\ \A i \in DOMAIN updates[c] : updates[c][i] \in {"ready", "waiting", "failed", "cancelled"}
        /\ \A i \in DOMAIN pipe[c] : pipe[c][i] \in Seq(Record) /\ Len(pipe[c][i]) <= ChunkSize
        /\ \A i \in DOMAIN done[c] : done[c][i].records # << >>
    /\ receiving \subseteq Conn /\ pinging \subseteq Conn /\ greeted \subseteq Conn

\* The batches each connection has been given and has not reported on, oldest first.
Given == [c \in Conn |-> [b \in DOMAIN done[c] |-> done[c][b].records] \o pipe[c]]

HandedOf(given) == UNION {ToSet(batch) : batch \in UNION {ToSet(given[c]) : c \in Conn}}
HandedOnce(given) ==
    \A c, d \in Conn : \A a \in 1 .. Len(given[c]), b \in 1 .. Len(given[d]) :
        \A i \in 1 .. Len(given[c][a]), j \in 1 .. Len(given[d][b]) :
            given[c][a][i] = given[d][b][j] => c = d /\ a = b /\ i = j

Held == ToSet(buffer) \union HandedOf(Given)

\* Through every failure, replacement and late report, each record that was
\* logged is in exactly one place: buffered, in a connection's hands, counted
\* in sentCount, counted in droppedCount, or, the one place where no counter
\* shows it, lost with a batch that could not be encoded.  A record JSON cannot
\* hold takes no more than its own batch with it.
EveryRecordAccounted ==
    /\ IsInjective(buffer) /\ HandedOnce(Given)
    /\ ToSet(buffer) \intersect HandedOf(Given) = {}
    /\ Held \intersect (sent \union lost) = {} /\ sent \intersect lost = {}
    /\ Cardinality(Held \union sent \union lost) + dropped = made
    /\ Cardinality(lost) <= ChunkSize * Cardinality(lost \intersect Odd)

\* On every connection hello is the first frame, also when the report that a
\* connection is ready comes after it has been replaced: the desktop never has
\* to guess whose records it gets.
HelloFirst == \A c \in Conn : Given[c] # << >> => c \in greeted

\* A connection that was replaced or stopped is never left open.
OneLiveConnection == \A c \in Conn : Live(c) => c = current

\* A client that lost its connection, however many reports of that arrive and
\* in whatever order, connects again unless it is stopped: it never waits
\* without a timer or a connection attempt.
Reconnects == state \in {"connecting", "waiting"} ~> state \in {"connected", "idle"}

\* A connection attempt that will report: the network has not decided it yet.
Attempting == current # NoConn /\ link[current] = "preparing"

\* A report on its way that connects the client or starts a timer.
Decisive(c) == \E i \in DOMAIN updates[c] : updates[c][i] # "waiting"

\* The safety part of Reconnects: at no moment is a client that is neither
\* connected nor stopped left with nothing to wake it.  A pending timer does not
\* count while it is connecting, since scheduleReconnect's block then returns.
NeverStranded ==
    /\ state = "connecting" => Attempting \/ \E c \in Conn : Decisive(c)
    /\ state = "waiting" => timers > 0 \/ Attempting \/ \E c \in Conn : Decisive(c)

\* ContentView.swift:33 offers "Stop streaming".  So once the client is stopped,
\* only another connect() opens a connection.
StopSticks == [][current = NoConn /\ current' # NoConn => Connect]_vars
=============================================================================
