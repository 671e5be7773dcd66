------------------------------- MODULE Store --------------------------------
(***************************************************************************)
(* The SQLite writer of desktop/idevicetail/store.py, one subscriber of    *)
(* the bus, and the session and device bookkeeping that shares its         *)
(* connection.                                                             *)
(*                                                                         *)
(* The connection runs one statement at a time, in one transaction that    *)
(* every caller shares: a commit by one caller commits what the others     *)
(* have executed so far.  `db` is what the connection sees, `disk` what is *)
(* committed.  A statement may fail at any time (MaxFailures bounds how    *)
(* often, for model checking): SQLite then either undoes that statement,   *)
(* keeping the rows of an executemany inserted before the bad one, or, for *)
(* a full disk or an I/O error, rolls back the whole transaction.          *)
(*                                                                         *)
(* A record's primary key is a fresh uuid, so a row is its seq and INSERT  *)
(* OR IGNORE never ignores one.  Queries change nothing and are left out.  *)
(***************************************************************************)
EXTENDS LogBus, FiniteSets

CONSTANTS
    writer,       \* the store's subscription
    Caller,       \* tasks that do bookkeeping: capture tasks, agent connections
    Device,       \* device ids
    Session,      \* session ids
    SessionDevice,\* the device each session is about
    FlushRows,    \* Store.flush_rows
    MaxFailures   \* bound on failing statements, for model checking only

ASSUME StoreAssumption ==
    /\ writer \in Sub
    /\ FlushRows \in Nat \ {0}
    /\ SessionDevice \in [Session -> Device]

VARIABLES
    consumer,    \* where _consume is suspended
    stop,        \* Store._stop
    pending,     \* Store._pending
    batch,       \* the local of _flush
    rowsWritten, \* Store.rows_written
    disk, db,    \* the tables, committed and as the connection sees them
    connected,   \* Store._db is not None
    caller,      \* for each caller, whether it has executed and must still commit
    failures,    \* how many statements have failed
    discarded    \* history: the records of the batches whose flush raised

storeVars == <<consumer, stop, pending, batch, rowsWritten, disk, db, connected,
               caller, failures, discarded>>
vars == <<busVars, storeVars>>

Tables == [logs : SUBSET (1 .. MaxPublished), devices : SUBSET Device,
           sessions : [Session -> {"none", "open", "ended"}]]

Init ==
    /\ BusInit
    /\ consumer = "off"
    /\ stop = FALSE
    /\ pending = << >>
    /\ batch = << >>
    /\ rowsWritten = 0
    /\ disk = [logs |-> {}, devices |-> {}, sessions |-> [i \in Session |-> "none"]]
    /\ db = disk
    /\ connected = TRUE
    /\ caller = [c \in Caller |-> "idle"]
    /\ failures = 0
    /\ discarded = {}

-----------------------------------------------------------------------------
(* The consumer task *)

\* run(): subscribe at once, then start the task.
Run ==
    /\ consumer = "off" /\ ~stop
    /\ Subscribe(writer)
    /\ consumer' = "started"
    /\ UNCHANGED <<stop, pending, batch, rowsWritten, disk, db, connected, caller,
                   failures, discarded>>

\* Whether a pass flushes: enough rows, or some rows and flush_seconds gone.
FlushLateMut(rows, elapsed) == Len(rows) > FlushRows \/ (rows # << >> /\ elapsed)
FlushFullOnlyMut(rows, elapsed) == Len(rows) >= FlushRows
FlushDue(rows, elapsed) == Len(rows) >= FlushRows \/ (rows # << >> /\ elapsed)

\* The code between two awaits: flush if it is due, else test the stop flag.
\* On stop the `finally` closes the subscription, without reading what is
\* still in its queue, and flushes the rows that are pending.
FinishUnflushedMut(rows) ==
    open' = open \ {writer} /\ batch' = << >> /\ pending' = rows /\ consumer' = "done"
Finish(rows) ==
    /\ open' = open \ {writer}
    /\ batch' = rows
    /\ pending' = << >>
    /\ consumer' = IF rows = << >> THEN "done" ELSE "insert"

NextPass(rows, elapsed) ==
    \/ /\ FlushDue(rows, elapsed)
       /\ consumer' = "insert" /\ batch' = rows /\ pending' = << >>
       /\ UNCHANGED open
    \/ /\ ~FlushDue(rows, elapsed) /\ ~stop
       /\ consumer' = "get" /\ batch' = << >> /\ pending' = rows
       /\ UNCHANGED open
    \/ /\ ~FlushDue(rows, elapsed) /\ stop
       /\ Finish(rows)

\* The variables that a pass leaves alone, whatever it does.
PassFrame == UNCHANGED <<stop, caller, connected>>
BusFrame == UNCHANGED <<seq, ring, queue, dropped, joined, taken, last>>

\* The first tick of the task.
Start ==
    /\ consumer = "started"
    /\ NextPass(pending, FALSE)
    /\ BusFrame /\ PassFrame /\ UNCHANGED <<rowsWritten, disk, db, failures, discarded>>

\* wait_for(sub.get()) returns a record.
Get ==
    /\ consumer = "get"
    /\ Dequeue(writer)
    /\ \E elapsed \in BOOLEAN : NextPass(Append(pending, Head(queue[writer])), elapsed)
    /\ PassFrame /\ UNCHANGED <<rowsWritten, disk, db, failures, discarded>>

\* wait_for times out after flush_seconds, so a flush of pending rows is due.
\* A record may have arrived just then: it stays in the queue.
TimeoutMut ==
    /\ consumer = "get"
    /\ FlushDue(pending, TRUE) /\ NextPass(pending, TRUE)
    /\ BusFrame /\ PassFrame /\ UNCHANGED <<rowsWritten, disk, db, failures, discarded>>
Timeout ==
    /\ consumer = "get"
    /\ NextPass(pending, TRUE)
    /\ BusFrame /\ PassFrame /\ UNCHANGED <<rowsWritten, disk, db, failures, discarded>>

\* executemany.
Insert ==
    /\ consumer = "insert"
    /\ db' = [db EXCEPT !.logs = @ \union ToSet(batch)]
    /\ consumer' = "commit"
    /\ UNCHANGED <<busVars, stop, pending, batch, rowsWritten, disk, connected, caller,
                   failures, discarded>>

\* commit, then rows_written.
CommitMut ==
    /\ consumer = "commit"
    /\ disk' = db
    /\ rowsWritten' = Cardinality(db.logs)
    /\ NextPass(pending, FALSE)
    /\ BusFrame /\ PassFrame /\ UNCHANGED <<db, failures, discarded>>
Commit ==
    /\ consumer = "commit"
    /\ disk' = db
    /\ rowsWritten' = rowsWritten + Len(batch)
    /\ NextPass(pending, FALSE)
    /\ BusFrame /\ PassFrame /\ UNCHANGED <<db, failures, discarded>>

\* What a failing call leaves of the transaction: all of it, or nothing.
AfterFailure(view) == {view, disk}

\* What executemany may have inserted when it raises: the rows before the bad one.
Inserted == {[db EXCEPT !.logs = @ \union ToSet(SubSeq(batch, 1, n))] :
                n \in 0 .. Len(batch) - 1}

\* executemany or commit raises: the batch is forgotten and nothing is rolled
\* back.
FlushFails ==
    /\ failures < MaxFailures
    /\ failures' = failures + 1
    /\ \/ consumer = "insert" /\ \E view \in Inserted : db' \in AfterFailure(view)
       \/ consumer = "commit" /\ db' \in AfterFailure(db)
    /\ discarded' = discarded \union ToSet(batch)
    /\ NextPass(pending, FALSE)
    /\ BusFrame /\ PassFrame /\ UNCHANGED <<rowsWritten, disk>>

\* close() sets the flag; the consumer sees it when its wait ends.
Stop ==
    /\ consumer # "off" /\ ~stop
    /\ stop' = TRUE
    /\ UNCHANGED <<busVars, consumer, pending, batch, rowsWritten, disk, db, connected,
                   caller, failures, discarded>>

\* The rest of close(), once the task has ended: its own _flush finds nothing
\* pending; closing the connection drops an uncommitted transaction.
Disconnect ==
    /\ stop /\ consumer = "done" /\ connected
    /\ connected' = FALSE
    /\ db' = disk
    /\ UNCHANGED <<busVars, consumer, stop, pending, batch, rowsWritten, disk, caller,
                   failures, discarded>>

-----------------------------------------------------------------------------
(* Bookkeeping by other tasks: each call executes a statement, then commits. *)

\* A caller starts a call only on an open database, with the statement's effect
\* on the tables.
Execute(c, tables) ==
    /\ connected /\ caller[c] = "idle"
    /\ db' = tables
    /\ caller' = [caller EXCEPT ![c] = "commit"]
    /\ UNCHANGED <<busVars, consumer, stop, pending, batch, rowsWritten, disk, connected,
                   failures, discarded>>

UpsertDevice(c, d) == Execute(c, [db EXCEPT !.devices = @ \union {d}])

\* INSERT OR REPLACE; the foreign key makes it raise, changing nothing, when
\* the device has no row yet.
StartSession(c, i) ==
    /\ SessionDevice[i] \in db.devices
    /\ Execute(c, [db EXCEPT !.sessions[i] = "open"])

EndSession(c, i) ==
    Execute(c, IF db.sessions[i] = "open" THEN [db EXCEPT !.sessions[i] = "ended"] ELSE db)

CallerCommit(c) ==
    /\ caller[c] = "commit"
    /\ caller' = [caller EXCEPT ![c] = "idle"]
    /\ disk' = IF connected THEN db ELSE disk   \* a closed connection raises
    /\ UNCHANGED <<busVars, consumer, stop, pending, batch, rowsWritten, db, connected,
                   failures, discarded>>

CallerFails(c) ==
    /\ connected /\ failures < MaxFailures
    /\ failures' = failures + 1
    /\ db' \in AfterFailure(db)
    /\ caller' = [caller EXCEPT ![c] = "idle"]
    /\ UNCHANGED <<busVars, consumer, stop, pending, batch, rowsWritten, disk, connected,
                   discarded>>

-----------------------------------------------------------------------------
Produce == Publish /\ UNCHANGED storeVars

Consume == Run \/ Start \/ Get \/ Timeout \/ Insert \/ Commit \/ FlushFails

Bookkeep ==
    \E c \in Caller :
        \/ \E d \in Device : UpsertDevice(c, d)
        \/ \E i \in Session : StartSession(c, i) \/ EndSession(c, i)
        \/ CallerCommit(c)
        \/ CallerFails(c)

Next == Produce \/ Consume \/ Stop \/ Disconnect \/ Bookkeep

\* The event loop resumes the consumer, and a close() that has begun.  get()
\* returns at once from a queue that is not empty, so a timeout cannot beat it
\* for ever.
Spec == /\ Init /\ [][Next]_vars
        /\ WF_vars(Start \/ Timeout \/ Insert \/ Commit \/ FlushFails)
        /\ SF_vars(Get)
        /\ WF_vars(Disconnect)

-----------------------------------------------------------------------------
StoreTypeOK ==
    /\ BusTypeOK
    /\ consumer \in {"off", "started", "get", "insert", "commit", "done"}
    /\ stop \in BOOLEAN /\ connected \in BOOLEAN
    /\ pending \in Seq(Nat) /\ Len(pending) < FlushRows
    /\ batch \in Seq(Nat) /\ Len(batch) <= FlushRows
    /\ rowsWritten \in Nat /\ failures \in Nat
    /\ disk \in Tables /\ db \in Tables
    /\ caller \in [Caller -> {"idle", "commit"}]
    /\ discarded \subseteq 1 .. MaxPublished

\* Every record the store has read is in exactly one place: waiting for a
\* flush, being flushed, counted in rows_written, or in a batch that failed;
\* and a failing call costs at most flush_rows records.
EveryRowInOneStage ==
    /\ taken[writer] = Len(pending) + Len(batch) + rowsWritten + Cardinality(discarded)
    /\ Cardinality(discarded) <= failures * FlushRows

\* The rows that a flush has still to write or is writing.
InHand == ToSet(pending) \union ToSet(batch)

\* As long as the queue has dropped nothing, each record published since run()
\* subscribed is on disk or in hand, or has not been read; and then it is in the
\* queue, unless the store was told to stop.
NothingVanishes ==
    dropped[writer] = 0 /\ joined[writer] # -1 =>
        \A n \in joined[writer] + 1 .. seq :
            \/ n \in InHand \union disk.logs
            \/ n > Settled(writer) /\ (writer \in open => n \in ToSet(queue[writer]))

\* As long as no call has failed, no record vanishes and the rows on disk are
\* the records counted in rows_written, except that a commit by another task
\* may already have committed the batch being flushed; and once the store is
\* closed they are all the records it has read.
StoredIsCounted ==
    failures = 0 =>
        /\ NothingVanishes
        /\ Cardinality(disk.logs \ ToSet(batch)) = rowsWritten
        /\ db.logs \ disk.logs \subseteq ToSet(batch)
        /\ ~connected => Cardinality(disk.logs) = taken[writer]

\* Every record published while the store runs is in the end on disk, unless
\* its queue overflowed, a call failed, or the store is told to stop.
EveryRecordStored ==
    \A n \in 1 .. MaxPublished :
        (writer \in open /\ joined[writer] < n /\ n <= seq)
            ~> (n \in disk.logs \/ dropped[writer] > 0 \/ failures > 0 \/ stop)

\* close() returns: the consumer notices the flag and the database is closed.
CloseCompletes == stop ~> ~connected

\* store.py:174, of a batch whose flush raised: "drop the batch".
DroppedBatchNotStored == discarded \intersect disk.logs = {}
=============================================================================
