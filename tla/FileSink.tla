------------------------------ MODULE FileSink ------------------------------
(***************************************************************************)
(* The real-time files of desktop/idevicetail/filesink.py, one subscriber  *)
(* of the bus: every record goes to a .log and an .ndjson file, which are  *)
(* renamed once the .log is large.                                         *)
(*                                                                         *)
(* A file is the sequence of the half lines in it: record n is written as  *)
(* its first half, 2n-1, and its second half with the newline, 2n.  So a   *)
(* write that fails can leave a torn line, and what is appended to it is   *)
(* not a line of its own.                                                  *)
(***************************************************************************)
EXTENDS LogBus, FiniteSets

CONSTANTS
    file,          \* the sink's subscription
    DrainMax,      \* how many more records one batch takes (2000)
    RotateSize,    \* ROTATE_BYTES, in half lines of the .log
    Unencodable,   \* records whose text has no UTF-8 encoding (a lone surrogate)
    MaxFailures    \* bound on failing file operations, for model checking only

ASSUME FileSinkAssumption ==
    /\ file \in Sub
    /\ DrainMax \in Nat
    /\ RotateSize \in Nat \ {0}

VARIABLES
    sink,          \* where _consume, or the thread that works for it, is
    stopping,      \* FileSink._stop
    writing,       \* the batch being written
    text,          \* for each kind of file, what the file of that name holds
    archive,       \* for each kind and each number n, the file renamed to .n
    rotations,     \* FileSink._rotations
    linesWritten,  \* FileSink.lines_written
    failures,      \* how many file operations have failed
    given, lost    \* history: the records read from the bus, those whose batch failed

fileVars == <<sink, stopping, writing, text, archive, rotations, linesWritten,
              failures, given, lost>>

Kind == {"log", "ndjson"}
Empty == << >>

FileInit ==
    /\ sink = "off"
    /\ stopping = FALSE
    /\ writing = << >>
    /\ text = [k \in Kind |-> Empty]
    /\ archive = [k \in Kind |-> [n \in 1 .. MaxPublished |-> Empty]]
    /\ rotations = 0
    /\ linesWritten = 0
    /\ failures = 0
    /\ given = {} /\ lost = {}

Halves(records) == [i \in 1 .. 2 * Len(records) |-> 2 * records[(i + 1) \div 2] - (i % 2)]

\* The loop's test of the flag.  On stop the `finally` closes the subscription;
\* what is still in its queue is not read.
NextRoundOnceMut == sink' = "done" /\ open' = open \ {file}
NextRound ==
    IF stopping THEN sink' = "done" /\ open' = open \ {file}
                ELSE sink' = "get" /\ UNCHANGED open

QueuesUntouched == UNCHANGED <<seq, ring, queue, dropped, joined, taken, last>>
FilesUntouched == UNCHANGED <<text, archive, rotations, linesWritten, failures, given, lost>>

\* run(): subscribe at once, then start the task.
RunSink ==
    /\ sink = "off"
    /\ Subscribe(file)
    /\ sink' = "started"
    /\ UNCHANGED <<stopping, writing>> /\ FilesUntouched

\* The first tick of the task, or wait_for times out after half a second.
Round ==
    /\ sink \in {"started", "get"}
    /\ NextRound
    /\ UNCHANGED <<stopping, writing>> /\ QueuesUntouched /\ FilesUntouched

\* sub.get() returns, and get_nowait drains the queue of up to DrainMax more.
Drained == SubSeq(queue[file], 1, Min({DrainMax + 1, Len(queue[file])}))

Read ==
    /\ sink = "get" /\ queue[file] # << >>
    /\ writing' = Drained
    /\ queue' = [queue EXCEPT ![file] = SubSeq(@, Len(Drained) + 1, Len(@))]
    /\ taken' = [taken EXCEPT ![file] = @ + Len(Drained)]
    /\ last' = [last EXCEPT ![file] = Last(Drained)]
    /\ given' = given \union ToSet(Drained)
    /\ sink' = "write"
    /\ UNCHANGED <<seq, ring, open, dropped, joined, stopping, text, archive, rotations,
                   linesWritten, failures, lost>>

-----------------------------------------------------------------------------
(* _write_batch, in a thread of the executor *)

\* Both files are appended to and closed, then the batch is counted.
Written(cut) == [k \in Kind |-> text[k] \o SubSeq(Halves(writing), 1, cut[k])]

Write ==
    /\ sink = "write" /\ ToSet(writing) \intersect Unencodable = {}
    /\ text' = Written([k \in Kind |-> 2 * Len(writing)])
    /\ linesWritten' = linesWritten + Len(writing)
    /\ writing' = << >>
    /\ sink' = "rotate"
    /\ UNCHANGED <<stopping, archive, rotations, failures, given, lost, open>>
    /\ QueuesUntouched

\* The number of records in front of the first that cannot be encoded.
Encodable == Cardinality({i \in 1 .. Len(writing) :
                            \A j \in 1 .. i : writing[j] \notin Unencodable})

\* An OSError: each file keeps what its buffer had written out, the batch is
\* not counted, and the consumer goes on.
DiskFails ==
    /\ sink = "write" /\ failures < MaxFailures
    /\ failures' = failures + 1
    /\ \E cut \in [Kind -> 0 .. 2 * Encodable] : text' = Written(cut)
    /\ lost' = lost \union ToSet(writing)
    /\ writing' = << >>
    /\ NextRound
    /\ UNCHANGED <<stopping, archive, rotations, linesWritten, given>> /\ QueuesUntouched

\* Any other error is not caught: it ends the consumer.  The .log line is
\* written before the .ndjson line, and may be the one that can be encoded.
EncodingFails ==
    /\ sink = "write" /\ Encodable < Len(writing)
    /\ \E line \in {0, 2} :
          text' = Written([k \in Kind |-> 2 * Encodable + IF k = "log" THEN line ELSE 0])
    /\ lost' = lost \union ToSet(writing)
    /\ writing' = << >>
    /\ sink' = "dead" /\ open' = open \ {file}
    /\ UNCHANGED <<stopping, archive, rotations, linesWritten, failures, given>>
    /\ QueuesUntouched

\* _maybe_rotate looks at the size of the .log only.  Each rename may fail by
\* itself (on Windows, while someone has the file open) and the number is used
\* up all the same.
NextRotationMut == 1
NextRotation == rotations + 1
RenamedLogOnlyMut(moved) == moved \ {"ndjson"}
Renamed(moved) == moved

Rotate ==
    /\ sink = "rotate"
    /\ IF Len(text["log"]) < RotateSize
       THEN UNCHANGED <<text, archive, rotations, failures>>
       ELSE /\ rotations' = rotations + 1
            /\ \E moved \in SUBSET Kind :
                 /\ failures' = failures + IF moved = Kind THEN 0 ELSE 1
                 /\ archive' = [k \in Kind |-> IF k \in Renamed(moved)
                                  THEN [archive[k] EXCEPT ![NextRotation] = text[k]]
                                  ELSE archive[k]]
                 /\ text' = [k \in Kind |-> IF k \in Renamed(moved) THEN Empty ELSE text[k]]
            /\ failures' <= MaxFailures
    /\ NextRound
    /\ UNCHANGED <<stopping, writing, linesWritten, given, lost>> /\ QueuesUntouched

-----------------------------------------------------------------------------
\* close() sets the flag, and then waits for the task.
CloseSink ==
    /\ ~stopping
    /\ stopping' = TRUE
    /\ UNCHANGED <<busVars, sink, writing>> /\ FilesUntouched

Consume == Round \/ Read \/ Write \/ DiskFails \/ EncodingFails \/ Rotate

-----------------------------------------------------------------------------
FileTypeOK ==
    /\ BusTypeOK
    /\ sink \in {"off", "started", "get", "write", "rotate", "done", "dead"}
    /\ stopping \in BOOLEAN
    /\ writing \in Seq(Nat) /\ (writing # << >> <=> sink = "write")
    /\ text \in [Kind -> Seq(Nat)]
    /\ archive \in [Kind -> [1 .. MaxPublished -> Seq(Nat)]]
    /\ rotations \in 0 .. MaxPublished
    /\ linesWritten \in Nat /\ failures \in Nat
    /\ given \subseteq Nat /\ lost \subseteq given

Counted == given \ (lost \union ToSet(writing))

\* The halves in the files of a kind, and that the files, archives first and by
\* their number, hold them in order.
InFiles(k) == ToSet(text[k]) \union UNION {ToSet(archive[k][n]) : n \in 1 .. MaxPublished}
Before(first, then) ==
    \A i \in 1 .. Len(first) : \A j \in 1 .. Len(then) : first[i] < then[j]
FilesInOrder(k) ==
    /\ Ascending(text[k])
    /\ \A n \in 1 .. MaxPublished :
          /\ Ascending(archive[k][n]) /\ Before(archive[k][n], text[k])
          /\ \A m \in 1 .. n - 1 : Before(archive[k][m], archive[k][n])

\* Through batches, rotations and failures each kind of file holds, oldest
\* archive first, what was read from the bus in its order and once; the lines
\* counted in lines_written are in both, and a failed write leaves nothing but
\* the lines, or a torn line, of its own batch.
FilesFollowBus ==
    /\ Cardinality(Counted) = linesWritten
    /\ \A k \in Kind :
          /\ FilesInOrder(k)
          /\ {n \in given : {2 * n - 1, 2 * n} \subseteq InFiles(k)} \ lost = Counted

\* As long as no file operation failed the two kinds are rotated together: the
\* archives of one number hold the same records.
ArchivesPair ==
    failures = 0 /\ sink # "dead" => text["log"] = text["ndjson"] /\ archive["log"] = archive["ndjson"]
=============================================================================
