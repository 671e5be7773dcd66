----------------------------- MODULE LogFanout ------------------------------
(***************************************************************************)
(* What the bus promises, without queues: one endless log of which only    *)
(* the length matters, and for each reader a cursor into it.  A reader     *)
(* that falls more than Window[s] records behind is moved forward, and the *)
(* records it skips are counted.                                           *)
(***************************************************************************)
EXTENDS Integers

CONSTANTS Sub, Window

VARIABLES
    length,    \* records published so far
    reading,   \* the readers attached
    cursor,    \* for each reader the last record it read or skipped, -1 before it joins
    seen,      \* for each reader the last record it read, 0 before
    skipped    \* for each reader how many records it skipped

fanVars == <<length, reading, cursor, seen, skipped>>

Init ==
    /\ length = 0
    /\ reading = {}
    /\ cursor = [s \in Sub |-> -1]
    /\ seen = [s \in Sub |-> 0]
    /\ skipped = [s \in Sub |-> 0]

\* The log grows whatever its readers do; a reader further behind than its
\* window skips exactly one record.
Grow ==
    /\ length' = length + 1
    /\ LET behind == {s \in reading : length' - cursor[s] > Window[s]}
       IN  /\ cursor' = [s \in Sub |-> IF s \in behind THEN cursor[s] + 1 ELSE cursor[s]]
           /\ skipped' = [s \in Sub |-> IF s \in behind THEN skipped[s] + 1 ELSE skipped[s]]
    /\ UNCHANGED <<reading, seen>>

Attach(s) ==
    /\ cursor[s] = -1
    /\ reading' = reading \union {s}
    /\ cursor' = [cursor EXCEPT ![s] = length]
    /\ UNCHANGED <<length, seen, skipped>>

\* An attached reader reads the record after its cursor.
Read(s) ==
    /\ s \in reading
    /\ cursor[s] # -1
    /\ cursor[s] < length
    /\ cursor' = [cursor EXCEPT ![s] = @ + 1]
    /\ seen' = [seen EXCEPT ![s] = cursor'[s]]
    /\ UNCHANGED <<length, reading, skipped>>

Detach(s) ==
    /\ s \in reading
    /\ reading' = reading \ {s}
    /\ UNCHANGED <<length, cursor, seen, skipped>>

Next ==
    \/ Grow
    \/ \E s \in Sub : Attach(s) \/ Read(s) \/ Detach(s)

Spec == Init /\ [][Next]_fanVars
=============================================================================
