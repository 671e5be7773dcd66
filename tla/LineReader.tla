----------------------------- MODULE LineReader -----------------------------
(***************************************************************************)
(* How CaptureTask._stream_once in desktop/idevicetail/manager.py makes    *)
(* records of the lines that a capture's child prints, with the parsers of *)
(* desktop/idevicetail/normalize.py.                                       *)
(*                                                                         *)
(* A line is one of                                                        *)
(*   "blank"   nothing but white space                                     *)
(*   "json"    an object, with the full date                               *)
(*   "text"    a line that starts with a month, a day and a time           *)
(*   "iso"     a line that starts with the full date and a time            *)
(*   "odd"     any other, such as a broken object                          *)
(*   "cont"    one that starts with white space                            *)
(*   "hollow"  nothing but colour codes                                    *)
(***************************************************************************)
EXTENDS Stamps, Sequences, SequencesExt

CONSTANTS
    Now,       \* the times of the host's clock when the capture starts
    Lag,       \* how far the time of a dated line may be behind the host's clock
    MaxTicks, MaxLines   \* bounds for model checking only

ASSUME ClockAssumption ==
    /\ Now \subseteq Int /\ Lag \subseteq Int /\ MaxTicks \in Nat
    /\ \A n \in Now, k \in 0 .. MaxTicks :
          /\ Known(Local(n + k)) /\ Known(Local(n + k) - 366 * Day)
          /\ \A lag \in Lag : Known(Local(n + k - lag))

VARIABLES
    now,       \* the host's clock
    ticks,
    read,      \* history: the lines read, each with its time and when it came
    pending,   \* the record that may still be continued, << >> if there is none
    out,       \* the records published
    ended      \* "no", "eof", or "cut": an overlong line, or a cancellation

readerVars == <<now, ticks, read, pending, out, ended>>

DatedKind == {"json", "text", "iso"}
LineKind == DatedKind \union {"blank", "odd", "cont", "hollow"}

ReaderInit ==
    /\ now \in Now /\ ticks = 0
    /\ read = << >> /\ pending = << >> /\ out = << >>
    /\ ended = "no"

Tick ==
    /\ ticks < MaxTicks /\ ticks' = ticks + 1
    /\ now' = now + 1
    /\ UNCHANGED <<read, pending, out, ended>>

\* The record of the next line by itself.
Record(ts) == << [lines |-> << Len(read) + 1 >>, ts |-> ts] >>

\* parse_syslog_line: a line that it cannot match is kept, under the host's time.
Parsed(kind, t) ==
    CASE kind = "text" -> Record(ParseTs(Stamp(Local(t)), now))
      [] kind = "iso" -> Record(ParseIso(Local(t)))
      [] kind = "hollow" -> << >>
      [] OTHER -> Record(now)

Blank == UNCHANGED <<pending, out>>

DropPendingMut == out
PublishFirst == out \o pending

\* oslog_json_to_record: _parse_ts_flexible reads a full date, like ParseIso.
Json(t) ==
    /\ out' = PublishFirst \o Record(ParseIso(Local(t)))
    /\ pending' = << >>

JoinsAnyMut(kind) == kind \in {"cont", "odd"} /\ pending # << >>
Continues(kind) == kind = "cont" /\ pending # << >>

Continue ==
    /\ pending' = << [pending[1] EXCEPT !.lines = Append(@, Len(read) + 1)] >>
    /\ UNCHANGED out

Text(kind, t) ==
    /\ out' = PublishFirst
    /\ pending' = Parsed(kind, t)

ReadLine(kind, t) ==
    /\ ended = "no" /\ Len(read) < MaxLines
    /\ CASE kind = "blank" -> Blank
         [] kind = "json" -> Json(t)
         [] Continues(kind) -> Continue
         [] OTHER -> Text(kind, t)
    /\ read' = Append(read, [kind |-> kind, time |-> t, came |-> now])
    /\ UNCHANGED <<now, ticks, ended>>

\* The end of the child's output ...
EndOfOutput ==
    /\ ended = "no" /\ ended' = "eof"
    /\ out' = PublishFirst /\ pending' = << >>
    /\ UNCHANGED <<now, ticks, read>>

\* ... and what raises in the `async for`: the pending record is gone.
Cut ==
    /\ ended = "no" /\ ended' = "cut"
    /\ pending' = << >>
    /\ UNCHANGED <<now, ticks, read, out>>

ReaderNext ==
    \/ Tick
    \/ \E kind \in LineKind \ DatedKind : ReadLine(kind, now)
    \/ \E kind \in DatedKind, lag \in Lag : ReadLine(kind, now - lag)
    \/ EndOfOutput \/ Cut

ReaderSpec == ReaderInit /\ [][ReaderNext]_readerVars

-----------------------------------------------------------------------------
Records == out \o pending
Kept == {i \in DOMAIN read : read[i].kind \notin {"blank", "hollow"}}
Opens(i) == read[i].kind \in {"text", "iso", "odd", "cont"}

Ascending(lines) == \A i, j \in 1 .. Len(lines) : i < j => lines[i] < lines[j]
LinesOf(r) == ToSet(Records[r].lines)
InRecords == UNION {LinesOf(r) : r \in DOMAIN Records}

\* Every line that says anything is in one record, in the order of the lines,
\* whatever kinds of output are mixed; only what ends the capture by force takes
\* the last record with it.
EveryLineKept ==
    /\ \A r \in DOMAIN Records : Ascending(Records[r].lines)
    /\ \A r, s \in DOMAIN Records : r < s => \A i \in LinesOf(r), j \in LinesOf(s) : i < j
    /\ InRecords \subseteq Kept
    /\ ended # "cut" => InRecords = Kept
    /\ \A i, j \in Kept \ InRecords : i < j => read[j].kind = "cont"

\* A record has one line and those that continue it: nothing comes between them,
\* and nothing that could continue it is left out.
RecordsAreWhole ==
    \A r \in DOMAIN Records :
        LET lines == Records[r].lines
            end == Last(lines)
            follows(i) == /\ i > end /\ read[i].kind = "cont"
                          /\ \A n \in end + 1 .. i - 1 : read[n].kind = "blank"
        IN /\ \A n \in 2 .. Len(lines) : read[lines[n]].kind = "cont"
           /\ Len(lines) > 1 => Opens(lines[1])
           /\ Opens(lines[1]) /\ ended # "cut" => \A i \in Kept : ~follows(i)

\* The moment t, or the earlier one at which the wall clock showed the same,
\* where the end of summer time repeats an hour.
SameReading(ts, t) == ts = t \/ (ts = t - Shift /\ Local(ts) = Local(t))

\* A line whose date says which moment it means, to the year.
HasTime(line) ==
    /\ line.kind \in DatedKind
    /\ line.kind = "text" => Datable(Local(line.time), Local(line.came))

\* A record has the time of its first line, also across a new year, a February 29
\* and a change of the clocks, for every line that the host can date; only in
\* the hour that the wall clock repeats is it taken for the first of the two.
StampsAreTrue ==
    \A r \in DOMAIN Records :
        LET line == read[Records[r].lines[1]] IN
        HasTime(line) => SameReading(Records[r].ts, line.time)

\* normalize.py:83: "Guard against year rollover near Jan 1."
RolloverIsGuarded ==
    \A r \in DOMAIN Records :
        LET line == read[Records[r].lines[1]] IN
        line.kind = "text" /\ line.time - line.came \in -Day .. Day
            => SameReading(Records[r].ts, line.time)
=============================================================================
