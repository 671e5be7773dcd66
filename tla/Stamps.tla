------------------------------- MODULE Stamps -------------------------------
(***************************************************************************)
(* How _parse_ts in desktop/idevicetail/normalize.py dates a line: one     *)
(* that says "Jun 22 10:15:32", whose year is guessed from the host's      *)
(* clock, and one with the full date.                                      *)
(*                                                                         *)
(* Times are integers, Day of them to a day: moments, which the program    *)
(* counts from the epoch, and readings of the wall clock, which say what   *)
(* the moment would be in standard time.  A stamp is the reading since the *)
(* new year in a calendar that always has a February 29, which is what a   *)
(* month and a day tell.  The phone and the host are in one time zone.     *)
(***************************************************************************)
EXTENDS Integers

CONSTANTS
    Day,        \* the units of a day
    Year,       \* the years there are
    Leap,       \* those with a February 29
    YearStart,  \* when each of them starts, by the wall clock
    Summer,     \* when summer time starts and ends: pairs of moments
    Shift       \* how far the wall clock is ahead then

Length(y) == IF y \in Leap THEN 366 * Day ELSE 365 * Day

ASSUME CalendarAssumption ==
    /\ Day \in Nat \ {0}
    /\ Year \subseteq Int /\ Leap \subseteq Year
    /\ YearStart \in [Year -> Int]
    /\ \A y, z \in Year : y < z => YearStart[y] + Length(y) <= YearStart[z]
    /\ \A y \in Year : y + 1 \in Year => YearStart[y + 1] = YearStart[y] + Length(y)
    /\ \A y, z \in Year : y < z => z - 1 \in Year
    /\ Summer \subseteq Int \X Int /\ Shift \in Nat \ {0}

SummerTime(t) == \E s \in Summer : s[1] <= t /\ t < s[2]

\* datetime.now(), and what the phone prints: the wall clock at the moment t.
Local(t) == IF SummerTime(t) THEN t + Shift ELSE t

\* dt.timestamp(), of the reading w.  It is the earlier moment when the clock
\* shows w twice, and w itself, in standard time, when it never does.
Timestamp(w) == IF SummerTime(w - Shift) THEN w - Shift ELSE w

Within(t, y) == YearStart[y] <= t /\ t < YearStart[y] + Length(y)
Known(t) == \E y \in Year : Within(t, y)
YearOf(t) == CHOOSE y \in Year : Within(t, y)

Feb29 == 59 * Day

\* What a line says of the reading w without its year.
Stamp(w) ==
    LET y == YearOf(w)
        passed == w - YearStart[y]
    IN IF y \in Leap \/ passed < Feb29 THEN passed ELSE passed + Day

\* datetime(...) and replace(year=...), which raise for a February 29 that the
\* year does not have.
Exists(s, y) == y \in Leap \/ s < Feb29 \/ s >= Feb29 + Day
Dated(s, y) == YearStart[y] + IF y \in Leap \/ s < Feb29 THEN s ELSE s - Day

\* The year is this one, or the one before if that is more than a day ahead of
\* the reading `now`.
AheadMut(s, now) == Dated(s, YearOf(now)) > now + 366 * Day
Ahead(s, now) == Dated(s, YearOf(now)) - now > Day

\* A date that does not exist becomes the host's time.
ParseTs(s, now) ==
    LET y == YearOf(Local(now))
        year == IF Ahead(s, Local(now)) THEN y - 1 ELSE y
    IN IF Exists(s, y) /\ Exists(s, year) THEN Timestamp(Dated(s, year)) ELSE now

\* The branch for a full date: the reading w is what strptime returns.
ParseIso(w) == Timestamp(w)

\* The readings whose year the host can tell: ten months back, or no more than a
\* day ahead of its clock in the year that it shows.
Datable(w, now) ==
    \/ now - 300 * Day <= w /\ w <= now
    \/ YearOf(w) = YearOf(now) /\ w <= now + Day
=============================================================================
