---------------------------- MODULE MCLineReader ----------------------------
(***************************************************************************)
(* Captures that start an hour before a new year, before and after the     *)
(* February of a leap year ends, and before summer time ends, in hours;    *)
(* lines up to ten months old or half a day ahead of the host.             *)
(***************************************************************************)
EXTENDS LineReader

MCYear == 2022 .. 2025
MCStart == [y \in MCYear |-> 24 * (365 * (y - 2022) + IF y = 2025 THEN 1 ELSE 0)]
MCSummer == {<<MCStart[2024] + 24 * 90 + 1, MCStart[2024] + 24 * 300 + 1>>}
MCNow == {MCStart[2024] - 1, MCStart[2024] + 24 * 59 - 1, MCStart[2024] + 24 * 300,
          MCStart[2025] - 1, MCStart[2025] + 24 * 59 - 1}
MCLag == {-12, 0, 24, 7200}
=============================================================================
