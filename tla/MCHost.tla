------------------------------- MODULE MCHost -------------------------------
(***************************************************************************)
(* The host with batches of up to two records, a .log that is large after  *)
(* two half lines, one disk failure, and a last record that has no UTF-8   *)
(* encoding.                                                               *)
(***************************************************************************)
EXTENDS Host

MCQueueSize == [s \in Sub |-> 2]
=============================================================================
