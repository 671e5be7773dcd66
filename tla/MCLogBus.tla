------------------------------ MODULE MCLogBus ------------------------------
(***************************************************************************)
(* LogBus with a browser tab behind a queue of one record and a writer     *)
(* behind a queue of two, and a ring that is smaller than the log.         *)
(***************************************************************************)
EXTENDS LogBus

CONSTANTS tab, writer

MCQueueSize == (tab :> 1) @@ (writer :> 2)
=============================================================================
