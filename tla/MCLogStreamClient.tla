------------------------- MODULE MCLogStreamClient --------------------------
(***************************************************************************)
(* A client with a buffer of one record and batches of up to two: the      *)
(* second record overflows the buffer, unless the first is in a            *)
(* connection's hands and comes back.  The second record cannot be         *)
(* encoded, and may take the first with it.  Two connections are in use,   *)
(* the current one and one that still reports.                             *)
(* MCLogStreamClientStop.cfg: the same, for stop().                        *)
(***************************************************************************)
EXTENDS LogStreamClient
=============================================================================
