---------------------------- MODULE MCDiscovery -----------------------------
(***************************************************************************)
(* One phone with an Apple service and an agent app that has a beacon.     *)
(***************************************************************************)
EXTENDS Discovery, TLC

CONSTANTS phone, mobdev, beacon, app

MCPhone == [s \in Service |-> phone]
MCTxtId == mobdev :> mobdev @@ beacon :> app
MCAgentId == phone :> app
=============================================================================
