------------------------------ MODULE MCStore -------------------------------
(***************************************************************************)
(* The store with one capture task doing its bookkeeping.                  *)
(***************************************************************************)
EXTENDS Store

MCQueueSize == [s \in Sub |-> 2]
CONSTANTS iphone, s1
MCSessionDevice == s1 :> iphone
=============================================================================
