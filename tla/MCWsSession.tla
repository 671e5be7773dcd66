---------------------------- MODULE MCWsSession -----------------------------
(***************************************************************************)
(* A page that connects once or twice, with room for one control event and *)
(* one or two waiting records per connection.                              *)
(***************************************************************************)
EXTENDS WsSession

OneSlot == [c \in Sub |-> 1]
TwoSlots == [c \in Sub |-> 2]
=============================================================================
