--------------------------- MODULE MCAgentServer ----------------------------
(***************************************************************************)
(* Two connections of the app on one phone, or of clients at one address   *)
(* that do not say who they are.                                           *)
(***************************************************************************)
EXTENDS AgentServer, TLC

CONSTANTS phone, address, s1, u1, u2, c1, c2

MCHellos == {[device |-> phone, session |-> s1]}
MCUnnamed == c1 :> [device |-> address, session |-> u1]
          @@ c2 :> [device |-> address, session |-> u2]
=============================================================================
