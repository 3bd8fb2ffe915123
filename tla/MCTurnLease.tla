---------------------------- MODULE MCTurnLease ----------------------------
(* Two turns of two processes; t2's id carries no pid, so it can never be   *)
(* proven dead.                                                             *)
EXTENDS TurnLease, TLC

CONSTANTS t2, t3, p1, p2

MCProcOf == (t2 :> p1) @@ (t3 :> p2)
MCStructured == {t3}
=============================================================================
