---------------------------- MODULE MCApprovals ----------------------------
(* Three gate calls, two of them for the same command. *)
EXTENDS Approvals

CONSTANTS a1, a2, a3, rm, dd

MCAsks == {a1, a2, a3}
MCCommands == {rm, dd}
MCWants == [a \in MCAsks |-> IF a = a3 THEN dd ELSE rm]
=============================================================================
