--------------------------- MODULE MCObligations ---------------------------
(* Up to three incarnations of the gateway, two obligations and two calls. *)
EXTENDS Obligations

CONSTANTS r1, r2, e1, e2, e3, c1, c2

\* Both calls deliver one thing; or each its own.
OneId == [c \in Calls |-> r1]
TwoIds == [c \in Calls |-> IF c = c1 THEN r1 ELSE r2]
=============================================================================
