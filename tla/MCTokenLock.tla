----------------------------- MODULE MCTokenLock -----------------------------
(* Values of the constants of TokenLock for TLC.                             *)
EXTENDS TokenLock, TLC

CONSTANTS a, b, c1, p1, p2, p3

\* every contender in a process of its own
Apart == a :> p1 @@ b :> p2 @@ c1 :> p3

ApartTwo == a :> p1 @@ b :> p2

\* a and b are worker threads of one process
Together == a :> p1 @@ b :> p1 @@ c1 :> p2
=============================================================================
