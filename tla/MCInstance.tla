----------------------------- MODULE MCInstance -----------------------------
(* Two plain starters and one with --replace. *)
EXTENDS Instance

CONSTANTS p1, p2, r1

MCProcs == {p1, p2, r1}
MCReplacers == {r1}
=============================================================================
