----------------------------- MODULE MCCronFire -----------------------------
(* Two processes on one job that users edit, with stalls, faults and a      *)
(* crash, and without; two processes on two jobs with a crash; and, for     *)
(* what does not hold, one job with updates or with stalls.                 *)
EXTENDS CronFire

AllEdits == {"pause", "resume", "update", "remove"}

Rough == [jobs |-> {1}, edits |-> AllEdits, stalls |-> TRUE, faults |-> TRUE,
          fires |-> 3, crashes |-> 1, until |-> 4]
Calm  == [jobs |-> {1, 2}, edits |-> {}, stalls |-> FALSE, faults |-> FALSE,
          fires |-> 3, crashes |-> 1, until |-> 4]
Edited == [Rough EXCEPT !.stalls = FALSE, !.faults = FALSE, !.crashes = 0, !.fires = 2]
Still == [jobs |-> {1}, edits |-> {}, stalls |-> FALSE, faults |-> FALSE,
          fires |-> 3, crashes |-> 0, until |-> 4]

AllWorlds == {Rough, Edited, Calm}
Edges == {[Still EXCEPT !.edits = {"update"}, !.until = 6],
          [Still EXCEPT !.stalls = TRUE, !.until = 6]}
=============================================================================
