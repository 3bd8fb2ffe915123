--------------------------- MODULE Instance_proofs ---------------------------
(* Proofs about the processes of one home of Instance, for any number of     *)
(* them, of replacers and of faults.  That the runtime lock is exclusive is  *)
(* inductive as it stands.  The handover without faults is not: that nobody  *)
(* gives way for nothing needs to be known who has the lock (Locked), whom   *)
(* the PID file and the records taken of it name (Filed, Known), and that    *)
(* whoever was signalled is waited for; and a planned takeover that a signal *)
(* arrives once, while the marker names its target (Planned).                *)
EXTENDS Instance, TLAPS

(* What Exclusive says of one process. *)
Holds(p) ==
    /\ pc[p] \in {"rollback", "end", "create", "write"} => lock = p
    /\ pc[p] \in {"boot", "serving"} /\ drain[p] = "no" => lock = p

(* The variables of Instance keep their types: the record a process has read *)
(* names a process, a dead incarnation or nobody, and what it marks, signals *)
(* and kills by that record is a process (takeover.ts).                      *)
LEMMA TypeStep == TypeOK /\ [Next]_vars => TypeOK'
<1> USE InstanceAssumption, NobodyAssumption
<1> SUFFICES ASSUME TypeOK, [Next]_vars PROVE TypeOK'
  OBVIOUS
<1>1. ASSUME NEW p \in Procs, Launch(p) PROVE TypeOK'
  BY <1>1 DEF Launch, Goto, TypeOK, None, Empty
<1>2. ASSUME NEW p \in Procs, Read(p) PROVE TypeOK'
  BY <1>2 DEF Read, Vacant, Goto, TypeOK, None, Empty
<1>3. ASSUME NEW p \in Procs, Probe(p) PROVE TypeOK'
  BY <1>3 DEF Probe, Goto, TypeOK, None, Empty
<1>4. ASSUME NEW p \in Procs, Rollback(p) PROVE TypeOK'
  BY <1>4 DEF Rollback, Stale, Vacant, Goto, TypeOK, None, Empty
<1>5. ASSUME NEW p \in Procs, Vet(p) PROVE TypeOK'
  BY <1>5 DEF Vet, Stale, Vacant, Alive, Goto, TypeOK, None, Empty
<1>6. ASSUME NEW p \in Procs, Clean(p) PROVE TypeOK'
  BY <1>6 DEF Clean, Vacant, Goto, TypeOK, None, Empty
<1>7. ASSUME NEW p \in Procs, Mark(p) PROVE TypeOK'
  BY <1>7 DEF Mark, Goto, TypeOK, None, Empty
<1>8. ASSUME NEW p \in Procs, Term(p) PROVE TypeOK'
  BY <1>8 DEF Term, Vacant, Alive, Goto, TypeOK, None, Empty
<1>9. ASSUME NEW p \in Procs, Exited(p) PROVE TypeOK'
  BY <1>9 DEF Exited, Alive, Goto, TypeOK, None, Empty
<1>10. ASSUME NEW p \in Procs, Kill(p) PROVE TypeOK'
  BY <1>10 DEF Kill, Alive, Goto, TypeOK, None, Empty
<1>11. ASSUME NEW p \in Procs, Sweep(p) PROVE TypeOK'
  BY <1>11 DEF Sweep, Vacant, Goto, TypeOK, None, Empty
<1>12. ASSUME NEW p \in Procs, Acquire(p) PROVE TypeOK'
  BY <1>12 DEF Acquire, Goto, TypeOK, None, Empty
<1>13. ASSUME NEW p \in Procs, Create(p) PROVE TypeOK'
  BY <1>13 DEF Create, Goto, TypeOK, None, Empty
<1>14. ASSUME NEW p \in Procs, Write(p) PROVE TypeOK'
  BY <1>14 DEF Write, Goto, TypeOK, None, Empty
<1>15. ASSUME NEW p \in Procs, Boot(p) PROVE TypeOK'
  BY <1>15 DEF Boot, Goto, TypeOK, None, Empty
<1>16. ASSUME NEW p \in Procs, Abort(p) PROVE TypeOK'
  BY <1>16 DEF Abort, Release, Goto, TypeOK, None, Empty
<1>17. ASSUME NEW p \in Procs, Drain(p) PROVE TypeOK'
  BY <1>17 DEF Drain, Awaits, TypeOK, None, Empty
<1>18. ASSUME NEW p \in Procs, Drained(p) PROVE TypeOK'
  BY <1>18 DEF Drained, Release, Awaits, TypeOK, None, Empty
<1>19. ASSUME NEW p \in Procs, Exit(p) PROVE TypeOK'
  BY <1>19 DEF Exit, Goto, TypeOK, None, Empty
<1>20. ASSUME NEW p \in Procs, FastExit(p) PROVE TypeOK'
  BY <1>20 DEF FastExit, Release, Awaits, Goto, TypeOK, None, Empty
<1>21. ASSUME NEW p \in Procs, Killed(p) PROVE TypeOK'
  BY <1>21 DEF Killed, Dies, Alive, Goto, TypeOK, None, Empty
<1>22. ASSUME NEW p \in Procs, GiveUp(p) PROVE TypeOK'
  BY <1>22 DEF GiveUp, Alive, Goto, TypeOK, None, Empty
<1>23. ASSUME NEW p \in Procs, BootFails(p) PROVE TypeOK'
  BY <1>23 DEF BootFails, Goto, TypeOK, None, Empty
<1>24. ASSUME NEW p \in Procs, Crash(p) PROVE TypeOK'
  BY <1>24 DEF Crash, Dies, Alive, Goto, TypeOK, None, Empty
<1>25. ASSUME NEW p \in Procs, OperatorSignal(p) PROVE TypeOK'
  BY <1>25 DEF OperatorSignal, Alive, TypeOK, None, Empty
<1>28. ASSUME NEW p \in Procs, LastProbe(p) PROVE TypeOK'
  BY <1>28 DEF LastProbe, Goto, TypeOK, None, Empty
<1>29. ASSUME NEW p \in Procs, LastRollback(p) PROVE TypeOK'
  BY <1>29 DEF LastRollback, Goto, TypeOK, None, Empty
<1>26. CASE UNCHANGED vars
  BY <1>26 DEF TypeOK, vars
<1>27. CASE AtRest
  BY <1>26, <1>27 DEF AtRest
<1> QED
  BY <1>1, <1>2, <1>3, <1>4, <1>5, <1>6, <1>7, <1>8, <1>9, <1>10, <1>11, <1>12, <1>13, <1>14,
     <1>15, <1>16, <1>17, <1>18, <1>19, <1>20, <1>21, <1>22, <1>23, <1>24, <1>25, <1>26,
     <1>27, <1>28, <1>29 DEF Next, Progress

(* So they have at the start.                                                *)
LEMMA InitTyped == Init => TypeOK
<1> SUFFICES ASSUME Init PROVE TypeOK
  OBVIOUS
<1>1. misled \in BOOLEAN
  BY Zenon DEF Init
<1>2. stage \in [Procs -> {"check", "guard", "lock", "report"}]
  BY DEF Init
<1> QED  BY <1>1, <1>2, InstanceAssumption DEF Init, TypeOK, None, Empty

(* No step of one process takes the runtime lock from another that holds it  *)
(* (RuntimeLock.acquire, release, isRuntimeLockActive), and none leaves a    *)
(* process at work on a claim that it does not hold.                         *)
LEMMA LockStep == Exclusive /\ [Next]_vars => \A q \in Procs : Holds(q)'
<1> USE InstanceAssumption, NobodyAssumption
<1> SUFFICES ASSUME Exclusive, [Next]_vars, NEW q \in Procs PROVE Holds(q)'
  OBVIOUS
<1>0. TypeOK /\ \A r \in Procs : Holds(r)
  BY DEF Exclusive, Holds
<1>1. ASSUME NEW p \in Procs, Launch(p) PROVE Holds(q)'
  BY <1>0, <1>1 DEF Launch, Goto, Holds, TypeOK, None, Empty
<1>2. ASSUME NEW p \in Procs, Read(p) PROVE Holds(q)'
  BY <1>0, <1>2 DEF Read, Vacant, Goto, Holds, TypeOK, None, Empty
<1>3. ASSUME NEW p \in Procs, Probe(p) PROVE Holds(q)'
  BY <1>0, <1>3 DEF Probe, Goto, Holds, TypeOK, None, Empty
<1>4. ASSUME NEW p \in Procs, Rollback(p) PROVE Holds(q)'
  BY <1>0, <1>4 DEF Rollback, Stale, Vacant, Goto, Holds, TypeOK, None, Empty
<1>5. ASSUME NEW p \in Procs, Vet(p) PROVE Holds(q)'
  BY <1>0, <1>5 DEF Vet, Stale, Vacant, Alive, Goto, Holds, TypeOK, None, Empty
<1>6. ASSUME NEW p \in Procs, Clean(p) PROVE Holds(q)'
  BY <1>0, <1>6 DEF Clean, Vacant, Goto, Holds, TypeOK, None, Empty
<1>7. ASSUME NEW p \in Procs, Mark(p) PROVE Holds(q)'
  BY <1>0, <1>7 DEF Mark, Goto, Holds, TypeOK, None, Empty
<1>8. ASSUME NEW p \in Procs, Term(p) PROVE Holds(q)'
  BY <1>0, <1>8 DEF Term, Vacant, Alive, Goto, Holds, TypeOK, None, Empty
<1>9. ASSUME NEW p \in Procs, Exited(p) PROVE Holds(q)'
  BY <1>0, <1>9 DEF Exited, Alive, Goto, Holds, TypeOK, None, Empty
<1>10. ASSUME NEW p \in Procs, Kill(p) PROVE Holds(q)'
  BY <1>0, <1>10 DEF Kill, Alive, Goto, Holds, TypeOK, None, Empty
<1>11. ASSUME NEW p \in Procs, Sweep(p) PROVE Holds(q)'
  BY <1>0, <1>11 DEF Sweep, Vacant, Goto, Holds, TypeOK, None, Empty
<1>12. ASSUME NEW p \in Procs, Acquire(p) PROVE Holds(q)'
  BY <1>0, <1>12 DEF Acquire, Goto, Holds, TypeOK, None, Empty
<1>13. ASSUME NEW p \in Procs, Create(p) PROVE Holds(q)'
  BY <1>0, <1>13 DEF Create, Goto, Holds, TypeOK, None, Empty
<1>14. ASSUME NEW p \in Procs, Write(p) PROVE Holds(q)'
  BY <1>0, <1>14 DEF Write, Goto, Holds, TypeOK, None, Empty
<1>15. ASSUME NEW p \in Procs, Boot(p) PROVE Holds(q)'
  BY <1>0, <1>15 DEF Boot, Goto, Holds, TypeOK, None, Empty
<1>16. ASSUME NEW p \in Procs, Abort(p) PROVE Holds(q)'
  BY <1>0, <1>16 DEF Abort, Release, Goto, Holds, TypeOK, None, Empty
<1>17. ASSUME NEW p \in Procs, Drain(p) PROVE Holds(q)'
  BY <1>0, <1>17 DEF Drain, Awaits, Holds, TypeOK, None, Empty
<1>18. ASSUME NEW p \in Procs, Drained(p) PROVE Holds(q)'
  BY <1>0, <1>18 DEF Drained, Release, Awaits, Holds, TypeOK, None, Empty
<1>19. ASSUME NEW p \in Procs, Exit(p) PROVE Holds(q)'
  BY <1>0, <1>19 DEF Exit, Goto, Holds, TypeOK, None, Empty
<1>20. ASSUME NEW p \in Procs, FastExit(p) PROVE Holds(q)'
  BY <1>0, <1>20 DEF FastExit, Release, Awaits, Goto, Holds, TypeOK, None, Empty
<1>21. ASSUME NEW p \in Procs, Killed(p) PROVE Holds(q)'
  BY <1>0, <1>21 DEF Killed, Dies, Alive, Goto, Holds, TypeOK, None, Empty
<1>22. ASSUME NEW p \in Procs, GiveUp(p) PROVE Holds(q)'
  BY <1>0, <1>22 DEF GiveUp, Alive, Goto, Holds, TypeOK, None, Empty
<1>23. ASSUME NEW p \in Procs, BootFails(p) PROVE Holds(q)'
  BY <1>0, <1>23 DEF BootFails, Goto, Holds, TypeOK, None, Empty
<1>24. ASSUME NEW p \in Procs, Crash(p) PROVE Holds(q)'
  BY <1>0, <1>24 DEF Crash, Dies, Alive, Goto, Holds, TypeOK, None, Empty
<1>25. ASSUME NEW p \in Procs, OperatorSignal(p) PROVE Holds(q)'
  BY <1>0, <1>25 DEF OperatorSignal, Alive, Holds, TypeOK, None, Empty
<1>28. ASSUME NEW p \in Procs, LastProbe(p) PROVE Holds(q)'
  BY <1>0, <1>28 DEF LastProbe, Goto, Holds, TypeOK, None, Empty
<1>29. ASSUME NEW p \in Procs, LastRollback(p) PROVE Holds(q)'
  BY <1>0, <1>29 DEF LastRollback, Goto, Holds, TypeOK, None, Empty
<1>26. CASE UNCHANGED vars
  BY <1>0, <1>26 DEF Holds, vars
<1>27. CASE AtRest
  BY <1>26, <1>27 DEF AtRest
<1> QED
  BY <1>1, <1>2, <1>3, <1>4, <1>5, <1>6, <1>7, <1>8, <1>9, <1>10, <1>11, <1>12, <1>13, <1>14,
     <1>15, <1>16, <1>17, <1>18, <1>19, <1>20, <1>21, <1>22, <1>23, <1>24, <1>25, <1>26,
     <1>27, <1>28, <1>29 DEF Next, Progress

(* Whoever has claimed the home and has not begun to give it up holds the    *)
(* runtime lock, for any number of starters and replacers and any faults.    *)
THEOREM ExclusiveHolds == Spec => []Exclusive
<1>1. Init => Exclusive
  BY InitTyped, NobodyAssumption DEF Init, Exclusive, None, Empty
<1>2. Exclusive /\ [Next]_vars => Exclusive'
  <2> SUFFICES ASSUME Exclusive, [Next]_vars PROVE Exclusive'
    OBVIOUS
  <2>1. TypeOK'
    BY TypeStep DEF Exclusive
  <2>2. \A q \in Procs : Holds(q)'
    BY LockStep
  <2> QED
    BY <2>1, <2>2 DEF Exclusive, Holds
<1> QED
  BY <1>1, <1>2, PTL DEF Spec

(* So no two processes are past their claim at a time: the second one starts *)
(* no adapter before the first has begun its drain.                          *)
Claimed(p) == pc[p] \in {"create", "write"} \/ (pc[p] \in {"boot", "serving"} /\ drain[p] = "no")
OneClaim == \A p, q \in Procs : Claimed(p) /\ Claimed(q) => p = q

(* The claim is exclusive too.                                               *)
THEOREM OneClaimHolds == Spec => []OneClaim
<1>1. Exclusive => OneClaim
  BY DEF Exclusive, OneClaim, Claimed
<1> QED
  BY <1>1, ExclusiveHolds, PTL

----------------------------------------------------------------------------
(* Orderly handover: the inductive invariant *)

(* A process that has gone through its claim, and one that has a signal of   *)
(* any kind, or the end of its drain, before it or behind it.                *)
Up(p) == pc[p] \in {"boot", "serving"}
Signalled(p) == due[p] > 0 \/ signals[p] > 0 \/ drain[p] # "no" \/ p \in doomed

(* Only a replacer in its first stage replaces, and it replaces a process;   *)
(* the home is claimed in the second stage.                                  *)
Replacing == {"mark", "term", "wait", "confirm", "sweep"}
Staged(p) ==
    /\ pc[p] \in Replacing
          => stage[p] = "guard" /\ p \in Replacers /\ seen[p] \in Procs
    /\ pc[p] \in {"acquire", "create", "write", "boot", "serving"}
          => stage[p] = "lock"
    /\ pc[p] = "clean" => stage[p] \in {"guard", "lock"}
    /\ pc[p] = "abort" => stage[p] = "lock" \/ seen[p] \in Procs
    /\ stage[p] = "report"
          => pc[p] \in {"read", "probe", "rollback", "vet", "last", "end", "dead"}
    /\ pc[p] \in {"last", "end"} => stage[p] = "report"

(* A process keeps the lock until its drain is over, and only who probes, or *)
(* has claimed the home, has it.                                             *)
Keeps(p) == Up(p) /\ drain[p] # "done" => lock = p
Locked ==
    lock # None => /\ pc[lock] \in {"rollback", "end", "create", "write", "boot", "serving"}
                   /\ drain[lock] # "done"

(* Only who has written its record is read, marked and signalled, and the    *)
(* replacer that has done so waits for as long as it lives.                  *)
Waits(r, p) == pc[r] \in {"wait", "confirm"} /\ seen[r] = p
Known(p) ==
    /\ seen[p] \in Procs => /\ Up(seen[p]) \/ pc[seen[p]] = "dead"
                            /\ stage[seen[p]] = "lock"
    /\ drain[p] # "no" => signals[p] > 0
    /\ Signalled(p) => Up(p) \/ pc[p] = "dead"
    /\ Up(p) /\ Signalled(p) => \E r \in Procs : Waits(r, p)

(* The PID file names a process that has the lock, or one that was killed    *)
(* and whose replacer is about to sweep the file; or it is empty while its   *)
(* creator writes; or it is left over from before the history, and then      *)
(* nobody has come to the second stage.                                      *)
Recorded(p) ==
    /\ stage[p] = "lock"
    /\ \/ Up(p) /\ drain[p] # "done"
       \/ /\ pc[p] = "dead"
          /\ \E r \in Procs : seen[r] = p /\ pc[r] \in {"wait", "confirm", "sweep"}
Filed ==
    /\ \A p \in Procs : pidfile = p => Recorded(p)
    /\ pidfile = Empty => \E p \in Procs : pc[p] = "write"
    /\ pidfile = Ghost => \A p \in Procs : stage[p] \in {"check", "guard"}

(* Somebody is on its way or serves, and is left alone: unless a report has  *)
(* misled the last one.                                                      *)
Going(p) ==
    /\ pc[p] \notin {"off", "abort", "dead"} /\ stage[p] # "report"
    /\ ~Signalled(p)
SomeoneStays == (\A p \in Procs : pc[p] = "off") \/ \E p \in Procs : Going(p)

(* A single replacer signals once, under its marker.                         *)
HasSent(r) == stage[r] \in {"lock", "report"} \/ pc[r] \in {"wait", "confirm", "sweep"}
Sent == \E r \in Replacers : HasSent(r)
Planned ==
    /\ \A p \in Procs : /\ code[p] # "failed"
                        /\ due[p] + signals[p] <= 1
                        /\ due[p] + signals[p] = 1 => Sent
                        /\ Up(p) /\ due[p] = 1 => marker = p
    /\ \A r \in Replacers : pc[r] = "term" => marker = seen[r]

(* Without a fault: all of it.                                               *)
Calm ==
    /\ \A p \in Procs : Staged(p) /\ Keeps(p) /\ Known(p)
    /\ Locked /\ Filed
    /\ ~misled => SomeoneStays
    /\ OneReplacer => Planned
Inv == Exclusive /\ (faults = 0 => Calm)

----------------------------------------------------------------------------
(* The steps without a fault *)

(* By what they are about: looking for another instance, replacing it,       *)
(* claiming the home, the drain, and the end of a process.                   *)
Looks(p) == Launch(p) \/ Read(p) \/ Probe(p) \/ Rollback(p) \/ Vet(p) \/ Clean(p)
Replaces(p) == Mark(p) \/ Term(p) \/ Exited(p) \/ Kill(p) \/ Sweep(p)
Claims(p) ==
    \/ Acquire(p) \/ Create(p) \/ Write(p) \/ Boot(p)
    \/ Abort(p) \/ LastProbe(p) \/ LastRollback(p)
Drains(p) == Drain(p) \/ Drained(p)
Ends(p) == Exit(p) \/ FastExit(p) \/ Killed(p)
Faultless(p) == Looks(p) \/ Replaces(p) \/ Claims(p) \/ Drains(p) \/ Ends(p)

(* The stages and the replacement go by the code of stage 4 and stage 5.     *)
LEMMA StagedStep ==
    ASSUME NEW p \in Procs, NEW q \in Procs, Faultless(p), TypeOK,
           Staged(q)
    PROVE  Staged(q)'
<1> USE InstanceAssumption, NobodyAssumption DEF None, Empty, Up
<1>1. CASE Looks(p)
  BY <1>1 DEF Looks, Launch, Read, Probe, Rollback, Vet, Clean, Vacant, Stale,
     Alive, Goto, Staged, Replacing, TypeOK
<1>2. CASE Replaces(p)
  BY <1>2 DEF Replaces, Mark, Term, Exited, Kill, Sweep, Vacant, Alive,
     Goto, Staged, Replacing, TypeOK
<1>3. CASE Claims(p)
  BY <1>3 DEF Claims, Acquire, Create, Write, Boot, Abort, LastProbe, LastRollback, Release, Goto,
     Staged, Replacing, TypeOK
<1>4. CASE Drains(p)
  BY <1>4 DEF Drains, Drain, Drained, Release, Awaits, Staged, Replacing,
     TypeOK
<1>5. CASE Ends(p)
  BY <1>5 DEF Ends, Exit, FastExit, Killed, Dies, Alive, Release, Awaits,
     Goto, Staged, Replacing, TypeOK
<1> QED  BY <1>1, <1>2, <1>3, <1>4, <1>5 DEF Faultless

(* Nobody takes the lock from who has it and is not done.                    *)
LEMMA KeepsStep ==
    ASSUME NEW p \in Procs, NEW q \in Procs, Faultless(p), TypeOK,
           Keeps(q), Known(p), \A r \in Procs : Holds(r)
    PROVE  Keeps(q)'
<1> USE InstanceAssumption, NobodyAssumption DEF None, Empty, Up
<1>1. CASE Looks(p)
  BY <1>1 DEF Looks, Launch, Read, Probe, Rollback, Vet, Clean, Vacant, Stale,
     Alive, Goto, Keeps, Known, Signalled, Holds, TypeOK
<1>2. CASE Replaces(p)
  BY <1>2 DEF Replaces, Mark, Term, Exited, Kill, Sweep, Vacant, Alive,
     Goto, Keeps, Known, Signalled, Holds, TypeOK
<1>3. CASE Claims(p)
  BY <1>3 DEF Claims, Acquire, Create, Write, Boot, Abort, LastProbe, LastRollback, Release, Goto,
     Keeps, Known, Signalled, Holds, TypeOK
<1>4. CASE Drain(p)
  BY <1>4 DEF Drain, Awaits, Keeps, Known, Signalled, Holds, TypeOK
<1>5. CASE Drained(p)
  BY <1>5 DEF Drained, Release, Awaits, Keeps, Known, Signalled, Holds,
     TypeOK
<1>6. CASE Ends(p)
  BY <1>6 DEF Ends, Exit, FastExit, Killed, Dies, Alive, Release, Awaits,
     Goto, Keeps, Known, Signalled, Holds, TypeOK
<1> QED  BY <1>1, <1>2, <1>3, <1>4, <1>5, <1>6 DEF Drains, Faultless

(* The lock is not left behind.                                              *)
LEMMA LockedStep ==
    ASSUME NEW p \in Procs, NEW q \in Procs, Faultless(p), TypeOK,
           Locked, Known(p), \A r \in Procs : Holds(r)
    PROVE  Locked'
<1> USE InstanceAssumption, NobodyAssumption DEF None, Empty, Up
<1>1. CASE Looks(p)
  BY <1>1 DEF Looks, Launch, Read, Probe, Rollback, Vet, Clean, Vacant, Stale,
     Alive, Goto, Locked, Known, Signalled, Holds, TypeOK
<1>2. CASE Replaces(p)
  BY <1>2 DEF Replaces, Mark, Term, Exited, Kill, Sweep, Vacant, Alive,
     Goto, Locked, Known, Signalled, Holds, TypeOK
<1>3. CASE Claims(p)
  BY <1>3 DEF Claims, Acquire, Create, Write, Boot, Abort, LastProbe, LastRollback, Release, Goto,
     Locked, Known, Signalled, Holds, TypeOK
<1>4. CASE Drains(p)
  BY <1>4 DEF Drains, Drain, Drained, Release, Awaits, Locked, Known,
     Signalled, Holds, TypeOK
<1>5. CASE Ends(p)
  BY <1>5 DEF Ends, Exit, FastExit, Killed, Dies, Alive, Release, Awaits,
     Goto, Locked, Known, Signalled, Holds, TypeOK
<1> QED  BY <1>1, <1>2, <1>3, <1>4, <1>5 DEF Faultless

(* A signal goes to who is recorded, and its sender waits.                   *)
LEMMA KnownStep ==
    ASSUME NEW p \in Procs, NEW q \in Procs, Faultless(p), TypeOK,
           \A r \in Procs : Known(r) /\ Staged(r), \A r \in Procs : pidfile = r => Recorded(r)
    PROVE  Known(q)'
<1> USE InstanceAssumption, NobodyAssumption DEF None, Empty, Up
<1>1. CASE Looks(p)
  BY <1>1 DEF Looks, Launch, Read, Probe, Rollback, Vet, Clean, Vacant, Stale,
     Alive, Goto, Known, Recorded, Signalled, Waits, Staged, Replacing, TypeOK
<1>2. CASE Replaces(p)
  BY <1>2 DEF Replaces, Mark, Term, Exited, Kill, Sweep, Vacant, Alive,
     Goto, Known, Recorded, Signalled, Waits, Staged, Replacing, TypeOK
<1>3. CASE Claims(p)
  BY <1>3 DEF Claims, Acquire, Create, Write, Boot, Abort, LastProbe, LastRollback, Release, Goto,
     Known, Recorded, Signalled, Waits, Staged, Replacing, TypeOK
<1>4. CASE Drains(p)
  BY <1>4 DEF Drains, Drain, Drained, Release, Awaits, Known, Recorded,
     Signalled, Waits, Staged, Replacing, TypeOK
<1>5. CASE Ends(p)
  BY <1>5 DEF Ends, Exit, FastExit, Killed, Dies, Alive, Release, Awaits,
     Goto, Known, Recorded, Signalled, Waits, Staged, Replacing, TypeOK
<1> QED  BY <1>1, <1>2, <1>3, <1>4, <1>5 DEF Faultless

(* A record outlives its process only under the eyes of a replacer.          *)
LEMMA RecordStep ==
    ASSUME NEW p \in Procs, NEW q \in Procs, Faultless(p), TypeOK,
           \A r \in Procs : Known(r) /\ Staged(r), \A r \in Procs : pidfile = r => Recorded(r)
    PROVE  pidfile' = q => Recorded(q)'
<1> USE InstanceAssumption, NobodyAssumption DEF None, Empty, Up
<1>1. CASE Looks(p)
  BY <1>1 DEF Looks, Launch, Read, Probe, Rollback, Vet, Clean, Vacant, Stale,
     Alive, Goto, Recorded, Known, Signalled, Waits, Staged, Replacing, TypeOK
<1>2. CASE Replaces(p)
  BY <1>2 DEF Replaces, Mark, Term, Exited, Kill, Sweep, Vacant, Alive,
     Goto, Recorded, Known, Signalled, Waits, Staged, Replacing, TypeOK
<1>3. CASE Claims(p)
  BY <1>3 DEF Claims, Acquire, Create, Write, Boot, Abort, LastProbe, LastRollback, Release, Goto,
     Recorded, Known, Signalled, Waits, Staged, Replacing, TypeOK
<1>4. CASE Drains(p)
  BY <1>4 DEF Drains, Drain, Drained, Release, Awaits, Recorded, Known,
     Signalled, Waits, Staged, Replacing, TypeOK
<1>5. CASE Ends(p)
  BY <1>5 DEF Ends, Exit, FastExit, Killed, Dies, Alive, Release, Awaits,
     Goto, Recorded, Known, Signalled, Waits, Staged, Replacing, TypeOK
<1> QED  BY <1>1, <1>2, <1>3, <1>4, <1>5 DEF Faultless

(* An empty file has a writer: who finds it gone or filled has moved on.     *)
LEMMA CreatedStep ==
    ASSUME NEW p \in Procs, NEW q \in Procs, Faultless(p), TypeOK,
           pidfile = Empty => pc[q] = "write",
           Locked, Known(p), \A r \in Procs : Keeps(r) /\ Holds(r)
    PROVE  pidfile' = Empty => pc'[q] = "write" \/ pc'[p] = "write"
<1> USE InstanceAssumption, NobodyAssumption DEF None, Empty, Up
<1>1. CASE Looks(p)
  BY <1>1 DEF Looks, Launch, Read, Probe, Rollback, Vet, Clean, Vacant, Stale,
     Alive, Goto, Locked, Known, Signalled, Keeps, Holds, TypeOK
<1>2. CASE Replaces(p)
  BY <1>2 DEF Replaces, Mark, Term, Exited, Kill, Sweep, Vacant, Alive,
     Goto, Locked, Known, Signalled, Keeps, Holds, TypeOK
<1>3. CASE Claims(p)
  BY <1>3 DEF Claims, Acquire, Create, Write, Boot, Abort, LastProbe, LastRollback, Release, Goto,
     Locked, Known, Signalled, Keeps, Holds, TypeOK
<1>4. CASE Drains(p)
  BY <1>4 DEF Drains, Drain, Drained, Release, Awaits, Locked, Known,
     Signalled, Keeps, Holds, TypeOK
<1>5. CASE Exit(p)
  BY <1>5 DEF Exit, Goto, Locked, Known, Signalled, Keeps, Holds, TypeOK
<1>6. CASE FastExit(p)
  BY <1>6 DEF FastExit, Release, Awaits, Goto, Locked, Known, Signalled,
     Keeps, Holds, TypeOK
<1>7. CASE Killed(p)
  BY <1>7 DEF Killed, Dies, Alive, Goto, Locked, Known, Signalled, Keeps,
     Holds, TypeOK
<1> QED  BY <1>1, <1>2, <1>3, <1>4, <1>5, <1>6, <1>7 DEF Ends, Faultless

(* The record of a dead incarnation stops everybody in the first stage.      *)
LEMMA GhostStep ==
    ASSUME NEW p \in Procs, NEW q \in Procs, Faultless(p), TypeOK,
           pidfile = Ghost => \A r \in Procs : stage[r] \in {"check", "guard"},
           \A r \in Procs : Staged(r) /\ Known(r)
    PROVE  pidfile' = Ghost => stage'[q] \in {"check", "guard"}
<1> USE InstanceAssumption, NobodyAssumption DEF None, Empty, Up
<1>1. CASE Looks(p)
  BY <1>1 DEF Looks, Launch, Read, Probe, Rollback, Vet, Clean, Vacant, Stale,
     Alive, Goto, Staged, Known, Replacing, TypeOK
<1>2. CASE Replaces(p)
  BY <1>2 DEF Replaces, Mark, Term, Exited, Kill, Sweep, Vacant, Alive,
     Goto, Staged, Known, Replacing, TypeOK
<1>3. CASE Claims(p)
  BY <1>3 DEF Claims, Acquire, Create, Write, Boot, Abort, LastProbe, LastRollback, Release, Goto,
     Staged, Known, Replacing, TypeOK
<1>4. CASE Drains(p)
  BY <1>4 DEF Drains, Drain, Drained, Release, Awaits, Staged, Known,
     Replacing, TypeOK
<1>5. CASE Ends(p)
  BY <1>5 DEF Ends, Exit, FastExit, Killed, Dies, Alive, Release, Awaits,
     Goto, Staged, Known, Replacing, TypeOK
<1> QED  BY <1>1, <1>2, <1>3, <1>4, <1>5 DEF Faultless

(* Whoever gives way does so to somebody who stays.                          *)
LEMMA StaysStep ==
    ASSUME NEW p \in Procs, NEW q \in Procs, Faultless(p), TypeOK,
           ~misled', SomeoneStays, Filed, Locked,
           \A r \in Procs : Known(r) /\ Staged(r) /\ Keeps(r) /\ Holds(r)
    PROVE  SomeoneStays'
<1> USE InstanceAssumption, NobodyAssumption DEF None, Empty, Up
<1>1. CASE Looks(p)
  BY <1>1 DEF Looks, Launch, Read, Probe, Rollback, Vet, Clean, Vacant, Stale,
     Alive, Goto, SomeoneStays, Going, Filed, Recorded, Known, Signalled,
     Waits, Staged, Replacing, Locked, Keeps, Holds, TypeOK
<1>2. CASE Replaces(p)
  BY <1>2 DEF Replaces, Mark, Term, Exited, Kill, Sweep, Vacant, Alive,
     Goto, SomeoneStays, Going, Filed, Recorded, Known, Signalled, Waits,
     Staged, Replacing, Locked, Keeps, Holds, TypeOK
<1>3. CASE Claims(p)
  <2>1. CASE Acquire(p)
    <3>1. CASE lock = None
      BY <2>1, <3>1 DEF Acquire, Goto, SomeoneStays, Going, Signalled, TypeOK
    <3>2. CASE lock # None
      <4>1. stage[lock] # "report"
        BY <2>1, <3>2, Zenon DEF Acquire
      <4>2. lock \in Procs /\ lock # p
        BY <2>1, <3>2 DEF Acquire, Locked, TypeOK
      <4>3. pc' = [pc EXCEPT ![p] = "abort"] /\ UNCHANGED <<stage, due, signals, drain, doomed>>
        BY <2>1, <3>2 DEF Acquire, Goto
      <4>4. CASE ~Signalled(lock)
        <5>1. PICK h \in Procs : h = lock
          BY <4>2
        <5>2. Going(h)'
          BY <3>2, <4>1, <4>2, <4>3, <4>4, <5>1 DEF Going, Signalled, Locked, TypeOK
        <5> QED  BY <5>2 DEF SomeoneStays
      <4>5. CASE Signalled(lock)
        <5>1. PICK r \in Procs : Waits(r, lock)
          BY <3>2, <4>2, <4>5 DEF Known, Locked
        <5>2. pc[r] \in {"wait", "confirm"} /\ stage[r] = "guard" /\ ~Signalled(r)
          BY <5>1 DEF Waits, Staged, Replacing, Known
        <5>3. r # p
          BY <2>1, <5>2 DEF Acquire
        <5>4. Going(r)'
          BY <4>3, <5>2, <5>3 DEF Going, Signalled, TypeOK
        <5> QED  BY <5>4 DEF SomeoneStays
      <4> QED  BY <4>4, <4>5
    <3> QED  BY <3>1, <3>2
  <2>2. CASE Create(p)
    BY <2>2 DEF Create, Goto, SomeoneStays, Going, Filed, Recorded, Known, Signalled,
       Waits, Staged, Replacing, Locked, Keeps, Holds, TypeOK
  <2>3. CASE Write(p) \/ Boot(p) \/ Abort(p) \/ LastProbe(p) \/ LastRollback(p)
    BY <2>3 DEF Write, Boot, Abort, LastProbe, LastRollback, Release, Goto, SomeoneStays,
       Going, Signalled, Staged, TypeOK
  <2> QED  BY <1>3, <2>1, <2>2, <2>3 DEF Claims
<1>4. CASE Drains(p)
  BY <1>4 DEF Drains, Drain, Drained, Release, Awaits, SomeoneStays, Going,
     Filed, Recorded, Known, Signalled, Waits, Staged, Replacing, Locked,
     Keeps, Holds, TypeOK
<1>5. CASE Ends(p)
  BY <1>5 DEF Ends, Exit, FastExit, Killed, Dies, Alive, Release, Awaits,
     Goto, SomeoneStays, Going, Filed, Recorded, Known, Signalled, Waits,
     Staged, Replacing, Locked, Keeps, Holds, TypeOK
<1> QED  BY <1>1, <1>2, <1>3, <1>4, <1>5 DEF Faultless

(* A signal under the marker is a planned takeover.                          *)
LEMMA CodeStep ==
    ASSUME NEW p \in Procs, NEW q \in Procs, Faultless(p), TypeOK,
           OneReplacer, Planned, \A r \in Procs : Known(r) /\ Staged(r)
    PROVE  code'[q] # "failed"
<1> USE InstanceAssumption, NobodyAssumption DEF None, Empty, Up
<1>1. CASE Looks(p)
  BY <1>1 DEF Looks, Launch, Read, Probe, Rollback, Vet, Clean, Vacant, Stale,
     Alive, Goto, OneReplacer, Planned, Sent, HasSent, Known, Signalled, Waits,
     Staged, Replacing, TypeOK
<1>2. CASE Replaces(p)
  BY <1>2 DEF Replaces, Mark, Term, Exited, Kill, Sweep, Vacant, Alive,
     Goto, OneReplacer, Planned, Sent, HasSent, Known, Signalled, Waits,
     Staged, Replacing, TypeOK
<1>3. CASE Claims(p)
  BY <1>3 DEF Claims, Acquire, Create, Write, Boot, Abort, LastProbe, LastRollback, Release, Goto,
     OneReplacer, Planned, Sent, HasSent, Known, Signalled, Waits, Staged,
     Replacing, TypeOK
<1>4. CASE Drains(p)
  BY <1>4 DEF Drains, Drain, Drained, Release, Awaits, OneReplacer, Planned,
     Sent, HasSent, Known, Signalled, Waits, Staged, Replacing, TypeOK
<1>5. CASE Ends(p)
  BY <1>5 DEF Ends, Exit, FastExit, Killed, Dies, Alive, Release, Awaits,
     Goto, OneReplacer, Planned, Sent, HasSent, Known, Signalled, Waits,
     Staged, Replacing, TypeOK
<1> QED  BY <1>1, <1>2, <1>3, <1>4, <1>5 DEF Faultless

(* There is one signal at most,                                              *)
LEMMA OnceStep ==
    ASSUME NEW p \in Procs, NEW q \in Procs, Faultless(p), TypeOK,
           OneReplacer, Planned, \A r \in Procs : Known(r) /\ Staged(r)
    PROVE  due'[q] + signals'[q] <= 1
<1> USE InstanceAssumption, NobodyAssumption DEF None, Empty, Up
<1>1. CASE Looks(p)
  BY <1>1 DEF Looks, Launch, Read, Probe, Rollback, Vet, Clean, Vacant, Stale,
     Alive, Goto, OneReplacer, Planned, Sent, HasSent, Known, Signalled, Waits,
     Staged, Replacing, TypeOK
<1>2. CASE Replaces(p)
  <2>1. CASE Term(p)
    <3>1. ~HasSent(p)
      BY <2>1 DEF Term, HasSent, Staged, Replacing
    <3>2. p \in Replacers
      BY <2>1 DEF Term, Staged, Replacing
    <3>3. ~Sent
      BY <3>1, <3>2 DEF Sent, OneReplacer
    <3>4. due[q] \in Nat /\ signals[q] \in Nat /\ due[q] + signals[q] <= 1
          /\ due[q] + signals[q] # 1
      BY <3>3 DEF Planned, TypeOK
    <3>5. (due'[q] = due[q] \/ due'[q] = due[q] + 1) /\ signals' = signals
      BY <2>1 DEF Term, TypeOK
    <3> QED  BY <3>4, <3>5
  <2>2. CASE Mark(p) \/ Exited(p) \/ Kill(p) \/ Sweep(p)
    <3>1. UNCHANGED <<due, signals>>
      BY <2>2 DEF Mark, Exited, Kill, Sweep
    <3> QED  BY <3>1 DEF Planned
  <2> QED  BY <1>2, <2>1, <2>2 DEF Replaces
<1>3. CASE Claims(p)
  BY <1>3 DEF Claims, Acquire, Create, Write, Boot, Abort, LastProbe, LastRollback, Release, Goto,
     OneReplacer, Planned, Sent, HasSent, Known, Signalled, Waits, Staged,
     Replacing, TypeOK
<1>4. CASE Drain(p)
  BY <1>4 DEF Drain, Awaits, OneReplacer, Planned, Sent, HasSent, Known,
     Signalled, Waits, Staged, Replacing, TypeOK
<1>5. CASE Drained(p)
  BY <1>5 DEF Drained, Release, Awaits, OneReplacer, Planned, Sent, HasSent,
     Known, Signalled, Waits, Staged, Replacing, TypeOK
<1>6. CASE Ends(p)
  BY <1>6 DEF Ends, Exit, FastExit, Killed, Dies, Alive, Release, Awaits,
     Goto, OneReplacer, Planned, Sent, HasSent, Known, Signalled, Waits,
     Staged, Replacing, TypeOK
<1> QED  BY <1>1, <1>2, <1>3, <1>4, <1>5, <1>6 DEF Drains, Faultless

(* which the replacer remembers by where it is                               *)
LEMMA SenderStep ==
    ASSUME NEW p \in Procs, NEW q \in Procs, Faultless(p), TypeOK,
           Known(q), Staged(q), HasSent(q)
    PROVE  HasSent(q)'
<1> USE InstanceAssumption, NobodyAssumption DEF None, Empty, Up
<1>1. CASE Looks(p)
  BY <1>1 DEF Looks, Launch, Read, Probe, Rollback, Vet, Clean, Vacant, Stale,
     Alive, Goto, HasSent, Known, Signalled, Staged, Replacing, TypeOK
<1>2. CASE Replaces(p)
  BY <1>2 DEF Replaces, Mark, Term, Exited, Kill, Sweep, Vacant, Alive,
     Goto, HasSent, Known, Signalled, Staged, Replacing, TypeOK
<1>3. CASE Claims(p)
  BY <1>3 DEF Claims, Acquire, Create, Write, Boot, Abort, LastProbe, LastRollback, Release, Goto,
     HasSent, Known, Signalled, Staged, Replacing, TypeOK
<1>4. CASE Drains(p)
  BY <1>4 DEF Drains, Drain, Drained, Release, Awaits, HasSent, Known,
     Signalled, Staged, Replacing, TypeOK
<1>5. CASE Ends(p)
  BY <1>5 DEF Ends, Exit, FastExit, Killed, Dies, Alive, Release, Awaits,
     Goto, HasSent, Known, Signalled, Staged, Replacing, TypeOK
<1> QED  BY <1>1, <1>2, <1>3, <1>4, <1>5 DEF Faultless

(* from the signal on,                                                       *)
LEMMA SentStep ==
    ASSUME NEW p \in Procs, NEW q \in Procs, Faultless(p), TypeOK,
           Planned, \A r \in Procs : Known(r) /\ Staged(r)
    PROVE  due'[q] + signals'[q] = 1 => Sent'
<1> USE InstanceAssumption, NobodyAssumption DEF None, Empty, Up
<1>1. CASE Sent
  BY <1>1, SenderStep DEF Sent
<1>2. CASE Term(p)
  BY <1>2 DEF Term, Goto, Vacant, Stale, Sent, HasSent, Staged, Replacing, TypeOK
<1>3. CASE ~Sent /\ ~Term(p)
  <2>1. due[q] + signals[q] # 1
    BY <1>3 DEF Planned
  <2>2. ~Drain(p) /\ ~FastExit(p)
    <3>1. ~ (due[p] > 0)
      <4>1. due[p] \in Nat /\ signals[p] \in Nat
        BY DEF TypeOK
      <4>2. due[p] + signals[p] <= 1 /\ due[p] + signals[p] # 1
        BY <1>3 DEF Planned
      <4> QED  BY <4>1, <4>2
    <3> QED  BY <3>1 DEF Drain, FastExit
  <2>3. due' = due /\ signals' = signals
    BY <1>3, <2>2 DEF Faultless, Looks, Replaces, Claims, Drains, Ends, Launch, Read,
       Probe, Rollback, Vet, Clean, Mark, Exited, Kill, Sweep, Acquire, Create, Write,
       Boot, Abort, LastProbe, LastRollback, Drained, Exit, Killed, Dies
  <2> QED  BY <2>1, <2>3
<1> QED  BY <1>1, <1>2, <1>3

(* and the marker stays until the signal is handled.                         *)
LEMMA MarkedStep ==
    ASSUME NEW p \in Procs, NEW q \in Procs, Faultless(p), TypeOK,
           OneReplacer, Planned, \A r \in Procs : Known(r) /\ Staged(r)
    PROVE  Up(q)' /\ due'[q] = 1 => marker' = q
<1> USE InstanceAssumption, NobodyAssumption DEF None, Empty, Up
<1>1. CASE Looks(p)
  BY <1>1 DEF Looks, Launch, Read, Probe, Rollback, Vet, Clean, Vacant, Stale,
     Alive, Goto, OneReplacer, Planned, Sent, HasSent, Known, Signalled, Waits,
     Staged, Replacing, TypeOK
<1>2. CASE Replaces(p)
  BY <1>2 DEF Replaces, Mark, Term, Exited, Kill, Sweep, Vacant, Alive,
     Goto, OneReplacer, Planned, Sent, HasSent, Known, Signalled, Waits,
     Staged, Replacing, TypeOK
<1>3. CASE Claims(p)
  BY <1>3 DEF Claims, Acquire, Create, Write, Boot, Abort, LastProbe, LastRollback, Release, Goto,
     OneReplacer, Planned, Sent, HasSent, Known, Signalled, Waits, Staged,
     Replacing, TypeOK
<1>4. CASE Drain(p)
  BY <1>4 DEF Drain, Awaits, OneReplacer, Planned, Sent, HasSent, Known,
     Signalled, Waits, Staged, Replacing, TypeOK
<1>5. CASE Drained(p)
  BY <1>5 DEF Drained, Release, Awaits, OneReplacer, Planned, Sent, HasSent,
     Known, Signalled, Waits, Staged, Replacing, TypeOK
<1>6. CASE Ends(p)
  BY <1>6 DEF Ends, Exit, FastExit, Killed, Dies, Alive, Release, Awaits,
     Goto, OneReplacer, Planned, Sent, HasSent, Known, Signalled, Waits,
     Staged, Replacing, TypeOK
<1> QED  BY <1>1, <1>2, <1>3, <1>4, <1>5, <1>6 DEF Drains, Faultless

(* The marker names whom the signal is for.                                  *)
LEMMA MarkStep ==
    ASSUME NEW p \in Procs, NEW q \in Procs, Faultless(p), TypeOK,
           OneReplacer, Planned, \A r \in Procs : Known(r) /\ Staged(r)
    PROVE  q \in Replacers /\ pc'[q] = "term" => marker' = seen'[q]
<1> USE InstanceAssumption, NobodyAssumption DEF None, Empty, Up
<1>1. CASE Looks(p)
  BY <1>1 DEF Looks, Launch, Read, Probe, Rollback, Vet, Clean, Vacant, Stale,
     Alive, Goto, OneReplacer, Planned, Sent, Staged, Replacing, TypeOK
<1>2. CASE Replaces(p)
  BY <1>2 DEF Replaces, Mark, Term, Exited, Kill, Sweep, Vacant, Alive,
     Goto, OneReplacer, Planned, Sent, Staged, Replacing, TypeOK
<1>3. CASE Claims(p)
  BY <1>3 DEF Claims, Acquire, Create, Write, Boot, Abort, LastProbe, LastRollback, Release, Goto,
     OneReplacer, Planned, Sent, Staged, Replacing, TypeOK
<1>4. CASE Drain(p)
  <2>1. due[p] + signals[p] = 1
    BY <1>4 DEF Drain, Planned, TypeOK
  <2>2. Sent
    BY <2>1 DEF Planned
  <2>3. ~ (q \in Replacers /\ pc[q] = "term")
    BY <2>2 DEF OneReplacer, Sent, HasSent, Staged, Replacing
  <2> QED  BY <1>4, <2>3 DEF Drain
<1>5. CASE Drained(p)
  BY <1>5 DEF Drained, Release, Awaits, OneReplacer, Planned, Sent, Staged,
     Replacing, TypeOK
<1>6. CASE Ends(p)
  BY <1>6 DEF Ends, Exit, FastExit, Killed, Dies, Alive, Release, Awaits,
     Goto, OneReplacer, Planned, Sent, Staged, Replacing, TypeOK
<1> QED  BY <1>1, <1>2, <1>3, <1>4, <1>5, <1>6 DEF Drains, Faultless

----------------------------------------------------------------------------
(* The theorem *)

(* Without a fault every step keeps the parts of Calm.                       *)
LEMMA CalmStep ==
    ASSUME Exclusive, Calm, NEW p \in Procs, Faultless(p)
    PROVE  Calm'
<1>0. TypeOK /\ \A r \in Procs : Holds(r)
  BY DEF Exclusive, Holds
<1>1. ASSUME NEW q \in Procs PROVE Staged(q)' /\ Keeps(q)' /\ Known(q)'
  <2>1. Staged(q)'
    BY <1>0, StagedStep DEF Calm
  <2>2. Keeps(q)'
    BY <1>0, KeepsStep DEF Calm
  <2>3. Known(q)'
    BY <1>0, KnownStep DEF Calm, Filed
  <2> QED  BY <2>1, <2>2, <2>3
<1>2. Locked'
  BY <1>0, LockedStep DEF Calm
<1>3. Filed'
  <2>1. ASSUME NEW q \in Procs, pidfile' = q PROVE Recorded(q)'
    BY <1>0, <2>1, RecordStep DEF Calm, Filed
  <2>2. ASSUME pidfile' = Empty PROVE \E q \in Procs : pc'[q] = "write"
    <3>1. PICK q \in Procs : pidfile = Empty => pc[q] = "write"
      BY DEF Calm, Filed
    <3> QED  BY <1>0, <2>2, <3>1, CreatedStep DEF Calm
  <2>3. ASSUME NEW q \in Procs, pidfile' = Ghost PROVE stage'[q] \in {"check", "guard"}
    BY <1>0, <2>3, GhostStep DEF Calm, Filed
  <2> QED  BY <2>1, <2>2, <2>3 DEF Filed
<1>4. ASSUME ~misled' PROVE SomeoneStays'
  <2>1. ~misled
    BY <1>4 DEF Faultless, Looks, Replaces, Claims, Drains, Ends, Launch, Read, Probe,
       Rollback, Vet, Clean, Mark, Term, Exited, Kill, Sweep, Acquire, Create, Write,
       Boot, Abort, LastProbe, LastRollback, Drain, Drained, Exit, FastExit, Killed, Dies
  <2> QED  BY <1>0, <1>4, <2>1, StaysStep DEF Calm
<1>5. ASSUME OneReplacer PROVE Planned'
  <2>1. OneReplacer /\ Planned /\ \A r \in Procs : Known(r) /\ Staged(r)
    BY <1>5 DEF Calm
  <2>2. ASSUME NEW q \in Procs
        PROVE  /\ code'[q] # "failed"
               /\ due'[q] + signals'[q] <= 1
               /\ due'[q] + signals'[q] = 1 => Sent'
               /\ Up(q)' /\ due'[q] = 1 => marker' = q
    BY <1>0, <2>1, CodeStep, OnceStep, SentStep, MarkedStep
  <2>3. ASSUME NEW r \in Replacers, pc'[r] = "term" PROVE marker' = seen'[r]
    BY <1>0, <2>1, <2>3, MarkStep, InstanceAssumption
  <2> QED  BY <2>2, <2>3 DEF Planned
<1> QED  BY <1>1, <1>2, <1>3, <1>4, <1>5 DEF Calm, OneReplacer

(* The invariant holds when nobody has been launched, *)
LEMMA InvInit == Init => Inv
<1> USE InstanceAssumption, NobodyAssumption DEF None, Empty
<1> SUFFICES ASSUME Init PROVE Inv
  OBVIOUS
<1>1. Exclusive
  BY InitTyped DEF Init, Exclusive
<1>2. ASSUME NEW p \in Procs PROVE Staged(p) /\ Keeps(p) /\ Known(p)
  BY DEF Init, Staged, Replacing, Keeps, Known, Up, Signalled
<1>3. Locked /\ Filed /\ SomeoneStays
  BY DEF Init, Locked, Filed, SomeoneStays
<1>4. Planned
  BY DEF Init, Planned, Up
<1> QED  BY <1>1, <1>2, <1>3, <1>4 DEF Inv, Calm

(* and every step keeps it.                                                  *)
LEMMA InvStep == Inv /\ [Next]_vars => Inv'
<1> SUFFICES ASSUME Inv, [Next]_vars PROVE Inv'
  OBVIOUS
<1>1. Exclusive'
  BY TypeStep, LockStep DEF Inv, Exclusive, Holds
<1>2. ASSUME faults' = 0 PROVE Calm'
  <2>1. CASE UNCHANGED vars
    BY <1>2, <2>1 DEF Inv, Calm, vars, Staged, Keeps, Known, Locked, Filed, SomeoneStays,
       Planned, Up, Signalled, Waits, Recorded, Going, Sent, HasSent
  <2>2. ASSUME NEW p \in Procs, Faultless(p) PROVE Calm'
    <3>1. faults' = faults
      BY <2>2 DEF Faultless, Looks, Replaces, Claims, Drains, Ends, Launch, Read, Probe,
         Rollback, Vet, Clean, Mark, Term, Exited, Kill, Sweep, Acquire, Create, Write,
         Boot, Abort, LastProbe, LastRollback, Drain, Drained, Exit, FastExit, Killed
    <3> QED  BY <1>2, <2>2, <3>1, CalmStep DEF Inv
  <2>3. ASSUME NEW p \in Procs, GiveUp(p) \/ BootFails(p) \/ Crash(p) \/ OperatorSignal(p)
        PROVE  FALSE
    BY <1>2, <2>3 DEF Inv, Exclusive, TypeOK, GiveUp, BootFails, Crash, OperatorSignal
  <2> QED
    BY <2>1, <2>2, <2>3
       DEF Next, Progress, AtRest, Faultless, Looks, Replaces, Claims, Drains, Ends
<1> QED  BY <1>1, <1>2 DEF Inv

(* So it holds in every reachable state.                                     *)
THEOREM InvHolds == Spec => []Inv
  BY InvInit, InvStep, PTL DEF Spec

(* Without a fault starters never all give way to each other, however many   *)
(* there are and whoever replaces whom; and a process that the only replacer *)
(* signals exits as a planned takeover.                                      *)
THEOREM OrderlyHandoverHolds == Spec => []OrderlyHandover
<1>1. Inv => OrderlyHandover
  BY DEF Inv, Calm, Planned, SomeoneStays, Going, GivenUp, OrderlyHandover
<1> QED  BY <1>1, InvHolds, PTL
=============================================================================
