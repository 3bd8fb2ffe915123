--------------------------- MODULE Claims_proofs ---------------------------
(* Claims that one party at a time may hold.  Two processes never hold the   *)
(* same credential while the machine is quiet; and a handoff between the     *)
(* operator and the gateway is dispatched once and its requester is told the *)
(* truth, for any number of requests, gateways and faults.                   *)
EXTENDS TokenLock, Handoff, TLAPS, WellFoundedInduction

----------------------------------------------------------------------------
(* THE TOKEN LOCK *)

(* The machine is quiet as long as no stale file was left behind, no process *)
(* has died, come back or been stopped, and nobody has asked to replace;     *)
(* TokenLockRace.cfg shows why stale files matter.  The types hold with all  *)
(* the faults.                                                               *)

USE DEF Idle, CallPcs, ProcStates, machine, claims

-----------------------------------------------------------------------------

\* What may be at the path: nothing, an unreadable file, or a record.
LEMMA FileKinds ==
  /\ NoFile \in Files /\ Garbage \in Files /\ NoFile # Garbage
  /\ NoFile.kind = "none" /\ Garbage.kind = "garbage"
BY DEF Files, NoFile, Garbage

\* A record is a lock file of the right type.
LEMMA RecordsAreFiles ==
  ASSUME NEW p \in Pids, NEW s \in 0..MaxStart, NEW c \in Contenders
  PROVE  /\ Record(p, s, c) \in Files
         /\ Record(p, s, c).kind = "record" /\ Record(p, s, c).pid = p
         /\ Record(p, s, c).start = s /\ Record(p, s, c).owner = c
         /\ Record(p, s, c) # NoFile /\ Record(p, s, c) # Garbage
BY DEF Files, Record, NoFile, Garbage

\* So is the record that a contender writes.
LEMMA MineIsFile ==
  ASSUME TypeOK, NEW c \in Contenders
  PROVE  /\ Mine(c) \in Files /\ Mine(c).kind = "record"
         /\ Mine(c).pid = PidOf[c] /\ Mine(c).owner = c
         /\ Mine(c).start = proc[PidOf[c]].start
         /\ Mine(c) # NoFile /\ Mine(c) # Garbage
<1>1. PidOf[c] \in Pids /\ proc[PidOf[c]].start \in 0..MaxStart
  BY PidAssumption DEF TypeOK
<1> QED BY <1>1, RecordsAreFiles DEF Mine

\* The types hold at the start.
LEMMA TypeStart == Init => TypeOK
<1> SUFFICES ASSUME Init PROVE TypeOK
  OBVIOUS
<1> USE PidAssumption, BoundAssumption
<1>1. file \in Files
  BY FileKinds, RecordsAreFiles DEF Init, Corpse
<1>2. proc \in [Pids -> [start : 0..MaxStart, is : ProcStates]]
  BY DEF Init
<1> QED BY <1>1, <1>2, FileKinds DEF Init, TypeOK

\* The types of the handles: a contender that holds has one.
ClaimsTyped ==
  /\ handles \in [Contenders -> 0..MaxHandles]
  /\ holds \in [Contenders -> BOOLEAN]
  /\ \A c \in Contenders : holds[c] => handles[c] > 0

\* Moving on to another step of a call, or out of it, keeps the types.
LEMMA GotoTyped ==
  ASSUME TypeOK, NEW c \in Contenders, NEW pc \in CallPcs \ {"classify"},
         pc = "winner" => call[c].races < MaxRaces,
         pc \notin {"idle", "remove"} => handles'[c] < MaxHandles,
         Goto(c, pc), file' \in Files, ClaimsTyped', UNCHANGED machine,
         \A d \in Contenders \ {c} : handles'[d] = handles[d]
  PROVE  TypeOK'
<1> DEFINE CallType == [pc : CallPcs, seen : Files, replace : BOOLEAN, races : 0..MaxRaces]
<1>1. call \in [Contenders -> CallType]
  BY DEF TypeOK
<1>2. call' = [call EXCEPT ![c] = [call[c] EXCEPT !.pc = pc]]
  BY DEF Goto
<1>3. [call[c] EXCEPT !.pc = pc] \in CallType
  BY <1>1
<1>4. call' \in [Contenders -> CallType]
  BY <1>1, <1>2, <1>3
<1>5. \A d \in Contenders : /\ call'[d].pc = "classify" => call'[d].seen.kind = "record"
                            /\ call'[d].pc = "winner" => call'[d].races < MaxRaces
  BY <1>1, <1>2 DEF TypeOK
<1>6. \A d \in Contenders : call'[d].pc \notin {"idle", "remove"} => handles'[d] < MaxHandles
  BY <1>1, <1>2 DEF TypeOK
<1> QED BY <1>4, <1>5, <1>6 DEF TypeOK, ClaimsTyped

\* A call that returns, whatever it leaves at the path,
LEMMA ReturnTyped ==
  ASSUME TypeOK, NEW c \in Contenders,
         Return(c), file' \in Files, ClaimsTyped', UNCHANGED machine,
         \A d \in Contenders \ {c} : handles'[d] = handles[d]
  PROVE  TypeOK'
<1> DEFINE CallType == [pc : CallPcs, seen : Files, replace : BOOLEAN, races : 0..MaxRaces]
<1>1. call \in [Contenders -> CallType]
  BY DEF TypeOK
<1>2. Idle \in CallType
  BY FileKinds, BoundAssumption
<1>3. call' \in [Contenders -> CallType]
  BY <1>1, <1>2 DEF Return
<1>4. \A d \in Contenders : /\ call'[d].pc = "classify" => call'[d].seen.kind = "record"
                            /\ call'[d].pc = "winner" => call'[d].races < MaxRaces
  BY <1>1 DEF TypeOK, Return
<1>5. \A d \in Contenders : call'[d].pc \notin {"idle", "remove"} => handles'[d] < MaxHandles
  BY <1>1 DEF TypeOK, Return
<1> QED BY <1>3, <1>4, <1>5 DEF TypeOK, ClaimsTyped

\* and one that has put its record there, keep the types.
LEMMA WinTyped ==
  ASSUME TypeOK, NEW c \in Contenders,
         Win(c), file' = Mine(c), UNCHANGED machine, handles[c] < MaxHandles
  PROVE  TypeOK'
<1>1. file' \in Files /\ Return(c)
  BY MineIsFile DEF Win, TypeOK
<1>2. handles[c] + 1 \in 1..MaxHandles
  BY BoundAssumption DEF TypeOK
<1>3. ClaimsTyped' /\ \A d \in Contenders \ {c} : handles'[d] = handles[d]
  BY <1>2 DEF Win, TypeOK, ClaimsTyped
<1> QED BY <1>1, <1>3, ReturnTyped

\* The state of every lock file, process, call and handle has its type.
THEOREM TypeCorrect == Spec => []TypeOK
<1> USE PidAssumption, BoundAssumption
<1>1. Init => TypeOK
  BY TypeStart
<1>2. TypeOK /\ [Next]_vars => TypeOK'
  <2> SUFFICES ASSUME TypeOK, [Next]_vars PROVE TypeOK'
    OBVIOUS
  <2> USE FileKinds DEF TypeOK
  <2>1. ASSUME NEW c \in Contenders, Contend(c) PROVE TypeOK'
    <3>0. /\ file \in Files /\ ClaimsTyped /\ (UNCHANGED claims => ClaimsTyped')
          /\ call[c].pc \notin {"idle", "remove"} => handles[c] < MaxHandles
      BY DEF TypeOK, ClaimsTyped
    <3>1. CASE TryAcquire(c)
      <4> DEFINE CallType == [pc : CallPcs, seen : Files, replace : BOOLEAN,
                              races : 0..MaxRaces]
      <4>1. PICK r \in BOOLEAN, pc \in {"clear", "read"} :
              call' = [call EXCEPT ![c] = [pc |-> pc, seen |-> NoFile,
                                           replace |-> r, races |-> 0]]
        BY <3>1, FlagAssumption DEF TryAcquire
      <4>2. call \in [Contenders -> CallType] /\ call' \in [Contenders -> CallType]
        BY <4>1, FileKinds DEF TypeOK
      <4>3. \A d \in Contenders :
              /\ call'[d].pc = "classify" => call'[d].seen.kind = "record"
              /\ call'[d].pc = "winner" => call'[d].races < MaxRaces
        BY <4>1, <4>2 DEF TypeOK
      <4>4. \A d \in Contenders : call'[d].pc \notin {"idle", "remove"} => handles[d] < MaxHandles
        BY <3>1, <4>1, <4>2 DEF TryAcquire, TypeOK
      <4> QED BY <3>1, <3>0, <4>2, <4>3, <4>4 DEF TryAcquire, TypeOK
    <3>2. CASE ClearGarbage(c)
      BY <3>2, <3>0, GotoTyped DEF ClearGarbage, Tombstone, At
    <3>3. CASE ReadLock(c)
      BY <3>3 DEF ReadLock, At
    <3>4. CASE Classify(c)
      <4>1. Goto(c, "refresh") \/ Goto(c, "stale") \/ Return(c)
        BY <3>4 DEF Classify
      <4> QED BY <3>4, <4>1, <3>0, GotoTyped, ReturnTyped DEF Classify, At
    <3>5. CASE Refresh(c)
      BY <3>5, <3>0, WinTyped DEF Refresh, At
    <3>6. CASE RemoveStale(c)
      BY <3>6, <3>0, GotoTyped DEF RemoveStale, Tombstone, At
    <3>7. CASE Create(c)
      BY <3>7, <3>0, GotoTyped, ReturnTyped, WinTyped DEF Create, At
    <3>8. CASE ReadWinner(c)
      <4>1. CASE file.kind = "record"
        BY <3>8, <4>1, <3>0, ReturnTyped DEF ReadWinner
      <4>2. CASE file.kind # "record"
        <5>1. call[c].races + 1 \in 0..MaxRaces
          BY <3>8 DEF ReadWinner, At
        <5> QED BY <3>8, <4>2, <5>1 DEF ReadWinner, At
      <4> QED BY <4>1, <4>2
    <3>9. CASE Release(c)
      <4>0. handles[c] - 1 \in 0..MaxHandles
        BY <3>9, BoundAssumption DEF Release, TypeOK
      <4>1. ClaimsTyped' /\ \A d \in Contenders \ {c} : handles'[d] = handles[d]
        BY <3>9, <3>0, <4>0 DEF Release, ClaimsTyped
      <4>2. CASE OwnedByUs(c, file)
        BY <3>9, <4>1, <4>2, <3>0, GotoTyped DEF Release
      <4>3. CASE ~OwnedByUs(c, file)
        <5>1. UNCHANGED <<file, proc, quiet, call>> /\ call[c].pc = "idle"
          BY <3>9, <4>3 DEF Release, At
        <5> QED BY <5>1, <4>1 DEF ClaimsTyped
      <4> QED BY <4>2, <4>3
    <3>10. CASE Remove(c)
      BY <3>10, <3>0, ReturnTyped DEF Remove
    <3> QED BY <2>1, <3>1, <3>2, <3>3, <3>4, <3>5, <3>6, <3>7, <3>8, <3>9, <3>10 DEF Contend
  <2>2. ASSUME NEW p \in Pids, Die(p) \/ Reuse(p) \/ StopOrContinue(p) PROVE TypeOK'
    <3>0. quiet' \in BOOLEAN
      BY <2>2 DEF Die, Reuse, StopOrContinue, Becomes
    <3>1. CASE Die(p)
      <4>1. ClaimsTyped'
        <5>1. \A c \in Contenders : handles[c] \in 0..MaxHandles /\ (holds[c] => handles[c] > 0)
          OBVIOUS
        <5>2. /\ handles' = [c \in Contenders |-> IF PidOf[c] = p THEN 0 ELSE handles[c]]
              /\ holds' = [c \in Contenders |-> holds[c] /\ PidOf[c] # p]
          BY <3>1 DEF Die
        <5>3. handles' \in [Contenders -> 0..MaxHandles]
          BY <5>1, <5>2, BoundAssumption
        <5>4. holds' \in [Contenders -> BOOLEAN]
          BY <5>2
        <5>5. ASSUME NEW c \in Contenders, holds'[c] PROVE handles'[c] > 0
          BY <5>1, <5>2, <5>5
        <5> QED BY <5>3, <5>4, <5>5 DEF ClaimsTyped
      <4>2. /\ file' \in Files
            /\ proc' \in [Pids -> [start : 0..MaxStart, is : ProcStates]]
        BY <3>1 DEF Die, Becomes
      <4>3. call' = [c \in Contenders |-> IF PidOf[c] = p THEN Idle ELSE call[c]]
        BY <3>1 DEF Die
      <4>4. \A c \in Contenders : call'[c].pc \notin {"idle", "remove"} => handles'[c] < MaxHandles
        BY <3>1, <4>3 DEF Die
      <4> QED BY <3>0, <4>1, <4>2, <4>3, <4>4 DEF ClaimsTyped
    <3>2. CASE Reuse(p)
      <4>1. proc' \in [Pids -> [start : 0..MaxStart, is : ProcStates]]
        BY <3>2 DEF Reuse, Becomes
      <4> QED BY <3>0, <3>2, <4>1 DEF Reuse
    <3>3. CASE StopOrContinue(p)
      BY <3>0, <3>3 DEF StopOrContinue, Becomes
    <3> QED BY <2>2, <3>1, <3>2, <3>3
  <2>3. CASE UNCHANGED vars
    BY <2>3 DEF vars
  <2> QED BY <2>1, <2>2, <2>3 DEF Next, Machine
<1> QED BY <1>1, <1>2, PTL DEF Spec

-----------------------------------------------------------------------------
(* What is true of the lock on a quiet machine.                            *)

\* the record is that of a running process
Genuine(r) ==
  \E d \in Contenders : r = Mine(d) /\ Running(d)

\* What a call knows: nobody took a record for stale or for garbage; the record
\* it is judging is genuine, and still at the path if it is its own; a refresh
\* and an unlink have their own record at the path, and nobody holds what it is
\* unlinking.
CallInv(c) ==
  /\ call[c].pc \notin {"clear", "stale"}
  /\ ~call[c].replace
  /\ call[c].pc = "classify" => Genuine(call[c].seen)
  /\ call[c].pc = "classify" /\ call[c].seen = Mine(c) => file = Mine(c)
  /\ call[c].pc = "refresh" => file = Mine(c)
  /\ call[c].pc = "remove" => file = Mine(c) /\ ~holds[c]

\* The inductive invariant, for as long as the machine is quiet.
QuietInv ==
  /\ TypeOK
  /\ \A p \in Pids : proc[p].start = 0 /\ proc[p].is \in {"gateway", "dead"}
  /\ file = NoFile \/ Genuine(file)
  /\ HolderRecorded
  /\ \A c \in Contenders : CallInv(c)

\* Records of two owners differ.
LEMMA MineInjective ==
  ASSUME NEW c \in Contenders, NEW d \in Contenders, Mine(c) = Mine(d)
  PROVE c = d
BY RecordsAreFiles DEF Mine, Record

\* On a quiet machine the invariant holds at the start,
LEMMA QuietInit == Init /\ quiet => QuietInv
<1> SUFFICES ASSUME Init, quiet PROVE QuietInv
  OBVIOUS
<1>1. TypeOK
  BY TypeStart
<1>2. file = NoFile
  BY DEF Init
<1>3. \A c \in Contenders : call[c] = Idle /\ ~holds[c]
  BY DEF Init
<1>4. \A p \in Pids : proc[p].start = 0 /\ proc[p].is \in {"gateway", "dead"}
  BY DEF Init
<1> QED BY <1>1, <1>2, <1>3, <1>4 DEF QuietInv, HolderRecorded, CallInv

\* A step of one contender disturbs no other, when the file it adds or takes away
\* is its own.
LEMMA LocalStep ==
  ASSUME quiet, QuietInv, TypeOK', UNCHANGED proc, NEW c \in Contenders,
         \/ file' = file
         \/ file = NoFile /\ file' = Mine(c) /\ Running(c)
         \/ file' = NoFile /\ file = Mine(c),
         \A d \in Contenders \ {c} : call'[d] = call[d] /\ (holds'[d] <=> holds[d]),
         holds'[c] => file' = Mine(c),
         CallInv(c)'
  PROVE  QuietInv'
<1>1. \A d \in Contenders : Mine(d)' = Mine(d) /\ (Running(d)' <=> Running(d))
  BY DEF Mine, Running
<1>2. \A r : Genuine(r) => Genuine(r)'
  BY <1>1 DEF Genuine
<1>3. Mine(c) # NoFile
  BY MineIsFile DEF QuietInv
<1>4. ASSUME NEW d \in Contenders \ {c}, file = Mine(d) PROVE file' = Mine(d)
  BY <1>3, <1>4, MineInjective, MineIsFile DEF QuietInv
<1>5. file' = NoFile \/ Genuine(file')
  BY DEF QuietInv, Genuine
<1>6. (file = NoFile \/ Genuine(file))'
  BY <1>1, <1>5 DEF Genuine
<1>7. ASSUME NEW d \in Contenders, holds'[d] PROVE file' = Mine(d)
  <2>1. CASE d = c
    BY <2>1, <1>7
  <2>2. CASE d # c
    BY <2>2, <1>7, <1>4 DEF QuietInv, HolderRecorded
  <2> QED BY <2>1, <2>2
<1>8. HolderRecorded'
  BY <1>7, <1>1 DEF HolderRecorded
<1>9. ASSUME NEW d \in Contenders PROVE CallInv(d)'
  <2>1. CASE d = c
    BY <2>1
  <2>2. CASE d # c
    <3>1. CallInv(d)
      BY DEF QuietInv
    <3>2. call'[d] = call[d] /\ (holds'[d] <=> holds[d])
      BY <2>2
    <3>3. file = Mine(d) => file' = Mine(d)'
      BY <2>2, <1>4, <1>1
    <3>4. Mine(d)' = Mine(d)
      BY <1>1
    <3>5. Genuine(call[d].seen) => Genuine(call[d].seen)'
      BY <3>2, <1>1 DEF Genuine
    <3> QED BY <3>1, <3>2, <3>3, <3>4, <3>5 DEF CallInv
  <2> QED BY <2>1, <2>2
<1> QED BY <1>6, <1>8, <1>9 DEF QuietInv

\* What ended the quiet stays.
LEMMA NeverQuietAgain == [Next]_vars /\ quiet' => quiet
BY DEF Next, Machine, Die, Reuse, StopOrContinue, Becomes, Contend, TryAcquire, ClearGarbage,
       ReadLock, Classify, Refresh, RemoveStale, Create, ReadWinner, Release, Remove, vars

\* and every step that leaves the machine quiet preserves it.
LEMMA QuietStep == quiet' /\ QuietInv /\ TypeOK' /\ [Next]_vars => QuietInv'
<1> SUFFICES ASSUME quiet', QuietInv, TypeOK', [Next]_vars PROVE QuietInv'
  OBVIOUS
<1>0. quiet
  BY NeverQuietAgain
<1>1. ASSUME NEW c \in Contenders, Contend(c) PROVE QuietInv'
  <2> DEFINE CallType == [pc : CallPcs, seen : Files, replace : BOOLEAN, races : 0..MaxRaces]
  <2>0. call \in [Contenders -> CallType] /\ holds \in [Contenders -> BOOLEAN]
    BY DEF QuietInv, TypeOK
  <2>1. CallInv(c) /\ (holds[c] => file = Mine(c)) /\ file # Garbage
    BY <1>0, MineIsFile, FileKinds DEF QuietInv, HolderRecorded, Genuine
  <2>2. UNCHANGED proc => Mine(c)' = Mine(c)
    BY DEF Mine
  <2>3. CASE TryAcquire(c)
    <3>1. call' = [call EXCEPT ![c] = [pc |-> "read", seen |-> NoFile,
                                       replace |-> FALSE, races |-> 0]]
      <4>1. PICK r \in {FALSE, MayReplace} :
              /\ call' = [call EXCEPT ![c] =
                           [pc |-> IF file = Garbage THEN "clear" ELSE "read",
                            seen |-> NoFile, replace |-> r, races |-> 0]]
              /\ IF r THEN quiet' = FALSE ELSE quiet' = quiet
        BY <2>3 DEF TryAcquire
      <4>2. r = FALSE
        BY <1>0, <4>1, FlagAssumption
      <4> QED BY <2>1, <4>1, <4>2
    <3>2. CallInv(c)'
      BY <3>1, <2>0 DEF CallInv
    <3> QED BY <2>3, <3>1, <3>2, <2>0, <2>1, <1>0, LocalStep DEF TryAcquire
  <2>4. CASE ReadLock(c)
    <3>1. file.kind = "record" => Genuine(file)'
      BY <2>4, FileKinds DEF ReadLock, QuietInv, Genuine, Mine, Running
    <3>2. CallInv(c)'
      BY <2>4, <3>1, <2>0, <2>1, <2>2 DEF ReadLock, CallInv, Genuine
    <3> QED BY <2>4, <3>2, <2>0, <2>1, <1>0, LocalStep DEF ReadLock
  <2>5. CASE Classify(c)
    <3>1. PICK d \in Contenders : call[c].seen = Mine(d) /\ Running(d)
      BY <2>5, <2>1 DEF Classify, At, CallInv, Genuine
    <3>2. PidOf[d] \in Pids /\ proc[PidOf[d]].is = "gateway"
      BY <3>1, PidAssumption DEF Running
    <3>3. ~StaleRecord(c, call[c].seen)
      BY <3>1, <3>2, MineIsFile DEF StaleRecord, Corpse, QuietInv
    <3>4. ~StealInProcess(c, call[c].seen)
      BY <2>1 DEF StealInProcess, CallInv
    <3>5. SelfReacquire(c, call[c].seen) => file = Mine(c)
      BY <2>5, <2>1, <3>1, MineIsFile DEF Classify, At, SelfReacquire, CallInv, QuietInv
    <3>6. \/ Goto(c, "refresh") /\ file = Mine(c)
          \/ Return(c)
      BY <2>5, <3>3, <3>4, <3>5 DEF Classify
    <3>7. UNCHANGED <<file, proc, holds>>
      BY <2>5 DEF Classify
    <3>8. CallInv(c)'
      BY <3>6, <3>7, <2>0, <2>1, <2>2 DEF CallInv, Goto, Return
    <3>9. \A d2 \in Contenders \ {c} : call'[d2] = call[d2]
      BY <3>6, <2>0 DEF Goto, Return
    <3> QED BY <3>7, <3>8, <3>9, <2>1, <1>0, LocalStep
  <2>6. CASE Refresh(c)
    <3>1. file = Mine(c)
      BY <2>6, <2>1 DEF Refresh, At, CallInv
    <3>2. CallInv(c)'
      BY <2>6, <2>0 DEF Refresh, Win, Return, CallInv
    <3> QED BY <2>6, <3>1, <3>2, <2>0, <1>0, LocalStep DEF Refresh, Win, Return
  <2>7. CASE Create(c)
    <3>1. CASE file = NoFile
      <4>1. file' = Mine(c) /\ Win(c) /\ UNCHANGED proc /\ Running(c)
        BY <2>7, <3>1 DEF Create, At
      <4>2. CallInv(c)'
        BY <4>1, <2>0 DEF Win, Return, CallInv
      <4> QED BY <3>1, <4>1, <4>2, <2>0, <1>0, LocalStep DEF Win, Return
    <3>2. CASE file # NoFile
      <4>1. (Goto(c, "winner") \/ Return(c)) /\ UNCHANGED <<file, proc, holds>>
        BY <2>7, <3>2 DEF Create
      <4>2. CallInv(c)'
        BY <4>1, <2>0, <2>1 DEF Goto, Return, CallInv
      <4>3. \A d \in Contenders \ {c} : call'[d] = call[d]
        BY <4>1, <2>0 DEF Goto, Return
      <4> QED BY <4>1, <4>2, <4>3, <2>1, <1>0, LocalStep
    <3> QED BY <3>1, <3>2
  <2>8. CASE ReadWinner(c)
    <3>1. CallInv(c)'
      BY <2>8, <2>0, <2>1 DEF ReadWinner, Return, CallInv
    <3> QED BY <2>8, <3>1, <2>0, <2>1, <1>0, LocalStep DEF ReadWinner, Return
  <2>9. CASE Release(c)
    <3>1. ~holds'[c] /\ UNCHANGED <<file, proc>>
      BY <2>9, <2>0 DEF Release
    <3>2. (Goto(c, "remove") /\ file = Mine(c)) \/ UNCHANGED call
      BY <2>9, FileKinds, MineIsFile DEF Release, OwnedByUs, QuietInv, Genuine
    <3>3. CallInv(c)'
      BY <2>9, <3>1, <3>2, <2>0, <2>1, <2>2 DEF Release, At, Goto, CallInv
    <3>4. \A d \in Contenders \ {c} : call'[d] = call[d]
      BY <3>2, <2>0 DEF Goto
    <3> QED BY <2>9, <3>1, <3>3, <3>4, <2>0, <1>0, LocalStep DEF Release
  <2>10. CASE Remove(c)
    <3>1. file = Mine(c) /\ ~holds[c]
      BY <2>10, <2>1 DEF Remove, At, CallInv
    <3>2. CallInv(c)'
      BY <2>10, <2>0 DEF Remove, Return, CallInv
    <3> QED BY <2>10, <3>1, <3>2, <2>0, <1>0, LocalStep DEF Remove, Return
  <2>11. ~ClearGarbage(c) /\ ~RemoveStale(c)
    BY <2>1 DEF ClearGarbage, RemoveStale, At, CallInv
  <2> QED BY <1>1, <2>3, <2>4, <2>5, <2>6, <2>7, <2>8, <2>9, <2>10, <2>11 DEF Contend
<1>2. ASSUME NEW p \in Pids, Die(p) \/ Reuse(p) \/ StopOrContinue(p) PROVE QuietInv'
  BY <1>2 DEF Die, Reuse, StopOrContinue, Becomes
<1>3. CASE UNCHANGED vars
  BY <1>3 DEF vars, QuietInv, TypeOK, HolderRecorded, Genuine, Mine, Running, CallInv
<1> QED BY <1>1, <1>2, <1>3 DEF Next, Machine

\* The types, and the quiet machine's invariant while it is quiet.
IInv == TypeOK /\ (quiet => QuietInv)

\* The types with the invariant of a quiet machine always hold.
LEMMA Inductive == Spec => []IInv
<1>1. Init => IInv
  BY TypeStart, QuietInit DEF IInv
<1>2. IInv /\ TypeOK' /\ [Next]_vars => IInv'
  BY QuietStep, NeverQuietAgain DEF IInv
<1> QED BY <1>1, <1>2, TypeCorrect, PTL DEF Spec

\* The record of a holder stays at the path while it holds, as long as the machine is quiet.
THEOREM HolderKept == Spec => []HolderRecorded
<1>1. IInv => HolderRecorded
  BY DEF IInv, QuietInv, HolderRecorded
<1> QED BY <1>1, Inductive, PTL

\* No two contenders hold the credential at once, as long as the machine is quiet.
THEOREM Exclusion == Spec => []OneHolder
<1>1. HolderRecorded => OneHolder
  BY MineInjective DEF HolderRecorded, OneHolder
<1> QED BY <1>1, HolderKept, PTL

----------------------------------------------------------------------------
(* HANDOFFS *)

HIDE DEF Idle, CallPcs, ProcStates, machine, claims

\* The requests that were made, and the watchers that have a row in hand.
Accepted == 1..Len(asked)
Working(g) == gw[g].at \in {"claimed", "turn", "completing", "failing"}

\* The types of the variables, with the record sets that the properties of
\* the run leave out.
Rows == [state : {"null", "pending", "running"} \cup Settled,
         platform : Platforms \cup {"none"}, ask : Asks \cup {None}]
Calls == [at : {"idle", "polling", "late"}, sess : Sessions \cup {None},
          ask : Asks \cup {None}]
Listings == [sess : Sessions, platform : Platforms]
Watchers == [at : {"down", "idle", "tick", "claimed", "turn", "completing", "failing"},
             todo : SUBSET Listings, sess : Sessions \cup {None},
             platform : Platforms \cup {"none"}, ask : Asks \cup {None}]

HandoffTyped ==
    /\ row \in [Sessions -> Rows]
    /\ cli \in [Clients -> Calls]
    /\ gw \in [Gateways -> Watchers]
    /\ bound \in [Platforms -> Sessions \cup {None}]
    /\ crashes \in 0..MaxCrashes
    /\ asked \in Seq(Listings)
    /\ Len(asked) <= MaxAsks
    /\ expired \subseteq Accepted /\ served \subseteq Accepted
    /\ turns \in [Asks -> Seq(Platforms)]
    /\ told \in [Asks -> {"none", "completed", "failed", "timeout", "gone"}]

\* What is in somebody's hands is a request of the session it is filed under.
CallOurs(c) == cli[c].at # "idle" =>
    cli[c].sess \in Sessions /\ cli[c].ask \in Accepted /\ asked[cli[c].ask].sess = cli[c].sess
WorkOurs(g) == Working(g) =>
    /\ gw[g].sess \in Sessions /\ gw[g].platform \in Platforms
    /\ gw[g].ask \in Accepted /\ asked[gw[g].ask].sess = gw[g].sess
RowOurs(s) == row[s].state # "null" =>
    /\ row[s].platform \in Platforms
    /\ row[s].ask \in Accepted /\ asked[row[s].ask].sess = s

Ours ==
    /\ \A c \in Clients : CallOurs(c)
    /\ \A g \in Gateways : WorkOurs(g)
    /\ \A s \in Sessions : RowOurs(s)

\* A row holds the latest request of its session.
IsLatest(q) == row[asked[q].sess].state # "null" /\ q <= row[asked[q].sess].ask
Latest == \A q \in Accepted : IsLatest(q)

\* A request that was not made has no history.
Untouched(r) == r > Len(asked) => turns[r] = <<>> /\ told[r] = "none"
Fresh == \A r \in Asks : Untouched(r)

\* A request is dispatched by the watcher that has claimed it, and only then.
ClaimUndispatched(g) == gw[g].at = "claimed" => turns[gw[g].ask] = <<>>
RowUndispatched(s) == row[s].state = "pending" => turns[row[s].ask] = <<>>
Undispatched ==
    /\ \A r \in Asks : Len(turns[r]) <= 1
    /\ \A s \in Sessions : RowUndispatched(s)
    /\ \A g \in Gateways : ClaimUndispatched(g)

\* A claim takes its request off the table, for one watcher.
Taken(g, s) == gw[g].at = "claimed" /\ row[s].state = "pending" => row[s].ask # gw[g].ask
SameClaim(g, h) == gw[g].at = "claimed" /\ gw[h].at = "claimed" /\ gw[g].ask = gw[h].ask => g = h
OneClaim ==
    /\ \A g \in Gateways, s \in Sessions : Taken(g, s)
    /\ \A g, h \in Gateways : SameClaim(g, h)

\* While nobody gave up on a session, one watcher at a time works for it, on the
\* row that says so, and a completed row was served.  A client that gives up may
\* fail the row under the feet of its watcher, and then a second request is on.
WorksFor(g, s) == Working(g) /\ gw[g].sess = s =>
    /\ row[s].state = "running" /\ row[s].ask = gw[g].ask
    /\ gw[g].at = "completing" => gw[g].ask \in served
SameWork(g, h, s) == Working(g) /\ Working(h) /\ gw[g].sess = s /\ gw[h].sess = s => g = h
TrulyDone(s) == row[s].state = "completed" => row[s].ask \in served
OneWorker ==
    \A s \in Sessions : ~GaveUpOn(s) =>
       /\ \A g \in Gateways : WorksFor(g, s)
       /\ \A g, h \in Gateways : SameWork(g, h, s)
       /\ TrulyDone(s)

HandoffInv ==
    /\ HandoffTyped /\ Ours /\ Latest /\ Fresh
    /\ Undispatched /\ OneClaim /\ OneWorker /\ ToldTheTruth

USE HandoffAssumption DEF Asks, None, Settled, Accepted

\* The row that a tick takes up first is one of those it has listed.
LEMMA OldestListed ==
    ASSUME NEW todo \in SUBSET Listings, todo # {}
    PROVE  Oldest(todo) \in todo
<1> DEFINE S == {e.sess : e \in todo}
<1>1. S \subseteq Nat /\ S # {}
  BY DEF Listings
<1>2. PICK s \in S : \A k \in S : <<k, s>> \notin OpToRel(<, Nat)
  BY <1>1, WFMin, NatLessThanWellFounded, Zenon
<1>3. \A k \in S : ~ (k < s)
  BY <1>1, <1>2, Zenon DEF OpToRel
<1>4. PICK e \in todo : e.sess = s
  OBVIOUS
<1>5. \A f \in todo : e.sess <= f.sess
  <2> TAKE f \in todo
  <2>1. f.sess \in S /\ f.sess \in Nat /\ s \in Nat
    BY <1>1 DEF Listings
  <2> QED BY <2>1, <1>3, <1>4
<1> QED BY <1>5 DEF Oldest

Quiet(g) ==
    \/ ListPending(g) \/ EndTick(g) \/ PipelineRefuses(g) \/ TurnFails(g)
    \/ CompleteThrows(g) \/ Crash(g) \/ Restart(g)

\* The steps, by what they do to the rows.
LEMMA StepCases ==
    ASSUME HandoffNext
    PROVE  \/ \E c \in Clients : \E s \in Sessions, p \in Platforms : RequestHandoff(c, s, p)
           \/ \E c \in Clients : PollReads(c) \/ ClientGone(c)
           \/ \E c \in Clients : DeadlinePasses(c)
           \/ \E c \in Clients : TimeOut(c)
           \/ \E g \in Gateways : Quiet(g)
           \/ \E g \in Gateways : ClaimHandoff(g)
           \/ \E g \in Gateways : Dispatch(g)
           \/ \E g \in Gateways : TurnSucceeds(g)
           \/ \E g \in Gateways : CompleteHandoff(g) \/ FailRow(g)
  BY Zenon DEF HandoffNext, Watch, Quiet

----------------------------------------------------------------------------
(* What the actions do to one field at a time *)

\* The state of a row changes, and nothing else of it.
RowGoes(s, state) ==
    /\ s \in Sessions
    /\ row'[s].state = state /\ row'[s].platform = row[s].platform /\ row'[s].ask = row[s].ask
    /\ \A t \in Sessions \ {s} : row'[t] = row[t]

\* A watcher goes on with the row it has in hand.
Moves(g, at) ==
    /\ gw'[g].at = at /\ gw'[g].sess = gw[g].sess /\ gw'[g].platform = gw[g].platform
    /\ gw'[g].ask = gw[g].ask
    /\ \A h \in Gateways \ {g} : gw'[h] = gw[h]

\* A watcher has no row in hand.
Drops(g) ==
    /\ gw'[g].at \in {"down", "idle", "tick"}
    /\ \A h \in Gateways \ {g} : gw'[h] = gw[h]

\* A client returns.
Returns(c, kind) ==
    /\ cli'[c].at = "idle"
    /\ \A d \in Clients \ {c} : cli'[d] = cli[d]
    /\ told'[cli[c].ask] = kind
    /\ \A r \in Asks : r # cli[c].ask => told'[r] = told[r]

\* A write of the state of a row changes nothing else.
LEMMA RowEffect ==
    ASSUME row \in [Sessions -> Rows], NEW s \in Sessions, NEW state \in {"running"} \cup Settled,
           row' = [row EXCEPT ![s].state = state]
    PROVE  RowGoes(s, state) /\ row' \in [Sessions -> Rows]
<1>1. row'[s] = [row[s] EXCEPT !.state = state] /\ \A t \in Sessions \ {s} : row'[t] = row[t]
  OBVIOUS
<1>2. [row[s] EXCEPT !.state = state] \in Rows
  BY DEF Rows
<1>3. row' \in [Sessions -> Rows]
  BY <1>1, <1>2
<1>4. row'[s].state = state /\ row'[s].platform = row[s].platform /\ row'[s].ask = row[s].ask
  BY <1>1 DEF Rows
<1> QED BY <1>1, <1>3, <1>4 DEF RowGoes

\* A watcher that goes on keeps the row it has in hand.
LEMMA MoveEffect ==
    ASSUME gw \in [Gateways -> Watchers], NEW g \in Gateways,
           NEW at \in {"turn", "completing", "failing"},
           gw' = [gw EXCEPT ![g].at = at]
    PROVE  Moves(g, at) /\ gw' \in [Gateways -> Watchers]
<1>1. gw'[g] = [gw[g] EXCEPT !.at = at] /\ \A h \in Gateways \ {g} : gw'[h] = gw[h]
  OBVIOUS
<1>2. [gw[g] EXCEPT !.at = at] \in Watchers
  BY DEF Watchers
<1>3. gw' \in [Gateways -> Watchers]
  BY <1>1, <1>2
<1>4. /\ gw'[g].at = at /\ gw'[g].sess = gw[g].sess
      /\ gw'[g].platform = gw[g].platform /\ gw'[g].ask = gw[g].ask
  BY <1>1 DEF Watchers
<1> QED BY <1>1, <1>3, <1>4 DEF Moves

\* A watcher that stops, starts or ends its tick has no row in hand.
LEMMA DropEffect ==
    ASSUME gw \in [Gateways -> Watchers], NEW g \in Gateways, NEW w \in Watchers,
           w.at \in {"down", "idle", "tick"}, gw' = [gw EXCEPT ![g] = w]
    PROVE  Drops(g) /\ gw' \in [Gateways -> Watchers]
  BY DEF Drops

\* A client that returns has told its request one thing.
LEMMA ReturnEffect ==
    ASSUME cli \in [Clients -> Calls], NEW c \in Clients, cli[c].ask \in Asks,
           told \in [Asks -> {"none", "completed", "failed", "timeout", "gone"}],
           NEW kind \in {"completed", "failed", "timeout", "gone"},
           ReturnWith(c, kind)
    PROVE  /\ Returns(c, kind) /\ cli' \in [Clients -> Calls]
           /\ told' \in [Asks -> {"none", "completed", "failed", "timeout", "gone"}]
<1>1. IdleClient \in Calls /\ IdleClient.at = "idle"
  BY DEF Calls, IdleClient
<1> QED BY <1>1 DEF ReturnWith, Returns

----------------------------------------------------------------------------
(* The steps, as far as the invariant is concerned *)

\* What the steps do: a request;
Requested(c, s, p) ==
    /\ c \in Clients /\ s \in Sessions /\ p \in Platforms
    /\ Len(asked) < MaxAsks /\ Requestable(s)
    /\ Len(asked') = Len(asked) + 1
    /\ \A r \in Accepted : asked'[r] = asked[r]
    /\ asked'[Len(asked) + 1].sess = s
    /\ row'[s].state = "pending" /\ row'[s].platform = p /\ row'[s].ask = Len(asked) + 1
    /\ \A t \in Sessions \ {s} : row'[t] = row[t]
    /\ cli'[c].at = "polling" /\ cli'[c].sess = s /\ cli'[c].ask = Len(asked) + 1
    /\ \A d \in Clients \ {c} : cli'[d] = cli[d]
    /\ UNCHANGED <<gw, expired, turns, served, told>>

\* an answer that was found in the row, or no row;
Answered(c) ==
    /\ c \in Clients /\ cli[c].at # "idle"
    /\ \/ /\ row[cli[c].sess].state \in Settled
          /\ Returns(c, row[cli[c].sess].state)
       \/ Returns(c, "gone")
    /\ UNCHANGED <<row, gw, asked, expired, turns, served>>

\* a deadline that passes;
Lingers(c) ==
    /\ c \in Clients /\ cli[c].at # "idle"
    /\ cli'[c].sess = cli[c].sess /\ cli'[c].ask = cli[c].ask
    /\ \A d \in Clients \ {c} : cli'[d] = cli[d]
    /\ UNCHANGED <<row, gw, history>>

\* a client that gives up;
GivesUp(c) ==
    /\ c \in Clients /\ cli[c].at # "idle"
    /\ RowGoes(cli[c].sess, "failed")
    /\ expired' = expired \cup {cli[c].ask}
    /\ Returns(c, "timeout")
    /\ UNCHANGED <<gw, asked, turns, served>>

\* a watcher that writes no row;
Rests(g) ==
    /\ g \in Gateways
    /\ Drops(g) \/ (Working(g) /\ Moves(g, "failing"))
    /\ UNCHANGED <<row, cli, history>>

\* a claim;
Claims(g, s) ==
    /\ g \in Gateways /\ ~Working(g)
    /\ row[s].state = "pending" /\ RowGoes(s, "running")
    /\ gw'[g].at = "claimed" /\ gw'[g].sess = s /\ gw'[g].ask = row[s].ask
    /\ gw'[g].platform \in Platforms
    /\ \A h \in Gateways \ {g} : gw'[h] = gw[h]
    /\ UNCHANGED <<cli, history>>

\* a dispatch;
Dispatches(g) ==
    /\ g \in Gateways /\ gw[g].at = "claimed"
    /\ Moves(g, "turn")
    /\ turns'[gw[g].ask] = Append(turns[gw[g].ask], gw[g].platform)
    /\ \A r \in Asks : r # gw[g].ask => turns'[r] = turns[r]
    /\ UNCHANGED <<row, cli, asked, expired, served, told>>

\* a turn that has succeeded;
Serves(g) ==
    /\ g \in Gateways /\ gw[g].at = "turn"
    /\ Moves(g, "completing")
    /\ served' = served \cup {gw[g].ask}
    /\ UNCHANGED <<row, cli, asked, expired, turns, told>>

\* and the end of a row.
Settles(g, state) ==
    /\ g \in Gateways
    /\ \/ gw[g].at = "completing" /\ state = "completed"
       \/ gw[g].at = "failing" /\ state = "failed"
    /\ RowGoes(gw[g].sess, state)
    /\ Drops(g)
    /\ UNCHANGED <<cli, history>>

Base == HandoffTyped /\ Ours

\* A request makes a fresh row of its session.
LEMMA RequestEffect ==
    ASSUME Base, NEW c \in Clients, NEW s \in Sessions, NEW p \in Platforms, RequestHandoff(c, s, p)
    PROVE  HandoffTyped' /\ Requested(c, s, p)
<1> DEFINE r == Len(asked) + 1
<1> DEFINE new == [state |-> "pending", platform |-> p, ask |-> r]
<1> DEFINE polled == [at |-> "polling", sess |-> s, ask |-> r]
<1>1. Len(asked) \in Nat /\ r \in 1..MaxAsks
  BY DEF Base, HandoffTyped, RequestHandoff
<1>2. new \in Rows /\ polled \in Calls /\ Listed(s, p) \in Listings /\ Listed(s, p).sess = s
  BY <1>1 DEF Rows, Calls, Listings, Listed
<1>3. row' = [row EXCEPT ![s] = new] /\ cli' = [cli EXCEPT ![c] = polled]
  BY DEF RequestHandoff
<1>4. row' \in [Sessions -> Rows] /\ row'[s] = new /\ \A t \in Sessions \ {s} : row'[t] = row[t]
  <2> HIDE DEF new
  <2> QED BY <1>2, <1>3 DEF Base, HandoffTyped
<1>5. cli' \in [Clients -> Calls] /\ cli'[c] = polled /\ \A d \in Clients \ {c} : cli'[d] = cli[d]
  <2> HIDE DEF polled
  <2> QED BY <1>2, <1>3 DEF Base, HandoffTyped
<1>6. /\ asked' \in Seq(Listings) /\ Len(asked') = r /\ asked'[r].sess = s
      /\ \A i \in Accepted : asked'[i] = asked[i]
  <2>1. asked' = Append(asked, Listed(s, p))
    BY DEF RequestHandoff
  <2>2. asked \in Seq(Listings)
    BY DEF Base, HandoffTyped
  <2>3. asked'[r] = Listed(s, p)
    BY <2>1, <2>2, <1>2
  <2> QED BY <2>1, <2>2, <2>3, <1>2
<1>7. HandoffTyped'
  BY <1>1, <1>4, <1>5, <1>6 DEF Base, HandoffTyped, RequestHandoff
<1> QED BY <1>1, <1>4, <1>5, <1>6, <1>7 DEF RequestHandoff, Requested

\* A client that finds its row settled, or gone, returns that.
LEMMA AnswerEffect ==
    ASSUME Base, NEW c \in Clients, PollReads(c) \/ ClientGone(c)
    PROVE  HandoffTyped' /\ Answered(c)
<1>1. cli[c].at # "idle" /\ cli[c].ask \in Asks
  BY DEF Base, HandoffTyped, Ours, CallOurs, PollReads, ClientGone
<1>2. PICK kind \in {"completed", "failed", "gone"} :
         /\ ReturnWith(c, kind)
         /\ kind = "gone" \/ (row[cli[c].sess].state \in Settled /\ kind = row[cli[c].sess].state)
         /\ UNCHANGED <<row, gw, bound, crashes, asked, expired, turns, served>>
  BY DEF PollReads, ClientGone
<1>3. /\ Returns(c, kind) /\ cli' \in [Clients -> Calls]
      /\ told' \in [Asks -> {"none", "completed", "failed", "timeout", "gone"}]
  BY <1>1, <1>2, ReturnEffect DEF Base, HandoffTyped
<1> QED BY <1>1, <1>2, <1>3 DEF Base, HandoffTyped, Answered

\* A client past its deadline only remembers that it is.
LEMMA LateEffect ==
    ASSUME Base, NEW c \in Clients, DeadlinePasses(c)
    PROVE  HandoffTyped' /\ Lingers(c)
<1>1. cli' = [cli EXCEPT ![c].at = "late"] /\ cli[c] \in Calls /\ cli \in [Clients -> Calls]
  BY DEF Base, HandoffTyped, DeadlinePasses
<1>2. cli'[c] = [cli[c] EXCEPT !.at = "late"] /\ \A d \in Clients \ {c} : cli'[d] = cli[d]
  BY <1>1
<1>3. [cli[c] EXCEPT !.at = "late"] \in Calls
  BY <1>1 DEF Calls
<1>4. cli'[c].sess = cli[c].sess /\ cli'[c].ask = cli[c].ask
  BY <1>1, <1>2 DEF Calls
<1>5. cli' \in [Clients -> Calls]
  BY <1>1, <1>2, <1>3
<1> QED BY <1>2, <1>4, <1>5 DEF Base, HandoffTyped, DeadlinePasses, Lingers, history

\* A client that gives up fails the row of its session, whoever has it.
LEMMA TimeOutEffect ==
    ASSUME Base, NEW c \in Clients, TimeOut(c)
    PROVE  HandoffTyped' /\ GivesUp(c)
<1>1. /\ cli[c].at # "idle" /\ cli[c].ask \in Accepted
      /\ cli[c].ask \in Asks /\ cli[c].sess \in Sessions
  BY DEF Base, HandoffTyped, Ours, CallOurs, TimeOut
<1>2. /\ Returns(c, "timeout") /\ cli' \in [Clients -> Calls]
      /\ told' \in [Asks -> {"none", "completed", "failed", "timeout", "gone"}]
  BY <1>1, ReturnEffect DEF Base, HandoffTyped, TimeOut
<1>3. RowGoes(cli[c].sess, "failed") /\ row' \in [Sessions -> Rows]
  BY <1>1, RowEffect DEF Base, HandoffTyped, TimeOut, FailHandoff
<1> QED BY <1>1, <1>2, <1>3 DEF Base, HandoffTyped, TimeOut, GivesUp

\* The steps of a watcher that write no row.
LEMMA QuietEffect ==
    ASSUME Base, NEW g \in Gateways, Quiet(g)
    PROVE  HandoffTyped' /\ Rests(g)
<1>1. crashes' \in 0..MaxCrashes /\ UNCHANGED <<row, cli, bound, history>>
  BY DEF Base, HandoffTyped, Quiet, ListPending, EndTick, PipelineRefuses, TurnFails,
         CompleteThrows, Crash, Restart
<1>2. gw \in [Gateways -> Watchers] /\ row \in [Sessions -> Rows]
  BY DEF Base, HandoffTyped
<1>3. gw' \in [Gateways -> Watchers] /\ (Drops(g) \/ (Working(g) /\ Moves(g, "failing")))
  <2>1. CASE PipelineRefuses(g) \/ TurnFails(g) \/ CompleteThrows(g)
    <3>1. gw' = [gw EXCEPT ![g].at = "failing"] /\ Working(g)
      BY <2>1 DEF PipelineRefuses, TurnFails, CompleteThrows, Working
    <3> QED BY <3>1, <1>2, MoveEffect
  <2>2. CASE EndTick(g) \/ Crash(g) \/ Restart(g)
    <3>1. PICK w \in {IdleWatcher, [IdleWatcher EXCEPT !.at = "down"]} : gw' = [gw EXCEPT ![g] = w]
      BY <2>2 DEF EndTick, Crash, Restart
    <3>2. w \in Watchers /\ w.at \in {"down", "idle", "tick"}
      BY DEF Watchers, IdleWatcher
    <3> QED BY <3>1, <3>2, <1>2, DropEffect
  <2>3. CASE ListPending(g)
    <3> DEFINE todo == {Listed(s, row[s].platform) : s \in Pending}
    <3>1. todo \in SUBSET Listings
      <4> SUFFICES ASSUME NEW s \in Pending
                   PROVE  Listed(s, row[s].platform) \in Listings
        OBVIOUS
      <4>1. s \in Sessions /\ row[s].platform \in Platforms
        BY DEF Pending, Base, Ours, RowOurs
      <4> QED BY <4>1 DEF Listings, Listed
    <3>2. gw' = [gw EXCEPT ![g].at = "tick", ![g].todo = todo]
      BY <2>3 DEF ListPending
    <3> HIDE DEF todo
    <3>3. /\ gw'[g] = [gw[g] EXCEPT !.at = "tick", !.todo = todo]
          /\ \A h \in Gateways \ {g} : gw'[h] = gw[h]
      BY <3>2, <1>2
    <3>4. [gw[g] EXCEPT !.at = "tick", !.todo = todo] \in Watchers
      BY <3>1, <1>2 DEF Watchers
    <3>5. gw'[g].at = "tick"
      BY <3>3, <1>2 DEF Watchers
    <3>6. gw' \in [Gateways -> Watchers]
      BY <3>2, <3>3, <3>4, <1>2
    <3> QED BY <3>3, <3>5, <3>6 DEF Drops
  <2> QED BY <2>1, <2>2, <2>3 DEF Quiet
<1> QED BY <1>1, <1>2, <1>3 DEF Base, HandoffTyped, Rests, history

\* A claim takes a pending row for one watcher.
LEMMA ClaimEffect ==
    ASSUME Base, NEW g \in Gateways, ClaimHandoff(g)
    PROVE  HandoffTyped' /\ (Rests(g) \/ \E s \in Sessions : Claims(g, s))
<1>1. /\ gw \in [Gateways -> Watchers] /\ row \in [Sessions -> Rows] /\ gw[g].at = "tick"
      /\ gw[g] \in Watchers /\ gw[g].todo \in SUBSET Listings /\ gw[g].todo # {}
  BY DEF Base, HandoffTyped, ClaimHandoff, Watchers
<1> DEFINE e == Oldest(gw[g].todo)
<1>2. e \in Listings
  BY <1>1, OldestListed
<1>3. e.sess \in Sessions /\ e.platform \in Platforms
  BY <1>2 DEF Listings
<1>4. UNCHANGED <<cli, bound, crashes, history>>
  BY DEF ClaimHandoff
<1>5. CASE row[e.sess].state = "pending"
  <2>1. /\ row' = [row EXCEPT ![e.sess].state = "running"]
        /\ gw' = [gw EXCEPT ![g] = [at |-> "claimed", todo |-> @.todo \ {e}, sess |-> e.sess,
                                    platform |-> e.platform, ask |-> row[e.sess].ask]]
    BY <1>5 DEF ClaimHandoff
  <2>2. row[e.sess].ask \in Asks \cup {None}
    BY <1>1, <1>3 DEF Rows
  <2> HIDE DEF e
  <2> DEFINE w == [at |-> "claimed", todo |-> gw[g].todo \ {e}, sess |-> e.sess,
                   platform |-> e.platform, ask |-> row[e.sess].ask]
  <2>3. w \in Watchers
    BY <1>1, <1>3, <2>2 DEF Watchers
  <2>4. gw' = [gw EXCEPT ![g] = w]
    BY <2>1, <1>1
  <2>5. w.at = "claimed" /\ w.sess = e.sess /\ w.platform = e.platform /\ w.ask = row[e.sess].ask
    OBVIOUS
  <2> HIDE DEF w
  <2>6. gw' \in [Gateways -> Watchers] /\ gw'[g] = w /\ \A h \in Gateways \ {g} : gw'[h] = gw[h]
    BY <2>3, <2>4, <1>1
  <2>7. RowGoes(e.sess, "running") /\ row' \in [Sessions -> Rows]
    BY <2>1, <1>1, <1>3, RowEffect
  <2>8. Claims(g, e.sess)
    BY <2>5, <2>6, <2>7, <1>1, <1>3, <1>4, <1>5 DEF Claims, Working
  <2>9. HandoffTyped'
    BY <2>6, <2>7, <1>4 DEF Base, HandoffTyped, history
  <2> QED BY <2>8, <2>9, <1>3
<1>6. CASE row[e.sess].state # "pending"
  <2>1. gw' = [gw EXCEPT ![g].todo = @ \ {e}] /\ row' = row
    BY <1>6 DEF ClaimHandoff
  <2> HIDE DEF e
  <2>2. /\ gw'[g] = [gw[g] EXCEPT !.todo = gw[g].todo \ {e}]
        /\ \A h \in Gateways \ {g} : gw'[h] = gw[h]
    BY <2>1, <1>1
  <2>3. [gw[g] EXCEPT !.todo = gw[g].todo \ {e}] \in Watchers
    BY <1>1 DEF Watchers
  <2>4. gw'[g].at = "tick"
    BY <2>2, <1>1 DEF Watchers
  <2>5. gw' \in [Gateways -> Watchers]
    BY <2>1, <2>2, <2>3, <1>1
  <2>6. Rests(g)
    BY <2>1, <2>2, <2>4, <1>4 DEF Rests, Drops
  <2>7. HandoffTyped'
    BY <2>1, <2>5, <1>4 DEF Base, HandoffTyped, history
  <2> QED BY <2>6, <2>7
<1> QED BY <1>5, <1>6

\* A dispatch starts one turn for the request in hand.
LEMMA DispatchEffect ==
    ASSUME Base, NEW g \in Gateways, Dispatch(g)
    PROVE  HandoffTyped' /\ Dispatches(g)
<1>1. /\ gw[g].at = "claimed" /\ gw[g].ask \in Asks
      /\ gw[g].platform \in Platforms /\ gw[g].sess \in Sessions
      /\ turns[gw[g].ask] \in Seq(Platforms)
  BY DEF Base, HandoffTyped, Ours, WorkOurs, Dispatch, Working
<1>2. Moves(g, "turn") /\ gw' \in [Gateways -> Watchers]
  BY MoveEffect DEF Base, HandoffTyped, Dispatch
<1>3. /\ turns' = [turns EXCEPT ![gw[g].ask] = Append(@, gw[g].platform)]
      /\ turns \in [Asks -> Seq(Platforms)]
  BY DEF Base, HandoffTyped, Dispatch
<1>4. Append(turns[gw[g].ask], gw[g].platform) \in Seq(Platforms)
  BY <1>1
<1>5. /\ turns' \in [Asks -> Seq(Platforms)]
      /\ turns'[gw[g].ask] = Append(turns[gw[g].ask], gw[g].platform)
      /\ \A r \in Asks : r # gw[g].ask => turns'[r] = turns[r]
  BY <1>1, <1>3, <1>4
<1>6. bound' \in [Platforms -> Sessions \cup {None}]
  BY <1>1 DEF Base, HandoffTyped, Dispatch
<1> QED BY <1>1, <1>2, <1>5, <1>6 DEF Base, HandoffTyped, Dispatch, Dispatches

\* A turn that succeeds has served the request in hand.
LEMMA ServeEffect ==
    ASSUME Base, NEW g \in Gateways, TurnSucceeds(g)
    PROVE  HandoffTyped' /\ Serves(g)
<1>1. gw[g].at = "turn" /\ gw[g].ask \in Accepted
  BY DEF Base, Ours, WorkOurs, TurnSucceeds, Working
<1>2. Moves(g, "completing") /\ gw' \in [Gateways -> Watchers]
  BY MoveEffect DEF Base, HandoffTyped, TurnSucceeds
<1> QED BY <1>1, <1>2 DEF Base, HandoffTyped, TurnSucceeds, Serves

\* A watcher settles the row it has in hand.
LEMMA SettleEffect ==
    ASSUME Base, NEW g \in Gateways, CompleteHandoff(g) \/ FailRow(g)
    PROVE  HandoffTyped' /\ \E state \in Settled : Settles(g, state)
<1>1. PICK state \in Settled :
         /\ \/ gw[g].at = "completing" /\ state = "completed"
            \/ gw[g].at = "failing" /\ state = "failed"
         /\ row' = [row EXCEPT ![gw[g].sess].state = state]
         /\ NextRow(g) /\ UNCHANGED <<cli, bound, crashes, history>>
  BY DEF CompleteHandoff, FailRow, FailHandoff
<1>2. /\ gw \in [Gateways -> Watchers] /\ row \in [Sessions -> Rows] /\ gw[g].sess \in Sessions
      /\ gw[g].todo \in SUBSET Listings
  BY <1>1 DEF Base, HandoffTyped, Ours, WorkOurs, Working, Watchers
<1>3. RowGoes(gw[g].sess, state) /\ row' \in [Sessions -> Rows]
  BY <1>1, <1>2, RowEffect
<1> DEFINE w == [IdleWatcher EXCEPT !.at = "tick", !.todo = gw[g].todo]
<1>4. w \in Watchers /\ w.at = "tick"
  BY <1>2 DEF Watchers, IdleWatcher
<1>5. gw' = [gw EXCEPT ![g] = w]
  BY <1>1 DEF NextRow
<1>6. Drops(g) /\ gw' \in [Gateways -> Watchers]
  <2> HIDE DEF w
  <2> QED BY <1>2, <1>4, <1>5, DropEffect
<1>7. HandoffTyped'
  BY <1>1, <1>3, <1>6 DEF Base, HandoffTyped, history
<1> QED BY <1>1, <1>3, <1>6, <1>7 DEF Settles

\* Every step has one of these effects.
LEMMA StepEffect ==
    ASSUME Base, HandoffNext
    PROVE  /\ HandoffTyped'
           /\ \/ \E c \in Clients, s \in Sessions, p \in Platforms : Requested(c, s, p)
              \/ \E c \in Clients : Answered(c) \/ Lingers(c) \/ GivesUp(c)
              \/ \E g \in Gateways : Rests(g) \/ Dispatches(g) \/ Serves(g)
              \/ \E g \in Gateways, s \in Sessions : Claims(g, s)
              \/ \E g \in Gateways, state \in Settled : Settles(g, state)
<1> DEFINE Goal == HandoffTyped'
           /\ \/ \E c \in Clients, s \in Sessions, p \in Platforms : Requested(c, s, p)
              \/ \E c \in Clients : Answered(c) \/ Lingers(c) \/ GivesUp(c)
              \/ \E g \in Gateways : Rests(g) \/ Dispatches(g) \/ Serves(g)
              \/ \E g \in Gateways, s \in Sessions : Claims(g, s)
              \/ \E g \in Gateways, state \in Settled : Settles(g, state)
<1> SUFFICES Goal
  BY Zenon
<1>1. ASSUME NEW c \in Clients, NEW s \in Sessions, NEW p \in Platforms, RequestHandoff(c, s, p)
      PROVE  Goal
  BY <1>1, RequestEffect, Zenon
<1>2. ASSUME NEW c \in Clients, PollReads(c) \/ ClientGone(c)
      PROVE  Goal
  BY <1>2, AnswerEffect, Zenon
<1>3. ASSUME NEW c \in Clients, DeadlinePasses(c)
      PROVE  Goal
  BY <1>3, LateEffect, Zenon
<1>4. ASSUME NEW c \in Clients, TimeOut(c)
      PROVE  Goal
  BY <1>4, TimeOutEffect, Zenon
<1>5. ASSUME NEW g \in Gateways, Quiet(g)
      PROVE  Goal
  BY <1>5, QuietEffect, Zenon
<1>6. ASSUME NEW g \in Gateways, ClaimHandoff(g)
      PROVE  Goal
  BY <1>6, ClaimEffect, Zenon
<1>7. ASSUME NEW g \in Gateways, Dispatch(g)
      PROVE  Goal
  BY <1>7, DispatchEffect, Zenon
<1>8. ASSUME NEW g \in Gateways, TurnSucceeds(g)
      PROVE  Goal
  BY <1>8, ServeEffect, Zenon
<1>9. ASSUME NEW g \in Gateways, CompleteHandoff(g) \/ FailRow(g)
      PROVE  Goal
  BY <1>9, SettleEffect, Zenon
<1> QED
  <2> HIDE DEF Goal
  <2> QED BY <1>1, <1>2, <1>3, <1>4, <1>5, <1>6, <1>7, <1>8, <1>9, StepCases, Zenon

\* What the types say of the fields.
Fields ==
    /\ \A s \in Sessions : row[s].ask \in Nat
    /\ \A g \in Gateways : gw[g].ask \in Nat
    /\ \A c \in Clients : cli[c].ask \in Nat
    /\ \A r \in Asks : turns[r] \in Seq(Platforms)
    /\ \A r \in Accepted : asked[r].sess \in Sessions
    /\ Len(asked) \in 0..MaxAsks
    /\ expired \subseteq Accepted /\ served \subseteq Accepted

\* The fields have their types,
LEMMA FieldsTyped ==
    ASSUME HandoffTyped
    PROVE  Fields
<1>1. ASSUME NEW s \in Sessions PROVE row[s].ask \in Nat
  BY DEF HandoffTyped, Rows
<1>2. ASSUME NEW g \in Gateways PROVE gw[g].ask \in Nat
  BY DEF HandoffTyped, Watchers
<1>3. ASSUME NEW c \in Clients PROVE cli[c].ask \in Nat
  BY DEF HandoffTyped, Calls
<1>4. Len(asked) \in 0..MaxAsks
  BY DEF HandoffTyped
<1>5. ASSUME NEW r \in Accepted PROVE asked[r].sess \in Sessions
  <2>1. asked[r] \in Listings
    BY <1>4 DEF HandoffTyped
  <2> QED BY <2>1 DEF Listings
<1>6. ASSUME NEW r \in Asks PROVE turns[r] \in Seq(Platforms)
  BY DEF HandoffTyped
<1> QED BY <1>1, <1>2, <1>3, <1>4, <1>5, <1>6 DEF HandoffTyped, Fields

\* and have them after a step.
LEMMA FieldsTypedNext ==
    ASSUME HandoffTyped'
    PROVE  Fields'
<1>1. ASSUME NEW s \in Sessions PROVE row'[s].ask \in Nat
  BY DEF HandoffTyped, Rows
<1>2. ASSUME NEW g \in Gateways PROVE gw'[g].ask \in Nat
  BY DEF HandoffTyped, Watchers
<1>3. ASSUME NEW c \in Clients PROVE cli'[c].ask \in Nat
  BY DEF HandoffTyped, Calls
<1>4. Len(asked') \in 0..MaxAsks
  BY DEF HandoffTyped
<1>5. ASSUME NEW r \in 1..Len(asked') PROVE asked'[r].sess \in Sessions
  <2>1. asked'[r] \in Listings
    BY <1>4 DEF HandoffTyped
  <2> QED BY <2>1 DEF Listings
<1>6. ASSUME NEW r \in Asks PROVE turns'[r] \in Seq(Platforms)
  BY DEF HandoffTyped
<1> QED BY <1>1, <1>2, <1>3, <1>4, <1>5, <1>6 DEF HandoffTyped, Fields

\* A client in a call keeps a request of its session.
LEMMA CallOursStep ==
    ASSUME Base, HandoffNext, NEW x \in Clients
    PROVE  CallOurs(x)'
<1> Fields /\ Fields' /\ Ours
  BY StepEffect, FieldsTyped, FieldsTypedNext DEF Base
<1>1. ASSUME NEW c \in Clients, NEW s \in Sessions, NEW p \in Platforms, Requested(c, s, p)
      PROVE  CallOurs(x)'
  <2>1. CASE x = c
    BY <1>1, <2>1 DEF Requested, CallOurs, Fields
  <2>2. CASE x # c
    BY <1>1, <2>2 DEF Requested, Ours, CallOurs, Fields
  <2> QED BY <2>1, <2>2
<1>2. ASSUME NEW c \in Clients, Answered(c)
      PROVE  CallOurs(x)'
  BY <1>2 DEF Answered, Returns, Ours, CallOurs
<1>3. ASSUME NEW c \in Clients, Lingers(c)
      PROVE  CallOurs(x)'
  BY <1>3 DEF Lingers, history, Ours, CallOurs
<1>4. ASSUME NEW c \in Clients, GivesUp(c)
      PROVE  CallOurs(x)'
  BY <1>4 DEF GivesUp, Returns, Ours, CallOurs
<1>5. ASSUME NEW g \in Gateways, Rests(g)
      PROVE  CallOurs(x)'
  BY <1>5 DEF Rests, history, Ours, CallOurs
<1>6. ASSUME NEW g \in Gateways, Dispatches(g)
      PROVE  CallOurs(x)'
  BY <1>6 DEF Dispatches, Ours, CallOurs
<1>7. ASSUME NEW g \in Gateways, Serves(g)
      PROVE  CallOurs(x)'
  BY <1>7 DEF Serves, Ours, CallOurs
<1>8. ASSUME NEW g \in Gateways, NEW s \in Sessions, Claims(g, s)
      PROVE  CallOurs(x)'
  BY <1>8 DEF Claims, history, Ours, CallOurs
<1>9. ASSUME NEW g \in Gateways, NEW state \in Settled, Settles(g, state)
      PROVE  CallOurs(x)'
  BY <1>9 DEF Settles, history, Ours, CallOurs
<1> QED
  BY <1>1, <1>2, <1>3, <1>4, <1>5, <1>6, <1>7, <1>8, <1>9, StepEffect, Zenon

\* A watcher at work keeps a request of the session of its row.
LEMMA WorkOursStep ==
    ASSUME Base, HandoffNext, NEW x \in Gateways
    PROVE  WorkOurs(x)'
<1> Fields /\ Fields' /\ Ours
  BY StepEffect, FieldsTyped, FieldsTypedNext DEF Base
<1>1. ASSUME NEW c \in Clients, NEW s \in Sessions, NEW p \in Platforms, Requested(c, s, p)
      PROVE  WorkOurs(x)'
  BY <1>1 DEF Requested, Ours, Working, WorkOurs
<1>2. ASSUME NEW c \in Clients, Answered(c)
      PROVE  WorkOurs(x)'
  BY <1>2 DEF Answered, Ours, Working, WorkOurs
<1>3. ASSUME NEW c \in Clients, Lingers(c)
      PROVE  WorkOurs(x)'
  BY <1>3 DEF Lingers, history, Ours, Working, WorkOurs
<1>4. ASSUME NEW c \in Clients, GivesUp(c)
      PROVE  WorkOurs(x)'
  BY <1>4 DEF GivesUp, Ours, Working, WorkOurs
<1>5. ASSUME NEW g \in Gateways, Rests(g)
      PROVE  WorkOurs(x)'
  BY <1>5 DEF Rests, Drops, Moves, history, Ours, Working, WorkOurs
<1>6. ASSUME NEW g \in Gateways, Dispatches(g)
      PROVE  WorkOurs(x)'
  BY <1>6 DEF Dispatches, Moves, Ours, Working, WorkOurs
<1>7. ASSUME NEW g \in Gateways, Serves(g)
      PROVE  WorkOurs(x)'
  BY <1>7 DEF Serves, Moves, Ours, Working, WorkOurs
<1>8. ASSUME NEW g \in Gateways, NEW s \in Sessions, Claims(g, s)
      PROVE  WorkOurs(x)'
  BY <1>8 DEF Claims, history, Ours, Working, WorkOurs, RowOurs
<1>9. ASSUME NEW g \in Gateways, NEW state \in Settled, Settles(g, state)
      PROVE  WorkOurs(x)'
  BY <1>9 DEF Settles, Drops, history, Ours, Working, WorkOurs
<1> QED
  BY <1>1, <1>2, <1>3, <1>4, <1>5, <1>6, <1>7, <1>8, <1>9, StepEffect, Zenon

\* A row keeps a request of its session.
LEMMA RowOursStep ==
    ASSUME Base, Latest, HandoffNext, NEW x \in Sessions
    PROVE  RowOurs(x)'
<1> Fields /\ Fields' /\ Ours
  BY StepEffect, FieldsTyped, FieldsTypedNext DEF Base
<1>1. ASSUME NEW c \in Clients, NEW s \in Sessions, NEW p \in Platforms, Requested(c, s, p)
      PROVE  RowOurs(x)'
  BY <1>1 DEF Requested, Ours, RowOurs, WorkOurs
<1>2. ASSUME NEW c \in Clients, Answered(c)
      PROVE  RowOurs(x)'
  BY <1>2 DEF Answered, Ours, RowOurs
<1>3. ASSUME NEW c \in Clients, Lingers(c)
      PROVE  RowOurs(x)'
  BY <1>3 DEF Lingers, history, Ours, RowOurs
<1>4. ASSUME NEW c \in Clients, GivesUp(c)
      PROVE  RowOurs(x)'
  <2>1. row[cli[c].sess].state # "null"
    BY <1>4 DEF GivesUp, Ours, CallOurs, Latest, IsLatest
  <2> QED BY <1>4, <2>1 DEF GivesUp, RowGoes, Ours, RowOurs
<1>5. ASSUME NEW g \in Gateways, Rests(g)
      PROVE  RowOurs(x)'
  BY <1>5 DEF Rests, history, Ours, RowOurs
<1>6. ASSUME NEW g \in Gateways, Dispatches(g)
      PROVE  RowOurs(x)'
  BY <1>6 DEF Dispatches, Ours, RowOurs
<1>7. ASSUME NEW g \in Gateways, Serves(g)
      PROVE  RowOurs(x)'
  BY <1>7 DEF Serves, Ours, RowOurs
<1>8. ASSUME NEW g \in Gateways, NEW s \in Sessions, Claims(g, s)
      PROVE  RowOurs(x)'
  BY <1>8 DEF Claims, RowGoes, history, Ours, RowOurs
<1>9. ASSUME NEW g \in Gateways, NEW state \in Settled, Settles(g, state)
      PROVE  RowOurs(x)'
  <2>1. row[gw[g].sess].state # "null"
    BY <1>9 DEF Settles, Ours, WorkOurs, Working, Latest, IsLatest
  <2>2. asked' = asked /\ row'[x].ask = row[x].ask /\ row'[x].platform = row[x].platform
    BY <1>9 DEF Settles, RowGoes, history
  <2>3. row[x].state = "null" => row'[x].state = "null"
    BY <1>9, <2>1 DEF Settles, RowGoes
  <2> QED BY <2>2, <2>3 DEF Ours, RowOurs
<1> QED
  BY <1>1, <1>2, <1>3, <1>4, <1>5, <1>6, <1>7, <1>8, <1>9, StepEffect, Zenon

\* A row keeps the latest request of its session.
LEMMA LatestStep ==
    ASSUME Base, Latest, HandoffNext, NEW x \in 1..Len(asked')
    PROVE  IsLatest(x)'
<1> Fields /\ Fields' /\ Ours
  BY StepEffect, FieldsTyped, FieldsTypedNext DEF Base
<1>1. ASSUME NEW c \in Clients, NEW s \in Sessions, NEW p \in Platforms, Requested(c, s, p)
      PROVE  IsLatest(x)'
  <2>1. CASE x = Len(asked) + 1
    BY <1>1, <2>1 DEF Requested, IsLatest, Fields
  <2>2. CASE x # Len(asked) + 1
    <3>1. x \in Accepted /\ asked'[x] = asked[x] /\ asked[x].sess \in Sessions
      BY <1>1, <2>2 DEF Requested, Fields
    <3>2. IsLatest(x)
      BY <3>1 DEF Latest
    <3>3. CASE asked[x].sess = s
      BY <1>1, <3>1, <3>3 DEF Requested, IsLatest, Fields
    <3>4. CASE asked[x].sess # s
      BY <1>1, <3>1, <3>2, <3>4 DEF Requested, IsLatest, Fields
    <3> QED BY <3>3, <3>4
  <2> QED BY <2>1, <2>2
<1>2. ASSUME NEW c \in Clients, Answered(c)
      PROVE  IsLatest(x)'
  BY <1>2 DEF Answered, Latest, IsLatest
<1>3. ASSUME NEW c \in Clients, Lingers(c)
      PROVE  IsLatest(x)'
  BY <1>3 DEF Lingers, history, Latest, IsLatest
<1>4. ASSUME NEW c \in Clients, GivesUp(c)
      PROVE  IsLatest(x)'
  BY <1>4 DEF GivesUp, RowGoes, Fields, Latest, IsLatest
<1>5. ASSUME NEW g \in Gateways, Rests(g)
      PROVE  IsLatest(x)'
  BY <1>5 DEF Rests, history, Latest, IsLatest
<1>6. ASSUME NEW g \in Gateways, Dispatches(g)
      PROVE  IsLatest(x)'
  BY <1>6 DEF Dispatches, Latest, IsLatest
<1>7. ASSUME NEW g \in Gateways, Serves(g)
      PROVE  IsLatest(x)'
  BY <1>7 DEF Serves, Latest, IsLatest
<1>8. ASSUME NEW g \in Gateways, NEW s \in Sessions, Claims(g, s)
      PROVE  IsLatest(x)'
  BY <1>8 DEF Claims, RowGoes, history, Fields, Latest, IsLatest
<1>9. ASSUME NEW g \in Gateways, NEW state \in Settled, Settles(g, state)
      PROVE  IsLatest(x)'
  BY <1>9 DEF Settles, RowGoes, history, Fields, Latest, IsLatest
<1> QED
  BY <1>1, <1>2, <1>3, <1>4, <1>5, <1>6, <1>7, <1>8, <1>9, StepEffect, Zenon

\* A request that was not accepted has no history.
LEMMA FreshStep ==
    ASSUME Base, Fresh, HandoffNext, NEW x \in Asks
    PROVE  Untouched(x)'
<1> Fields /\ Fields' /\ Ours
  BY StepEffect, FieldsTyped, FieldsTypedNext DEF Base
<1>1. ASSUME NEW c \in Clients, NEW s \in Sessions, NEW p \in Platforms, Requested(c, s, p)
      PROVE  Untouched(x)'
  BY <1>1 DEF Requested, Fresh, Untouched
<1>2. ASSUME NEW c \in Clients, Answered(c)
      PROVE  Untouched(x)'
  BY <1>2 DEF Answered, Returns, Ours, Fresh, Untouched, CallOurs
<1>3. ASSUME NEW c \in Clients, Lingers(c)
      PROVE  Untouched(x)'
  BY <1>3 DEF Lingers, history, Fresh, Untouched
<1>4. ASSUME NEW c \in Clients, GivesUp(c)
      PROVE  Untouched(x)'
  BY <1>4 DEF GivesUp, Returns, Fields, Fresh, Untouched
<1>5. ASSUME NEW g \in Gateways, Rests(g)
      PROVE  Untouched(x)'
  BY <1>5 DEF Rests, history, Fresh, Untouched
<1>6. ASSUME NEW g \in Gateways, Dispatches(g)
      PROVE  Untouched(x)'
  <2>1. gw[g].ask \in Accepted
    BY <1>6 DEF Dispatches, Ours, WorkOurs, Working
  <2>2. Len(asked') = Len(asked) /\ told' = told
    BY <1>6 DEF Dispatches
  <2>3. ASSUME x > Len(asked) PROVE turns'[x] = turns[x]
    BY <1>6, <2>1, <2>3 DEF Dispatches, Fields
  <2> QED BY <2>2, <2>3 DEF Fresh, Untouched
<1>7. ASSUME NEW g \in Gateways, Serves(g)
      PROVE  Untouched(x)'
  BY <1>7 DEF Serves, Fresh, Untouched
<1>8. ASSUME NEW g \in Gateways, NEW s \in Sessions, Claims(g, s)
      PROVE  Untouched(x)'
  BY <1>8 DEF Claims, history, Fresh, Untouched
<1>9. ASSUME NEW g \in Gateways, NEW state \in Settled, Settles(g, state)
      PROVE  Untouched(x)'
  BY <1>9 DEF Settles, history, Fresh, Untouched
<1> QED
  BY <1>1, <1>2, <1>3, <1>4, <1>5, <1>6, <1>7, <1>8, <1>9, StepEffect, Zenon

\* No step dispatches a request a second time.
LEMMA LenStep ==
    ASSUME Base, Undispatched, HandoffNext, NEW x \in Asks
    PROVE  (Len(turns[x]) <= 1)'
<1> Fields /\ Fields' /\ Ours
  BY StepEffect, FieldsTyped, FieldsTypedNext DEF Base
<1>1. ASSUME NEW c \in Clients, NEW s \in Sessions, NEW p \in Platforms, Requested(c, s, p)
      PROVE  (Len(turns[x]) <= 1)'
  BY <1>1 DEF Requested, Undispatched
<1>2. ASSUME NEW c \in Clients, Answered(c)
      PROVE  (Len(turns[x]) <= 1)'
  BY <1>2 DEF Answered, Undispatched
<1>3. ASSUME NEW c \in Clients, Lingers(c)
      PROVE  (Len(turns[x]) <= 1)'
  BY <1>3 DEF Lingers, history, Undispatched
<1>4. ASSUME NEW c \in Clients, GivesUp(c)
      PROVE  (Len(turns[x]) <= 1)'
  BY <1>4 DEF GivesUp, Undispatched
<1>5. ASSUME NEW g \in Gateways, Rests(g)
      PROVE  (Len(turns[x]) <= 1)'
  BY <1>5 DEF Rests, history, Undispatched
<1>6. ASSUME NEW g \in Gateways, Dispatches(g)
      PROVE  (Len(turns[x]) <= 1)'
  BY <1>6 DEF Dispatches, Undispatched, ClaimUndispatched
<1>7. ASSUME NEW g \in Gateways, Serves(g)
      PROVE  (Len(turns[x]) <= 1)'
  BY <1>7 DEF Serves, Undispatched
<1>8. ASSUME NEW g \in Gateways, NEW s \in Sessions, Claims(g, s)
      PROVE  (Len(turns[x]) <= 1)'
  BY <1>8 DEF Claims, history, Undispatched
<1>9. ASSUME NEW g \in Gateways, NEW state \in Settled, Settles(g, state)
      PROVE  (Len(turns[x]) <= 1)'
  BY <1>9 DEF Settles, history, Undispatched
<1> QED
  BY <1>1, <1>2, <1>3, <1>4, <1>5, <1>6, <1>7, <1>8, <1>9, StepEffect, Zenon

\* A pending row has not been dispatched,
LEMMA RowUndispatchedStep ==
    ASSUME Base, Fresh, Undispatched, OneClaim, HandoffNext, NEW x \in Sessions
    PROVE  RowUndispatched(x)'
<1> Fields /\ Fields' /\ Ours
  BY StepEffect, FieldsTyped, FieldsTypedNext DEF Base
<1>1. ASSUME NEW c \in Clients, NEW s \in Sessions, NEW p \in Platforms, Requested(c, s, p)
      PROVE  RowUndispatched(x)'
  BY <1>1 DEF Requested, Fresh, Untouched, Undispatched, RowUndispatched
<1>2. ASSUME NEW c \in Clients, Answered(c)
      PROVE  RowUndispatched(x)'
  BY <1>2 DEF Answered, Undispatched, RowUndispatched
<1>3. ASSUME NEW c \in Clients, Lingers(c)
      PROVE  RowUndispatched(x)'
  BY <1>3 DEF Lingers, history, Undispatched, RowUndispatched
<1>4. ASSUME NEW c \in Clients, GivesUp(c)
      PROVE  RowUndispatched(x)'
  BY <1>4 DEF GivesUp, RowGoes, Undispatched, RowUndispatched
<1>5. ASSUME NEW g \in Gateways, Rests(g)
      PROVE  RowUndispatched(x)'
  BY <1>5 DEF Rests, history, Undispatched, RowUndispatched
<1>6. ASSUME NEW g \in Gateways, Dispatches(g)
      PROVE  RowUndispatched(x)'
  <2> SUFFICES ASSUME row[x].state = "pending" PROVE turns'[row[x].ask] = <<>>
    BY <1>6 DEF Dispatches, RowUndispatched
  <2>1. row[x].ask # gw[g].ask /\ turns[row[x].ask] = <<>>
    BY <1>6 DEF Dispatches, OneClaim, Taken, Undispatched, RowUndispatched
  <2>2. row[x].ask \in Asks
    BY DEF Ours, RowOurs, Fields
  <2> QED BY <1>6, <2>1, <2>2 DEF Dispatches
<1>7. ASSUME NEW g \in Gateways, Serves(g)
      PROVE  RowUndispatched(x)'
  BY <1>7 DEF Serves, Undispatched, RowUndispatched
<1>8. ASSUME NEW g \in Gateways, NEW s \in Sessions, Claims(g, s)
      PROVE  RowUndispatched(x)'
  BY <1>8 DEF Claims, RowGoes, history, Undispatched, RowUndispatched
<1>9. ASSUME NEW g \in Gateways, NEW state \in Settled, Settles(g, state)
      PROVE  RowUndispatched(x)'
  BY <1>9 DEF Settles, RowGoes, history, Undispatched, RowUndispatched
<1> QED
  BY <1>1, <1>2, <1>3, <1>4, <1>5, <1>6, <1>7, <1>8, <1>9, StepEffect, Zenon

\* nor has one that was claimed and no more.
LEMMA ClaimUndispatchedStep ==
    ASSUME Base, Undispatched, OneClaim, HandoffNext, NEW x \in Gateways
    PROVE  ClaimUndispatched(x)'
<1> Fields /\ Fields' /\ Ours
  BY StepEffect, FieldsTyped, FieldsTypedNext DEF Base
<1>1. ASSUME NEW c \in Clients, NEW s \in Sessions, NEW p \in Platforms, Requested(c, s, p)
      PROVE  ClaimUndispatched(x)'
  BY <1>1 DEF Requested, Undispatched, ClaimUndispatched
<1>2. ASSUME NEW c \in Clients, Answered(c)
      PROVE  ClaimUndispatched(x)'
  BY <1>2 DEF Answered, Undispatched, ClaimUndispatched
<1>3. ASSUME NEW c \in Clients, Lingers(c)
      PROVE  ClaimUndispatched(x)'
  BY <1>3 DEF Lingers, history, Undispatched, ClaimUndispatched
<1>4. ASSUME NEW c \in Clients, GivesUp(c)
      PROVE  ClaimUndispatched(x)'
  BY <1>4 DEF GivesUp, Undispatched, ClaimUndispatched
<1>5. ASSUME NEW g \in Gateways, Rests(g)
      PROVE  ClaimUndispatched(x)'
  BY <1>5 DEF Rests, Drops, Moves, history, Undispatched, ClaimUndispatched
<1>6. ASSUME NEW g \in Gateways, Dispatches(g)
      PROVE  ClaimUndispatched(x)'
  <2>1. CASE x = g
    BY <1>6, <2>1 DEF Dispatches, Moves, ClaimUndispatched
  <2>2. CASE x # g /\ gw[x].at = "claimed"
    <3>1. gw'[x] = gw[x] /\ gw[x].ask \in Accepted
      BY <1>6, <2>2 DEF Dispatches, Moves, Ours, WorkOurs, Working
    <3>2. gw[x].ask # gw[g].ask
      BY <1>6, <2>2 DEF Dispatches, OneClaim, SameClaim
    <3>3. ClaimUndispatched(x)
      BY DEF Undispatched
    <3> QED BY <1>6, <3>1, <3>2, <3>3 DEF Dispatches, Fields, ClaimUndispatched
  <2>3. CASE x # g /\ gw[x].at # "claimed"
    BY <1>6, <2>3 DEF Dispatches, Moves, ClaimUndispatched
  <2> QED BY <2>1, <2>2, <2>3
<1>7. ASSUME NEW g \in Gateways, Serves(g)
      PROVE  ClaimUndispatched(x)'
  BY <1>7 DEF Serves, Moves, Undispatched, ClaimUndispatched
<1>8. ASSUME NEW g \in Gateways, NEW s \in Sessions, Claims(g, s)
      PROVE  ClaimUndispatched(x)'
  BY <1>8 DEF Claims, history, Working, Undispatched, RowUndispatched, ClaimUndispatched
<1>9. ASSUME NEW g \in Gateways, NEW state \in Settled, Settles(g, state)
      PROVE  ClaimUndispatched(x)'
  BY <1>9 DEF Settles, Drops, history, Undispatched, ClaimUndispatched
<1> QED
  BY <1>1, <1>2, <1>3, <1>4, <1>5, <1>6, <1>7, <1>8, <1>9, StepEffect, Zenon

\* A row whose request is claimed is not pending for it,
LEMMA TakenStep ==
    ASSUME Base, OneClaim, HandoffNext, NEW x \in Gateways, NEW y \in Sessions
    PROVE  Taken(x, y)'
<1> Fields /\ Fields' /\ Ours
  BY StepEffect, FieldsTyped, FieldsTypedNext DEF Base
<1>1. ASSUME NEW c \in Clients, NEW s \in Sessions, NEW p \in Platforms, Requested(c, s, p)
      PROVE  Taken(x, y)'
  BY <1>1 DEF Requested, Ours, Working, OneClaim, Taken, WorkOurs
<1>2. ASSUME NEW c \in Clients, Answered(c)
      PROVE  Taken(x, y)'
  BY <1>2 DEF Answered, OneClaim, Taken
<1>3. ASSUME NEW c \in Clients, Lingers(c)
      PROVE  Taken(x, y)'
  BY <1>3 DEF Lingers, OneClaim, Taken
<1>4. ASSUME NEW c \in Clients, GivesUp(c)
      PROVE  Taken(x, y)'
  BY <1>4 DEF GivesUp, RowGoes, OneClaim, Taken
<1>5. ASSUME NEW g \in Gateways, Rests(g)
      PROVE  Taken(x, y)'
  BY <1>5 DEF Rests, Drops, Moves, OneClaim, Taken
<1>6. ASSUME NEW g \in Gateways, Dispatches(g)
      PROVE  Taken(x, y)'
  BY <1>6 DEF Dispatches, Moves, OneClaim, Taken
<1>7. ASSUME NEW g \in Gateways, Serves(g)
      PROVE  Taken(x, y)'
  BY <1>7 DEF Serves, Moves, OneClaim, Taken
<1>8. ASSUME NEW g \in Gateways, NEW s \in Sessions, Claims(g, s)
      PROVE  Taken(x, y)'
  BY <1>8 DEF Claims, RowGoes, Ours, OneClaim, Taken, RowOurs, WorkOurs
<1>9. ASSUME NEW g \in Gateways, NEW state \in Settled, Settles(g, state)
      PROVE  Taken(x, y)'
  BY <1>9 DEF Settles, RowGoes, Drops, OneClaim, Taken
<1> QED
  BY <1>1, <1>2, <1>3, <1>4, <1>5, <1>6, <1>7, <1>8, <1>9, StepEffect, Zenon

\* and no two watchers have a claim on one request.
LEMMA SameClaimStep ==
    ASSUME Base, OneClaim, HandoffNext, NEW x \in Gateways, NEW y \in Gateways
    PROVE  SameClaim(x, y)'
<1> Fields /\ Fields' /\ Ours
  BY StepEffect, FieldsTyped, FieldsTypedNext DEF Base
<1>1. ASSUME NEW c \in Clients, NEW s \in Sessions, NEW p \in Platforms, Requested(c, s, p)
      PROVE  SameClaim(x, y)'
  BY <1>1 DEF Requested, OneClaim, SameClaim
<1>2. ASSUME NEW c \in Clients, Answered(c)
      PROVE  SameClaim(x, y)'
  BY <1>2 DEF Answered, OneClaim, SameClaim
<1>3. ASSUME NEW c \in Clients, Lingers(c)
      PROVE  SameClaim(x, y)'
  BY <1>3 DEF Lingers, OneClaim, SameClaim
<1>4. ASSUME NEW c \in Clients, GivesUp(c)
      PROVE  SameClaim(x, y)'
  BY <1>4 DEF GivesUp, OneClaim, SameClaim
<1>5. ASSUME NEW g \in Gateways, Rests(g)
      PROVE  SameClaim(x, y)'
  BY <1>5 DEF Rests, Drops, Moves, OneClaim, SameClaim
<1>6. ASSUME NEW g \in Gateways, Dispatches(g)
      PROVE  SameClaim(x, y)'
  BY <1>6 DEF Dispatches, Moves, OneClaim, SameClaim
<1>7. ASSUME NEW g \in Gateways, Serves(g)
      PROVE  SameClaim(x, y)'
  BY <1>7 DEF Serves, Moves, OneClaim, SameClaim
<1>8. ASSUME NEW g \in Gateways, NEW s \in Sessions, Claims(g, s)
      PROVE  SameClaim(x, y)'
  BY <1>8 DEF Claims, history, OneClaim, SameClaim, Taken
<1>9. ASSUME NEW g \in Gateways, NEW state \in Settled, Settles(g, state)
      PROVE  SameClaim(x, y)'
  BY <1>9 DEF Settles, Drops, OneClaim, SameClaim
<1> QED
  BY <1>1, <1>2, <1>3, <1>4, <1>5, <1>6, <1>7, <1>8, <1>9, StepEffect, Zenon

\* While no client gave up on its session, a watcher at work has the running row.
LEMMA WorksForStep ==
    ASSUME Base, OneWorker, HandoffNext, NEW x \in Gateways, NEW y \in Sessions, ~GaveUpOn(y)'
    PROVE  WorksFor(x, y)'
<1> Fields /\ Fields' /\ Ours
  BY StepEffect, FieldsTyped, FieldsTypedNext DEF Base
<1>1. ASSUME NEW c \in Clients, NEW s \in Sessions, NEW p \in Platforms, Requested(c, s, p)
      PROVE  WorksFor(x, y)'
  BY <1>1 DEF Requested, Requestable, Fields, Working, OneWorker, GaveUpOn, WorksFor, WorkOurs,
     CallOurs, SameWork
<1>2. ASSUME NEW c \in Clients, Answered(c)
      PROVE  WorksFor(x, y)'
  BY <1>2 DEF Answered, Working, OneWorker, GaveUpOn, WorksFor
<1>3. ASSUME NEW c \in Clients, Lingers(c)
      PROVE  WorksFor(x, y)'
  BY <1>3 DEF Lingers, history, Working, OneWorker, GaveUpOn, WorksFor
<1>4. ASSUME NEW c \in Clients, GivesUp(c)
      PROVE  WorksFor(x, y)'
  BY <1>4 DEF GivesUp, RowGoes, Ours, Working, OneWorker, GaveUpOn, WorksFor, RowOurs, WorkOurs,
     CallOurs, SameWork
<1>5. ASSUME NEW g \in Gateways, Rests(g)
      PROVE  WorksFor(x, y)'
  <2>1. WorksFor(x, y)
    BY <1>5 DEF Rests, history, OneWorker, GaveUpOn
  <2>2. CASE gw'[x] = gw[x]
    BY <1>5, <2>1, <2>2 DEF Rests, history, Working, WorksFor
  <2>3. CASE x = g /\ Drops(g)
    BY <2>3 DEF Drops, Working, WorksFor
  <2>4. CASE x = g /\ Working(g) /\ Moves(g, "failing")
    BY <1>5, <2>1, <2>4 DEF Rests, Moves, history, Working, WorksFor
  <2> QED BY <1>5, <2>2, <2>3, <2>4 DEF Rests, Drops, Moves
<1>6. ASSUME NEW g \in Gateways, Dispatches(g)
      PROVE  WorksFor(x, y)'
  BY <1>6 DEF Dispatches, Moves, Working, OneWorker, GaveUpOn, WorksFor, RowOurs, WorkOurs, SameWork
<1>7. ASSUME NEW g \in Gateways, Serves(g)
      PROVE  WorksFor(x, y)'
  BY <1>7 DEF Serves, Moves, Ours, Working, OneWorker, GaveUpOn, WorksFor, CallOurs
<1>8. ASSUME NEW g \in Gateways, NEW s \in Sessions, Claims(g, s)
      PROVE  WorksFor(x, y)'
  <2> SUFFICES ASSUME Working(x)', gw'[x].sess = y
               PROVE  /\ row'[y].state = "running" /\ row'[y].ask = gw'[x].ask
                      /\ gw'[x].at = "completing" => gw'[x].ask \in served'
    BY DEF WorksFor
  <2>1. CASE x = g
    BY <1>8, <2>1 DEF Claims, RowGoes
  <2>2. CASE x # g
    <3>1. gw'[x] = gw[x] /\ Working(x) /\ gw[x].sess = y /\ ~GaveUpOn(y)
      BY <1>8, <2>2 DEF Claims, Working, GaveUpOn, history
    <3>2. WorksFor(x, y)
      BY <3>1 DEF OneWorker
    <3>3. y # s
      BY <1>8, <3>1, <3>2 DEF Claims, WorksFor
    <3> QED BY <1>8, <3>1, <3>2, <3>3 DEF Claims, RowGoes, WorksFor, history
  <2> QED BY <2>1, <2>2
<1>9. ASSUME NEW g \in Gateways, NEW state \in Settled, Settles(g, state)
      PROVE  WorksFor(x, y)'
  <2>1. CASE x = g
    BY <1>9, <2>1 DEF Settles, Drops, Working, WorksFor
  <2>2. CASE x # g /\ Working(x) /\ gw[x].sess = y
    <3>1. gw'[x] = gw[x] /\ ~GaveUpOn(y)
      BY <1>9, <2>2 DEF Settles, Drops, GaveUpOn, history
    <3>2. WorksFor(x, y) /\ SameWork(x, g, y)
      BY <3>1 DEF OneWorker
    <3>3. gw[g].sess # y
      BY <1>9, <2>2, <3>2 DEF Settles, SameWork, Working
    <3> QED BY <1>9, <3>1, <3>2, <3>3 DEF Settles, RowGoes, history, Working, WorksFor
  <2>3. CASE x # g /\ ~(Working(x) /\ gw[x].sess = y)
    BY <1>9, <2>3 DEF Settles, Drops, Working, WorksFor
  <2> QED BY <2>1, <2>2, <2>3
<1> QED
  BY <1>1, <1>2, <1>3, <1>4, <1>5, <1>6, <1>7, <1>8, <1>9, StepEffect, Zenon

\* Then no two watchers work for one session,
LEMMA SameWorkStep ==
    ASSUME Base, OneWorker, HandoffNext, NEW x \in Gateways, NEW z \in Gateways,
           NEW y \in Sessions, ~GaveUpOn(y)'
    PROVE  SameWork(x, z, y)'
<1> Fields /\ Fields' /\ Ours
  BY StepEffect, FieldsTyped, FieldsTypedNext DEF Base
<1>1. ASSUME NEW c \in Clients, NEW s \in Sessions, NEW p \in Platforms, Requested(c, s, p)
      PROVE  SameWork(x, z, y)'
  BY <1>1 DEF Requested, Fields, Working, OneWorker, GaveUpOn, SameWork
<1>2. ASSUME NEW c \in Clients, Answered(c)
      PROVE  SameWork(x, z, y)'
  BY <1>2 DEF Answered, Working, OneWorker, GaveUpOn, SameWork
<1>3. ASSUME NEW c \in Clients, Lingers(c)
      PROVE  SameWork(x, z, y)'
  BY <1>3 DEF Lingers, history, Working, OneWorker, GaveUpOn, SameWork
<1>4. ASSUME NEW c \in Clients, GivesUp(c)
      PROVE  SameWork(x, z, y)'
  BY <1>4 DEF GivesUp, Working, OneWorker, GaveUpOn, SameWork
<1>5. ASSUME NEW g \in Gateways, Rests(g)
      PROVE  SameWork(x, z, y)'
  <2>1. ~GaveUpOn(y)
    BY <1>5 DEF Rests, GaveUpOn, history
  <2>2. \A h \in Gateways : Working(h)' => Working(h) /\ gw'[h].sess = gw[h].sess
    BY <1>5 DEF Rests, Drops, Moves, Working
  <2> QED BY <2>1, <2>2 DEF OneWorker, SameWork
<1>6. ASSUME NEW g \in Gateways, Dispatches(g)
      PROVE  SameWork(x, z, y)'
  BY <1>6 DEF Dispatches, Moves, Working, OneWorker, GaveUpOn, RowOurs, SameWork
<1>7. ASSUME NEW g \in Gateways, Serves(g)
      PROVE  SameWork(x, z, y)'
  <2>1. ~GaveUpOn(y)
    BY <1>7 DEF Serves, GaveUpOn, history
  <2>2. \A h \in Gateways : Working(h)' => Working(h) /\ gw'[h].sess = gw[h].sess
    BY <1>7 DEF Serves, Moves, Working
  <2> QED BY <2>1, <2>2 DEF OneWorker, SameWork
<1>8. ASSUME NEW g \in Gateways, NEW s \in Sessions, Claims(g, s)
      PROVE  SameWork(x, z, y)'
  BY <1>8 DEF Claims, history, Working, OneWorker, GaveUpOn, WorksFor, SameWork
<1>9. ASSUME NEW g \in Gateways, NEW state \in Settled, Settles(g, state)
      PROVE  SameWork(x, z, y)'
  BY <1>9 DEF Settles, Drops, history, Working, OneWorker, GaveUpOn, SameWork
<1> QED
  BY <1>1, <1>2, <1>3, <1>4, <1>5, <1>6, <1>7, <1>8, <1>9, StepEffect, Zenon

\* and a row that is completed was served.
LEMMA TrulyDoneStep ==
    ASSUME Base, OneWorker, HandoffNext, NEW y \in Sessions, ~GaveUpOn(y)'
    PROVE  TrulyDone(y)'
<1> Fields /\ Fields' /\ Ours
  BY StepEffect, FieldsTyped, FieldsTypedNext DEF Base
<1>1. ASSUME NEW c \in Clients, NEW s \in Sessions, NEW p \in Platforms, Requested(c, s, p)
      PROVE  TrulyDone(y)'
  BY <1>1 DEF Requested, Fields, OneWorker, GaveUpOn, TrulyDone
<1>2. ASSUME NEW c \in Clients, Answered(c)
      PROVE  TrulyDone(y)'
  BY <1>2 DEF Answered, OneWorker, GaveUpOn, TrulyDone
<1>3. ASSUME NEW c \in Clients, Lingers(c)
      PROVE  TrulyDone(y)'
  BY <1>3 DEF Lingers, history, OneWorker, GaveUpOn, TrulyDone
<1>4. ASSUME NEW c \in Clients, GivesUp(c)
      PROVE  TrulyDone(y)'
  BY <1>4 DEF GivesUp, RowGoes, OneWorker, GaveUpOn, TrulyDone
<1>5. ASSUME NEW g \in Gateways, Rests(g)
      PROVE  TrulyDone(y)'
  BY <1>5 DEF Rests, history, OneWorker, GaveUpOn, TrulyDone
<1>6. ASSUME NEW g \in Gateways, Dispatches(g)
      PROVE  TrulyDone(y)'
  BY <1>6 DEF Dispatches, OneWorker, GaveUpOn, TrulyDone
<1>7. ASSUME NEW g \in Gateways, Serves(g)
      PROVE  TrulyDone(y)'
  BY <1>7 DEF Serves, OneWorker, GaveUpOn, TrulyDone
<1>8. ASSUME NEW g \in Gateways, NEW s \in Sessions, Claims(g, s)
      PROVE  TrulyDone(y)'
  BY <1>8 DEF Claims, RowGoes, history, OneWorker, GaveUpOn, TrulyDone
<1>9. ASSUME NEW g \in Gateways, NEW state \in Settled, Settles(g, state)
      PROVE  TrulyDone(y)'
  BY <1>9 DEF Settles, RowGoes, history, Working, OneWorker, GaveUpOn, WorksFor, TrulyDone
<1> QED
  BY <1>1, <1>2, <1>3, <1>4, <1>5, <1>6, <1>7, <1>8, <1>9, StepEffect, Zenon

\* What a client is told is true when it is told, and stays so.
LEMMA TruthStep ==
    ASSUME Base, Latest, Fresh, OneWorker, ToldTheTruth, HandoffNext
    PROVE  ToldTheTruth'
<1> Fields /\ Fields' /\ Ours
  BY StepEffect, FieldsTyped, FieldsTypedNext DEF Base
<1>1. /\ served \subseteq served' /\ expired \subseteq expired' /\ Len(asked) <= Len(asked')
      /\ \A i \in Accepted : asked'[i] = asked[i]
  <2> DEFINE Kept == /\ served \subseteq served' /\ expired \subseteq expired'
                     /\ Len(asked) <= Len(asked') /\ \A i \in Accepted : asked'[i] = asked[i]
  <2>1. ASSUME NEW c \in Clients, NEW s \in Sessions, NEW p \in Platforms, Requested(c, s, p)
        PROVE  Kept
    BY <2>1 DEF Requested, Fields
  <2>2. ASSUME NEW c \in Clients, Answered(c) \/ Lingers(c) \/ GivesUp(c)
        PROVE  Kept
    BY <2>2 DEF Answered, Lingers, GivesUp, history
  <2>3. ASSUME NEW g \in Gateways, Rests(g) \/ Dispatches(g) \/ Serves(g)
        PROVE  Kept
    BY <2>3 DEF Rests, Dispatches, Serves, history
  <2>4. ASSUME NEW g \in Gateways, NEW s \in Sessions, Claims(g, s)
        PROVE  Kept
    BY <2>4 DEF Claims, Fields, history
  <2>5. ASSUME NEW g \in Gateways, NEW state \in Settled, Settles(g, state)
        PROVE  Kept
    BY <2>5 DEF Settles, Fields, history
  <2> HIDE DEF Kept
  <2>6. Kept
    BY <2>1, <2>2, <2>3, <2>4, <2>5, StepEffect, Zenon
  <2> QED BY <2>6 DEF Kept
<1>2. ASSUME NEW r \in Asks, told'[r] # told[r], told'[r] = "completed"
      PROVE  \E c \in Clients : /\ cli[c].at # "idle" /\ r = cli[c].ask
                                /\ row[cli[c].sess].state = "completed" /\ asked' = asked
  <2> DEFINE Goal == \E c \in Clients : /\ cli[c].at # "idle" /\ r = cli[c].ask
                                /\ row[cli[c].sess].state = "completed" /\ asked' = asked
  <2> SUFFICES Goal
    BY Zenon
  <2>1. ASSUME NEW c \in Clients, NEW s \in Sessions, NEW p \in Platforms, Requested(c, s, p)
        PROVE  Goal
    BY <1>2, <2>1 DEF Requested
  <2>2. ASSUME NEW c \in Clients, Answered(c)
        PROVE  Goal
    BY <1>2, <2>2 DEF Answered, Returns
  <2>3. ASSUME NEW c \in Clients, Lingers(c) \/ GivesUp(c)
        PROVE  Goal
    BY <1>2, <2>3 DEF Lingers, GivesUp, Returns, history
  <2>4. ASSUME NEW g \in Gateways, Rests(g) \/ Dispatches(g) \/ Serves(g)
        PROVE  Goal
    BY <1>2, <2>4 DEF Rests, Dispatches, Serves, history
  <2>5. ASSUME NEW g \in Gateways, NEW s \in Sessions, Claims(g, s)
        PROVE  Goal
    BY <1>2, <2>5 DEF Claims, history
  <2>6. ASSUME NEW g \in Gateways, NEW state \in Settled, Settles(g, state)
        PROVE  Goal
    BY <1>2, <2>6 DEF Settles, history
  <2> HIDE DEF Goal
  <2> QED BY <2>1, <2>2, <2>3, <2>4, <2>5, <2>6, StepEffect, Zenon
<1> SUFFICES ASSUME NEW r \in Asks, told'[r] = "completed",
                    ~GaveUpOn(asked[r].sess)', LatestAsk(r)'
             PROVE  r \in served
  BY <1>1 DEF ToldTheTruth
<1>3. CASE told[r] = "completed"
  <2>1. r \in Accepted
    BY <1>3 DEF Fresh, Untouched, Fields
  <2>2. ~GaveUpOn(asked[r].sess)
    BY <1>1, <2>1 DEF GaveUpOn, Fields
  <2>3. LatestAsk(r)
    BY <1>1, <2>1 DEF LatestAsk, Fields
  <2> QED BY <1>3, <2>2, <2>3 DEF ToldTheTruth
<1>4. CASE told[r] # "completed"
  <2>1. PICK c \in Clients : /\ cli[c].at # "idle" /\ r = cli[c].ask
                             /\ row[cli[c].sess].state = "completed" /\ asked' = asked
    BY <1>2, <1>4
  <2> DEFINE s == cli[c].sess
  <2>2. s \in Sessions /\ r \in Accepted /\ asked[r].sess = s
    BY <2>1 DEF Ours, CallOurs
  <2>3. row[s].ask \in Accepted /\ asked[row[s].ask].sess = s /\ r <= row[s].ask
    BY <2>1, <2>2 DEF Ours, RowOurs, Latest, IsLatest
  <2>4. row[s].ask <= r
    BY <2>1, <2>2, <2>3 DEF LatestAsk
  <2>5. row[s].ask = r
    BY <2>2, <2>3, <2>4 DEF Fields
  <2>6. ~GaveUpOn(s)
    BY <1>1, <2>1, <2>2 DEF GaveUpOn, Fields
  <2> QED BY <2>1, <2>2, <2>5, <2>6 DEF OneWorker, TrulyDone
<1> QED BY <1>3, <1>4

\* The invariant holds at the start.
LEMMA InitHolds == HandoffInit => HandoffInv
<1> SUFFICES ASSUME HandoffInit PROVE HandoffInv
  OBVIOUS
<1>1. HandoffTyped
  BY DEF HandoffInit, HandoffTyped, Rows, Calls, Watchers, NoState, IdleClient, IdleWatcher
<1>2. /\ \A s \in Sessions : row[s].state = "null" /\ row[s].ask = None
      /\ \A c \in Clients : cli[c].at = "idle"
      /\ \A g \in Gateways : gw[g].at = "idle"
      /\ Len(asked) = 0 /\ \A r \in Asks : turns[r] = <<>> /\ told[r] = "none"
  BY DEF HandoffInit, NoState, IdleClient, IdleWatcher
<1>3. Ours /\ Latest /\ Fresh
  BY <1>2 DEF Ours, CallOurs, WorkOurs, RowOurs, Working, Latest, Fresh, Untouched
<1>4. Undispatched /\ OneClaim
  BY <1>2 DEF Undispatched, RowUndispatched, ClaimUndispatched, OneClaim, Taken, SameClaim
<1>5. OneWorker /\ ToldTheTruth
  BY <1>2 DEF OneWorker, WorksFor, SameWork, TrulyDone, Working, ToldTheTruth
<1> QED BY <1>1, <1>3, <1>4, <1>5 DEF HandoffInv

\* Every step keeps it.
LEMMA HandoffStep == HandoffInv /\ [HandoffNext]_handoffVars => HandoffInv'
<1>1. ASSUME HandoffInv, HandoffNext PROVE HandoffInv'
  <2> Base /\ Latest /\ Fresh /\ Undispatched /\ OneClaim /\ OneWorker /\ ToldTheTruth
    BY <1>1, Zenon DEF HandoffInv, Base
  <2>1. HandoffTyped'
    BY <1>1, StepEffect
  <2>2. Ours'
    BY <1>1, CallOursStep, WorkOursStep, RowOursStep, Zenon DEF Ours
  <2>3. Latest' /\ Fresh'
    BY <1>1, LatestStep, FreshStep, Zenon DEF Latest, Fresh, Accepted
  <2>4. Undispatched'
    BY <1>1, LenStep, RowUndispatchedStep, ClaimUndispatchedStep, Zenon DEF Undispatched
  <2>5. OneClaim'
    BY <1>1, TakenStep, SameClaimStep, Zenon DEF OneClaim
  <2>6. OneWorker'
    BY <1>1, WorksForStep, SameWorkStep, TrulyDoneStep, Zenon DEF OneWorker
  <2>7. ToldTheTruth'
    BY <1>1, TruthStep
  <2> QED BY <2>1, <2>2, <2>3, <2>4, <2>5, <2>6, <2>7, Zenon DEF HandoffInv
<1>2. ASSUME HandoffInv, UNCHANGED handoffVars PROVE HandoffInv'
  <2>1. HandoffTyped' /\ Ours' /\ Latest' /\ Fresh'
    BY <1>2 DEF HandoffInv, handoffVars, HandoffTyped, Ours, CallOurs, WorkOurs, RowOurs,
       Working, Latest, IsLatest, Fresh, Untouched
  <2>2. Undispatched' /\ OneClaim'
    BY <1>2 DEF HandoffInv, handoffVars, Undispatched, RowUndispatched, ClaimUndispatched,
       OneClaim, Taken, SameClaim
  <2>3. OneWorker' /\ ToldTheTruth'
    BY <1>2 DEF HandoffInv, handoffVars, OneWorker, WorksFor, SameWork, TrulyDone, Working,
       GaveUpOn, ToldTheTruth, LatestAsk
  <2> QED BY <2>1, <2>2, <2>3 DEF HandoffInv
<1> QED BY <1>1, <1>2

\* The inductive invariant of the handoffs.
LEMMA HandoffSafe == HandoffSpec => []HandoffInv
<1>1. HandoffInit => HandoffInv
  BY InitHolds
<1>2. HandoffInv /\ [HandoffNext]_handoffVars => HandoffInv'
  BY HandoffStep
<1> QED BY <1>1, <1>2, PTL DEF HandoffSpec

\* No request is dispatched twice, whatever claims race and crash: for any number
\* of clients, gateways, sessions and requests.
THEOREM DispatchedOnceHolds == HandoffSpec => []DispatchedOnce
<1>1. HandoffInv => DispatchedOnce
  <2> SUFFICES ASSUME HandoffInv PROVE DispatchedOnce
    OBVIOUS
  <2>1. HandoffTyped
    BY DEF HandoffInv
  <2>2. row \in [Sessions -> Rows] /\ cli \in [Clients -> Calls]
    BY <2>1 DEF HandoffTyped
  <2>3. ASSUME NEW g \in Gateways PROVE gw[g] \in Watchers
    BY <2>1 DEF HandoffTyped
  <2>4. ASSUME NEW i \in 1..Len(asked) PROVE asked[i] \in Listings
    BY <2>1 DEF HandoffTyped
  <2>5. \A g \in Gateways :
          /\ gw[g].at \in {"down", "idle", "tick", "claimed", "turn", "completing", "failing"}
          /\ gw[g].todo \subseteq [sess : Sessions, platform : Platforms]
          /\ gw[g].sess \in Sessions \cup {None}
          /\ gw[g].platform \in Platforms \cup {"none"}
          /\ gw[g].ask \in Asks \cup {None}
    BY <2>3 DEF Watchers, Listings
  <2>6. \A i \in 1..Len(asked) : asked[i] \in [sess : Sessions, platform : Platforms]
    BY <2>4 DEF Listings
  <2>7. /\ row \in [Sessions -> [state : {"null", "pending", "running"} \cup Settled,
                             platform : Platforms \cup {"none"},
                             ask : Asks \cup {None}]]
        /\ cli \in [Clients -> [at : {"idle", "polling", "late"},
                            sess : Sessions \cup {None},
                            ask : Asks \cup {None}]]
    BY <2>2 DEF Rows, Calls
  <2>8. /\ bound \in [Platforms -> Sessions \cup {None}] /\ crashes \in 0..MaxCrashes
        /\ expired \subseteq 1..Len(asked) /\ served \subseteq 1..Len(asked)
    BY <2>1 DEF HandoffTyped
  <2>9. HandoffTypeOK
    BY <2>5, <2>6, <2>7, <2>8, Zenon DEF HandoffTypeOK
  <2> QED BY <2>9 DEF HandoffInv, Undispatched, DispatchedOnce
<1> QED BY <1>1, HandoffSafe, PTL

\* A client that was told that its handoff is completed was served, unless some
\* client gave up on that session or a later request took the row over.
THEOREM ToldTheTruthHolds == HandoffSpec => []ToldTheTruth
<1>1. HandoffInv => ToldTheTruth
  BY DEF HandoffInv
<1> QED BY <1>1, HandoffSafe, PTL

\* A row of a session nobody gave up on moves along the documented diagram.
LEMMA DiagramStep ==
    ASSUME HandoffInv, HandoffNext, NEW s \in Sessions,
           row'[s].state # row[s].state, ~GaveUpOn(s)'
    PROVE  <<row[s].state, row'[s].state>> \in Diagram
<1> Base /\ Ours /\ OneWorker /\ HandoffTyped
  BY Zenon DEF HandoffInv, Base
<1> DEFINE Goal == <<row[s].state, row'[s].state>> \in Diagram
<1>1. ASSUME NEW c \in Clients, NEW t \in Sessions, NEW p \in Platforms, Requested(c, t, p)
      PROVE  Goal
  <2>1. t = s /\ row'[s].state = "pending"
    BY <1>1 DEF Requested
  <2>2. row[s].state \in {"null", "completed", "failed"}
    BY <1>1, <2>1 DEF Requested, Requestable
  <2> QED BY <2>1, <2>2 DEF Diagram
<1>2. ASSUME NEW c \in Clients, Answered(c) \/ Lingers(c)
      PROVE  row' = row
  BY <1>2 DEF Answered, Lingers
<1>3. ASSUME NEW c \in Clients, GivesUp(c)
      PROVE  FALSE
  <2>1. cli[c].sess = s
    BY <1>3 DEF GivesUp, RowGoes
  <2>2. cli[c].ask \in expired' /\ asked'[cli[c].ask].sess = s
    BY <1>3, <2>1 DEF GivesUp, Ours, CallOurs
  <2> QED BY <2>2 DEF GaveUpOn
<1>4. ASSUME NEW g \in Gateways, Rests(g) \/ Dispatches(g) \/ Serves(g)
      PROVE  row' = row
  BY <1>4 DEF Rests, Dispatches, Serves
<1>5. ASSUME NEW g \in Gateways, NEW t \in Sessions, Claims(g, t)
      PROVE  Goal
  <2>1. t = s /\ row[s].state = "pending" /\ row'[s].state = "running"
    BY <1>5 DEF Claims, RowGoes
  <2> QED BY <2>1 DEF Diagram
<1>6. ASSUME NEW g \in Gateways, NEW state \in Settled, Settles(g, state)
      PROVE  Goal
  <2>1. gw[g].sess = s /\ row'[s].state = state /\ Working(g)
    BY <1>6 DEF Settles, RowGoes, Working
  <2>2. ~GaveUpOn(s)
    BY <1>6 DEF Settles, history, GaveUpOn
  <2>3. row[s].state = "running"
    BY <2>1, <2>2 DEF OneWorker, WorksFor
  <2> QED BY <2>1, <2>3 DEF Diagram
<1> HIDE DEF Goal
<1>7. Goal
  BY <1>1, <1>2, <1>3, <1>4, <1>5, <1>6, StepEffect, Zenon
<1> QED BY <1>7 DEF Goal

\* Completion and failure write without a look at the state of the row; all the
\* same, where no client gave up, the row follows the diagram of the queue's header.
THEOREM DiagramHolds == HandoffSpec => FollowsDiagram
<1>1. HandoffInv /\ [HandoffNext]_handoffVars
        => [\A s \in Sessions :
              row'[s].state # row[s].state /\ ~GaveUpOn(s)'
                  => <<row[s].state, row'[s].state>> \in Diagram]_handoffVars
  BY DiagramStep
<1> QED BY <1>1, HandoffSafe, PTL DEF HandoffSpec, FollowsDiagram
=============================================================================
