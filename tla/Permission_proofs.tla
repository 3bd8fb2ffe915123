------------------------- MODULE Permission_proofs -------------------------
(* Who may act on a session.  A turn writes only under a lease that is still *)
(* its own, for any number of holders, sessions and lapses; and a gated      *)
(* command runs only with a consent to that command, for any number of       *)
(* calls, commands and answers.                                              *)
EXTENDS TurnLease, Approvals, SequenceTheorems, TLAPS

----------------------------------------------------------------------------
(* TURN LEASES *)

USE TurnLeaseAssumption

\* The invariant holds at the start.
LEMMA LeaseInit == Init => LeaseInv
  BY DEF Init, LeaseInv, TypeOK, Phases, Fenced, RowsOnRoots, AtWork,
         Running, Conv, Exists

\* Every action keeps the types: Ends, Poll and the rest stay in their sets.
LEMMA TypeStep == TypeOK /\ AtWork /\ [Next]_vars => TypeOK'
<1> SUFFICES ASSUME TypeOK, AtWork, [Next]_vars PROVE TypeOK'
  OBVIOUS
<1> USE DEF TypeOK, Phases, AtWork, Exists, Conv, Running, table
<1>1. ASSUME NEW t \in Turns, NEW s \in Sessions, AcquireWait(t, s)
      PROVE  TypeOK'
  BY <1>1 DEF AcquireWait
<1>2. ASSUME NEW t \in Turns, NEW s \in Sessions, Rotate(t, s)
      PROVE  TypeOK'
  BY <1>2 DEF Rotate
<1>3. ASSUME NEW t \in Turns, TakeRow(t) PROVE TypeOK'
  <2>1. Conv(t) \in Sessions /\ session[t] \in Sessions
    BY <1>3 DEF TakeRow
  <2>2. superseded' \in [Turns -> BOOLEAN]
    BY <1>3 DEF TakeRow
  <2>3. /\ holder' \in [Sessions -> Turns \cup {Nobody}]
        /\ ttl' \in [Sessions -> 0..TTL]
        /\ phase' \in [Turns -> Phases]
        /\ left' \in [Turns -> 0..WaitBudget]
    BY <1>3, <2>1 DEF TakeRow
  <2> QED
    BY <1>3, <2>2, <2>3 DEF TakeRow
<1>4. ASSUME NEW t \in Turns, FindOwnRow(t) PROVE TypeOK'
  BY <1>4 DEF FindOwnRow
<1>5. ASSUME NEW t \in Turns, PollFails(t) \/ AbortWait(t) PROVE TypeOK'
  BY <1>5 DEF PollFails, AbortWait, Ends
<1>6. ASSUME NEW t \in Turns, Refresh(t) PROVE TypeOK'
  BY <1>6 DEF Refresh
<1>7. ASSUME NEW t \in Turns, ReleaseHolder(t) PROVE TypeOK'
  BY <1>7 DEF ReleaseHolder, Ends
<1>8. ASSUME NEW t \in Turns, AppendMessage(t) PROVE TypeOK'
  BY <1>8 DEF AppendMessage
<1>9. ASSUME NEW s \in Sessions, NewRoot(s) PROVE TypeOK'
  BY <1>9 DEF NewRoot
<1>10. ASSUME NEW p \in Procs, Crash(p) PROVE TypeOK'
  BY <1>10 DEF Crash
<1>11. ASSUME NEW p \in Procs, Restart(p) PROVE TypeOK'
  BY <1>11 DEF Restart
<1>12. CASE Tick
  BY <1>12 DEF Tick
<1>13. CASE UNCHANGED vars
  BY <1>13 DEF vars
<1> QED
  BY <1>1, <1>2, <1>3, <1>4, <1>5, <1>6, <1>7, <1>8, <1>9, <1>10, <1>11,
     <1>12, <1>13 DEF Next

\* The fence: whoever takes a row supersedes the running turns of that
\* conversation in the same transaction, and only the owner's own release or a
\* crash takes a running turn's row away without a successor.
LEMMA FenceStep == LeaseInv /\ [Next]_vars => Fenced'
<1> SUFFICES ASSUME LeaseInv, [Next]_vars, NEW u \in Turns, Running(u)'
             PROVE  (holder[Conv(u)] = u <=> ~superseded[u])'
  BY DEF Fenced
<1> USE DEF LeaseInv, TypeOK, Fenced, AtWork, Running, Conv, Exists, table
<1>1. ASSUME NEW t \in Turns, NEW s \in Sessions, AcquireWait(t, s)
      PROVE  (holder[Conv(u)] = u <=> ~superseded[u])'
  BY <1>1 DEF AcquireWait, Phases
<1>2. ASSUME NEW t \in Turns, NEW s \in Sessions, Rotate(t, s)
      PROVE  (holder[Conv(u)] = u <=> ~superseded[u])'
  BY <1>2 DEF Rotate
<1>3. ASSUME NEW t \in Turns, TakeRow(t)
      PROVE  (holder[Conv(u)] = u <=> ~superseded[u])'
  <2> DEFINE c == Conv(t)
  <2>1. /\ session' = session /\ root' = root
        /\ holder' = [holder EXCEPT ![c] = t]
        /\ phase' = [phase EXCEPT ![t] = "running"]
        /\ superseded' = [x \in Turns |->
                            IF x # t /\ Running(x) /\ Conv(x) = c THEN TRUE
                            ELSE superseded[x]]
        /\ ~superseded[t] /\ c \in Sessions
    BY <1>3 DEF TakeRow
  <2>2. CASE u = t
    BY <2>1, <2>2
  <2>3. CASE u # t /\ Conv(u) = c
    BY <2>1, <2>3
  <2>4. CASE u # t /\ Conv(u) # c
    <3>1. Running(u) /\ Conv(u)' = Conv(u)
      BY <2>1, <2>4
    <3>2. holder'[Conv(u)] = holder[Conv(u)] /\ superseded'[u] = superseded[u]
      BY <2>1, <2>4, <3>1
    <3> QED
      BY <3>1, <3>2
  <2> QED
    BY <2>2, <2>3, <2>4
<1>4. ASSUME NEW t \in Turns, FindOwnRow(t)
      PROVE  (holder[Conv(u)] = u <=> ~superseded[u])'
  BY <1>4 DEF FindOwnRow
<1>5. ASSUME NEW t \in Turns, PollFails(t) \/ AbortWait(t)
      PROVE  (holder[Conv(u)] = u <=> ~superseded[u])'
  BY <1>5 DEF PollFails, AbortWait, Ends, Phases
<1>6. ASSUME NEW t \in Turns, Refresh(t)
      PROVE  (holder[Conv(u)] = u <=> ~superseded[u])'
  BY <1>6 DEF Refresh, Phases
<1>7. ASSUME NEW t \in Turns, ReleaseHolder(t)
      PROVE  (holder[Conv(u)] = u <=> ~superseded[u])'
  BY <1>7 DEF ReleaseHolder, Ends, Phases
<1>8. ASSUME NEW t \in Turns, AppendMessage(t)
      PROVE  (holder[Conv(u)] = u <=> ~superseded[u])'
  BY <1>8 DEF AppendMessage, Phases
<1>9. ASSUME NEW s \in Sessions, NewRoot(s)
      PROVE  (holder[Conv(u)] = u <=> ~superseded[u])'
  BY <1>9 DEF NewRoot
<1>10. ASSUME NEW p \in Procs, Crash(p)
       PROVE  (holder[Conv(u)] = u <=> ~superseded[u])'
  BY <1>10 DEF Crash, Phases
<1>11. ASSUME NEW p \in Procs, Restart(p)
       PROVE  (holder[Conv(u)] = u <=> ~superseded[u])'
  BY <1>11 DEF Restart
<1>12. CASE Tick
  BY <1>12 DEF Tick
<1>13. CASE UNCHANGED vars
  BY <1>13 DEF vars
<1> QED
  BY <1>1, <1>2, <1>3, <1>4, <1>5, <1>6, <1>7, <1>8, <1>9, <1>10, <1>11,
     <1>12, <1>13 DEF Next

\* Roots stay roots: a rotation gives the new segment its parent's root.
LEMMA RootStep == LeaseInv /\ [Next]_vars => RowsOnRoots' /\ AtWork'
<1> SUFFICES ASSUME LeaseInv, [Next]_vars PROVE RowsOnRoots' /\ AtWork'
  OBVIOUS
<1> USE DEF LeaseInv, TypeOK, RowsOnRoots, AtWork, Running, Conv, Exists, table
<1>1. ASSUME NEW t \in Turns, NEW s \in Sessions, AcquireWait(t, s)
      PROVE  RowsOnRoots' /\ AtWork'
  BY <1>1 DEF AcquireWait
<1>2. ASSUME NEW t \in Turns, NEW s \in Sessions, Rotate(t, s)
      PROVE  RowsOnRoots' /\ AtWork'
  BY <1>2 DEF Rotate
<1>3. ASSUME NEW t \in Turns, TakeRow(t) PROVE RowsOnRoots' /\ AtWork'
  BY <1>3 DEF TakeRow
<1>4. ASSUME NEW t \in Turns, FindOwnRow(t) PROVE RowsOnRoots' /\ AtWork'
  BY <1>4 DEF FindOwnRow
<1>5. ASSUME NEW t \in Turns, PollFails(t) \/ AbortWait(t)
      PROVE  RowsOnRoots' /\ AtWork'
  BY <1>5 DEF PollFails, AbortWait, Ends
<1>6. ASSUME NEW t \in Turns, Refresh(t) PROVE RowsOnRoots' /\ AtWork'
  BY <1>6 DEF Refresh
<1>7. ASSUME NEW t \in Turns, ReleaseHolder(t) PROVE RowsOnRoots' /\ AtWork'
  BY <1>7 DEF ReleaseHolder, Ends
<1>8. ASSUME NEW t \in Turns, AppendMessage(t) PROVE RowsOnRoots' /\ AtWork'
  BY <1>8 DEF AppendMessage
<1>9. ASSUME NEW s \in Sessions, NewRoot(s) PROVE RowsOnRoots' /\ AtWork'
  BY <1>9 DEF NewRoot
<1>10. ASSUME NEW p \in Procs, Crash(p) PROVE RowsOnRoots' /\ AtWork'
  BY <1>10 DEF Crash
<1>11. ASSUME NEW p \in Procs, Restart(p) PROVE RowsOnRoots' /\ AtWork'
  BY <1>11 DEF Restart
<1>12. CASE Tick
  BY <1>12 DEF Tick
<1>13. CASE UNCHANGED vars
  BY <1>13 DEF vars
<1> QED
  BY <1>1, <1>2, <1>3, <1>4, <1>5, <1>6, <1>7, <1>8, <1>9, <1>10, <1>11,
     <1>12, <1>13 DEF Next

\* The inductive invariant holds of every behaviour of the lease store.
THEOREM LeaseSafe == Spec => []LeaseInv
<1>1. LeaseInv /\ [Next]_vars => LeaseInv'
  BY TypeStep, FenceStep, RootStep DEF LeaseInv
<1> QED
  BY LeaseInit, <1>1, PTL DEF Spec

\* Type correctness, for every behaviour of the store and its clients.
THEOREM TypeCorrect == Spec => []TypeOK
  BY LeaseSafe, PTL DEF LeaseInv

\* The holder column and the clients' belief agree, so the write guard may
\* decide by the column (checkTurnLeaseWriteGuardOnConn).
THEOREM FenceHolds == Spec => []Fenced
  BY LeaseSafe, PTL DEF LeaseInv

\* Every segment of a conversation contends for the one row of its root.
THEOREM RootsHold == Spec => []RowsOnRoots
  BY LeaseSafe, PTL DEF LeaseInv

-----------------------------------------------------------------------------
(* Action properties *)

\* Only AppendMessage writes the transcript, and only as the row's holder,
\* who by the fence has not been superseded.
LEMMA StaleStep ==
  ASSUME LeaseInv, [Next]_vars, NEW t \in Turns, NEW c \in Sessions,
         superseded[t], tail'[c] = t
  PROVE  tail[c] = t
<1> USE DEF LeaseInv, TypeOK, table
<1>1. ASSUME NEW u \in Turns, AppendMessage(u) PROVE tail[c] = t
  BY <1>1 DEF AppendMessage, Fenced, AtWork
<1>2. CASE \A u \in Turns : ~AppendMessage(u)
  <2>1. UNCHANGED tail
    BY <1>2 DEF Next, vars, AcquireWait, Rotate, TakeRow, FindOwnRow, PollFails,
       AbortWait, Refresh, ReleaseHolder, NewRoot, Crash, Restart, Tick
  <2> QED
    BY <2>1
<1> QED
  BY <1>1, <1>2

\* No row of a superseded turn ever lands behind its successor's.
THEOREM NoInterleaving == Spec => StaleNeverLands
<1>1. LeaseInv /\ [Next]_vars =>
        [\A t \in Turns : \A c \in Sessions :
            superseded[t] /\ tail'[c] = t => tail[c] = t]_vars
  BY StaleStep
<1> QED
  BY LeaseSafe, <1>1, PTL DEF Spec, StaleNeverLands

\* Taking a row needs it expired or its holder dead; dropping one needs to be
\* its holder.
LEMMA StealStep ==
  ASSUME LeaseInv, [Next]_vars, NEW c \in Sessions,
         holder[c] # Nobody, holder'[c] # holder[c],
         ttl[c] > 0, alive[ProcOf[holder[c]]]
  PROVE  phase[holder[c]] \in {"running", "lost"} /\ phase'[holder[c]] = "idle"
<1> USE DEF LeaseInv, TypeOK, table
<1>1. ASSUME NEW u \in Turns, TakeRow(u)
      PROVE  phase[holder[c]] \in {"running", "lost"} /\ phase'[holder[c]] = "idle"
  BY <1>1 DEF TakeRow, Reclaimable, HolderProcessIsDead, Conv, AtWork, Exists
<1>2. ASSUME NEW u \in Turns, ReleaseHolder(u)
      PROVE  phase[holder[c]] \in {"running", "lost"} /\ phase'[holder[c]] = "idle"
  BY <1>2 DEF ReleaseHolder, Ends
<1>3. CASE \A u \in Turns : ~TakeRow(u) /\ ~ReleaseHolder(u)
  <2>1. UNCHANGED holder
    BY <1>3 DEF Next, vars, AcquireWait, Rotate, FindOwnRow, PollFails,
       AbortWait, Refresh, AppendMessage, NewRoot, Crash, Restart, Tick
  <2> QED
    BY <2>1
<1> QED
  BY <1>1, <1>2, <1>3

\* A live, unexpired row changes hands by its own holder's release only.
THEOREM LiveRowsKept == Spec => NoLiveSteal
<1>1. LeaseInv /\ [Next]_vars =>
        [\A c \in Sessions :
           /\ holder[c] # Nobody /\ holder'[c] # holder[c]
           /\ ttl[c] > 0 /\ alive[ProcOf[holder[c]]]
           => phase[holder[c]] \in {"running", "lost"} /\ phase'[holder[c]] = "idle"]_vars
  BY StealStep
<1> QED
  BY LeaseSafe, <1>1, PTL DEF Spec, NoLiveSteal

-----------------------------------------------------------------------------
(* The refinement *)

\* No row, no owner.
LEMMA PromiseInit == Init => Promise!Init
  BY DEF Init, Promise!Init, Owner

\* Taking or finding a row is Take; releasing it or crashing is Yield; an
\* appended row is Land; nothing else touches the owner.
LEMMA PromiseStep ==
  ASSUME LeaseInv, [Next]_vars
  PROVE  [Promise!Next]_<<Owner, tail>>
<1> USE DEF LeaseInv, TypeOK, AtWork, Owner, Running, Conv, Exists, table
<1>1. ASSUME NEW t \in Turns, NEW s \in Sessions, AcquireWait(t, s)
      PROVE  UNCHANGED <<Owner, tail>>
  BY <1>1 DEF AcquireWait
<1>2. ASSUME NEW t \in Turns, NEW s \in Sessions, Rotate(t, s)
      PROVE  UNCHANGED <<Owner, tail>>
  BY <1>2 DEF Rotate
<1>3. ASSUME NEW t \in Turns, TakeRow(t)
      PROVE  Promise!Take(Conv(t), t)
  BY <1>3 DEF TakeRow, Promise!Take
<1>4. ASSUME NEW t \in Turns, FindOwnRow(t)
      PROVE  Promise!Take(Conv(t), t)
  <2>1. /\ Conv(t) \in Sessions /\ holder[Conv(t)] = t /\ ~Running(t)
        /\ phase' = [phase EXCEPT ![t] = "running"]
        /\ UNCHANGED <<root, session, holder, tail>>
    BY <1>4 DEF FindOwnRow
  <2>2. ASSUME NEW c \in Sessions
        PROVE  Owner'[c] = IF c = Conv(t) THEN t ELSE Owner[c]
    BY <2>1
  <2>3. Owner' = [Owner EXCEPT ![Conv(t)] = t]
    BY <2>2
  <2> QED
    BY <2>1, <2>3 DEF Promise!Take
<1>5. ASSUME NEW t \in Turns, PollFails(t) \/ AbortWait(t)
      PROVE  UNCHANGED <<Owner, tail>>
  BY <1>5 DEF PollFails, AbortWait, Ends, Phases
<1>6. ASSUME NEW t \in Turns, Refresh(t)
      PROVE  UNCHANGED <<Owner, tail>>
  BY <1>6 DEF Refresh, Phases
<1>7. ASSUME NEW t \in Turns, ReleaseHolder(t)
      PROVE  Promise!Yield({c \in Sessions : holder[c] = t /\ c = Conv(t)})
  BY <1>7 DEF ReleaseHolder, Ends, Phases, Promise!Yield
<1>8. ASSUME NEW t \in Turns, AppendMessage(t)
      PROVE  Promise!Land(Conv(t)) \/ UNCHANGED <<Owner, tail>>
  BY <1>8 DEF AppendMessage, Phases, Promise!Land
<1>9. ASSUME NEW s \in Sessions, NewRoot(s)
      PROVE  UNCHANGED <<Owner, tail>>
  BY <1>9 DEF NewRoot
<1>10. ASSUME NEW p \in Procs, Crash(p)
       PROVE  Promise!Yield({c \in Sessions : holder[c] \in Turns
                                              /\ ProcOf[holder[c]] = p})
  BY <1>10 DEF Crash, Promise!Yield
<1>11. ASSUME NEW p \in Procs, Restart(p)
       PROVE  UNCHANGED <<Owner, tail>>
  BY <1>11 DEF Restart
<1>12. ASSUME Tick PROVE UNCHANGED <<Owner, tail>>
  BY <1>12 DEF Tick
<1>13. ASSUME UNCHANGED vars PROVE UNCHANGED <<Owner, tail>>
  BY <1>13 DEF vars
<1>14. \A t \in Turns : Running(t) => Conv(t) \in Sessions
  OBVIOUS
<1> QED
  <2>1. ASSUME NEW t \in Turns, TakeRow(t) \/ FindOwnRow(t)
        PROVE  Promise!Next
    <3>1. Conv(t) \in Sessions
      BY <2>1 DEF TakeRow, FindOwnRow
    <3> HIDE DEF LeaseInv, TypeOK, AtWork, Owner, Running, Conv, Exists, table
    <3> QED
      BY <2>1, <3>1, <1>3, <1>4 DEF Promise!Next
  <2>2. ASSUME NEW t \in Turns, AppendMessage(t)
        PROVE  Promise!Next \/ UNCHANGED <<Owner, tail>>
    BY <2>2, <1>8, <1>14 DEF AppendMessage, Promise!Next
  <2> HIDE DEF LeaseInv, TypeOK, AtWork, Owner, Running, Conv, Exists, table
  <2>3. ASSUME NEW C \in SUBSET Sessions, Promise!Yield(C)
        PROVE  Promise!Next
    BY <2>3 DEF Promise!Next
  <2>4. ASSUME NEW t \in Turns, ReleaseHolder(t) PROVE Promise!Next
    <3> DEFINE C == {c \in Sessions : holder[c] = t /\ c = Conv(t)}
    <3>1. C \in SUBSET Sessions /\ Promise!Yield(C)
      BY <2>4, <1>7
    <3> HIDE DEF C
    <3> QED
      BY <2>3, <3>1
  <2>5. ASSUME NEW p \in Procs, Crash(p) PROVE Promise!Next
    <3> DEFINE C == {c \in Sessions : holder[c] \in Turns
                                      /\ ProcOf[holder[c]] = p}
    <3>1. C \in SUBSET Sessions /\ Promise!Yield(C)
      BY <2>5, <1>10
    <3> HIDE DEF C
    <3> QED
      BY <2>3, <3>1
  <2> QED
    BY <2>1, <2>2, <2>4, <2>5, <1>1, <1>2, <1>5, <1>6, <1>9, <1>11, <1>12,
       <1>13 DEF Next

\* The lease store implements the fenced transcript.
THEOREM StoreRefines == Spec => ImplementsPromise
  BY LeaseSafe, PromiseInit, PromiseStep, PTL DEF Spec, Promise!Spec, ImplementsPromise

----------------------------------------------------------------------------
(* APPROVALS *)

HIDE TurnLeaseAssumption

\* No entry is in a queue twice.
Distinct(q) == \A i, j \in 1..Len(q) : q[i] = q[j] => i = j

\* The calls of a queue, and where they stand.
LEMMA ToSetOf ==
  ASSUME NEW S, NEW q \in Seq(S)
  PROVE  ToSet(q) = {q[i] : i \in 1..Len(q)} /\ ToSet(q) \subseteq S
  BY DEF ToSet

\* A call that is not queued joins at the end.
LEMMA AfterAppend ==
  ASSUME NEW q \in Seq(Asks), Distinct(q), NEW a \in Asks \ ToSet(q)
  PROVE  /\ Append(q, a) \in Seq(Asks) /\ Distinct(Append(q, a))
         /\ ToSet(Append(q, a)) = ToSet(q) \cup {a}
<1> DEFINE r == Append(q, a)
<1>1. /\ r \in Seq(Asks) /\ Len(r) = Len(q) + 1 /\ r[Len(q) + 1] = a
      /\ \A i \in 1..Len(q) : r[i] = q[i]
  OBVIOUS
<1>2. Len(q) \in Nat /\ \A i \in 1..Len(q) : q[i] # a
  BY ToSetOf
<1> HIDE DEF r
<1>3. Distinct(r)
  BY <1>1, <1>2 DEF Distinct
<1>4. ToSet(r) = ToSet(q) \cup {a}
  BY <1>1, <1>2, ToSetOf
<1> QED BY <1>1, <1>3, <1>4 DEF r

\* A queue without its k-th entry.
LEMMA AfterRemoval ==
  ASSUME NEW q \in Seq(Asks), Distinct(q), NEW k \in 1..Len(q), NEW r \in Seq(Asks),
         Len(r) = Len(q) - 1,
         \A i \in 1..Len(r) : r[i] = IF i < k THEN q[i] ELSE q[i + 1]
  PROVE  Distinct(r) /\ ToSet(r) = ToSet(q) \ {q[k]}
<1>1. Len(q) \in Nat /\ Len(r) \in Nat
  OBVIOUS
<1>2. Distinct(r)
  <2> SUFFICES ASSUME NEW i \in 1..Len(r), NEW j \in 1..Len(r), r[i] = r[j] PROVE i = j
    BY DEF Distinct
  <2> DEFINE at(n) == IF n < k THEN n ELSE n + 1
  <2>1. at(i) \in 1..Len(q) /\ at(j) \in 1..Len(q) /\ q[at(i)] = r[i] /\ q[at(j)] = r[j]
    BY <1>1
  <2>2. at(i) = at(j)
    <3> HIDE DEF at
    <3> QED BY <2>1 DEF Distinct
  <2> QED BY <2>2
<1>3. ASSUME NEW i \in 1..Len(r) PROVE r[i] \in ToSet(q) \ {q[k]}
  BY <1>1, ToSetOf DEF Distinct
<1>4. ASSUME NEW i \in 1..Len(q), q[i] # q[k] PROVE q[i] \in ToSet(r)
  <2>1. CASE i < k
    <3>1. i \in 1..Len(r) /\ r[i] = q[i]
      BY <1>1, <2>1
    <3> QED BY <3>1, ToSetOf
  <2>2. CASE i > k
    <3>1. i - 1 \in 1..Len(r) /\ r[i - 1] = q[i]
      BY <1>1, <2>2
    <3> QED BY <3>1, ToSetOf
  <2> QED BY <1>4, <2>1, <2>2
<1> QED BY <1>2, <1>3, <1>4, ToSetOf

\* So is a queue from which a call is removed by name.
LEMMA AfterRemoveFirst ==
  ASSUME NEW q \in Seq(Asks), Distinct(q), NEW a
  PROVE  /\ RemoveFirst(q, a) \in Seq(Asks) /\ Distinct(RemoveFirst(q, a))
         /\ ToSet(RemoveFirst(q, a)) = ToSet(q) \ {a}
<1>1. CASE a \notin ToSet(q)
  <2>1. ~ \E i \in 1..Len(q) : q[i] = a
    BY <1>1, ToSetOf
  <2>2. RemoveFirst(q, a) = q
    BY <2>1 DEF RemoveFirst
  <2> QED BY <1>1, <2>2, ToSetOf
<1>2. CASE a \in ToSet(q)
  <2>1. PICK k \in 1..Len(q) : q[k] = a
    BY <1>2, ToSetOf
  <2>2. SelectInSeq(q, LAMBDA v : v = a) = k
    <3>1. {i \in 1..Len(q) : q[i] = a} = {k}
      BY <2>1 DEF Distinct
    <3>2. Min({k}) = k
      BY DEF Min
    <3> QED BY <3>1, <3>2 DEF SelectInSeq
  <2> DEFINE r == SubSeq(q, 1, k - 1) \o SubSeq(q, k + 1, Len(q))
  <2>3. RemoveFirst(q, a) = r
    BY <2>1, <2>2 DEF RemoveFirst, RemoveAt
  <2> DEFINE front == SubSeq(q, 1, k - 1)
             back == SubSeq(q, k + 1, Len(q))
  <2>4. k - 1 \in 0..Len(q) /\ k + 1 \in 1..Len(q) + 1 /\ Len(q) \in Nat
    OBVIOUS
  <2>5. front \in Seq(Asks) /\ Len(front) = k - 1 /\ \A i \in 1..k - 1 : front[i] = q[i]
    <3>1. 1 \in 1..Len(q) + 1 /\ k - 1 \in 0..Len(q)
      BY <2>4
    <3> QED BY <3>1, <2>4, SubSeqProperties
  <2>6. back \in Seq(Asks) /\ Len(back) = Len(q) - k /\ \A i \in 1..Len(q) - k : back[i] = q[k + i]
    BY <2>4, SubSeqProperties
  <2> HIDE DEF front, back
  <2>7. r = front \o back
    BY DEF front, back
  <2> HIDE DEF r
  <2>8. r \in Seq(Asks) /\ Len(r) = Len(q) - 1
    BY <2>4, <2>5, <2>6, <2>7
  <2>9. \A i \in 1..Len(r) : r[i] = IF i < k THEN q[i] ELSE q[i + 1]
    <3> TAKE i \in 1..Len(r)
    <3>1. CASE i < k
      BY <2>4, <2>5, <2>6, <2>7, <2>8, <3>1
    <3>2. CASE i >= k
      <4>1. i - (k - 1) \in 1..Len(q) - k /\ r[i] = back[i - (k - 1)] /\ k + (i - (k - 1)) = i + 1
        BY <2>4, <2>5, <2>6, <2>7, <2>8, <3>2
      <4> QED BY <4>1, <2>6, <3>2
    <3> QED BY <3>1, <3>2
  <2>10. Distinct(r) /\ ToSet(r) = ToSet(q) \ {q[k]}
    BY <2>8, <2>9, AfterRemoval
  <2> QED BY <2>1, <2>3, <2>8, <2>10
<1> QED BY <1>1, <1>2

\* And a queue without its oldest entry.
LEMMA AfterTail ==
  ASSUME NEW q \in Seq(Asks), Distinct(q), q # <<>>
  PROVE  /\ Tail(q) \in Seq(Asks) /\ Distinct(Tail(q)) /\ ToSet(Tail(q)) \subseteq ToSet(q)
<1> DEFINE r == Tail(q)
<1>1. 1 \in 1..Len(q) /\ r \in Seq(Asks) /\ Len(r) = Len(q) - 1
  OBVIOUS
<1>2. \A i \in 1..Len(r) : r[i] = IF i < 1 THEN q[i] ELSE q[i + 1]
  OBVIOUS
<1> HIDE DEF r
<1>3. Distinct(r) /\ ToSet(r) = ToSet(q) \ {q[1]}
  BY <1>1, <1>2, AfterRemoval
<1> QED BY <1>1, <1>3 DEF r
Prompting == {"pre", "notify", "wait"}

\* An entry is pending exactly while its call is on its way to a prompt or
\* waits at one, and has not been settled.
Listed(a) == a \in Pending <=> pc[a] \in Prompting /\ a \notin done
\* Only a call that queued an entry can have been settled,
Settled(a) == a \in done => pc[a] \in Prompting \cup {"back"}
\* the calls that are back are the ones that decided,
Decided(a) == verdict[a] = None <=> pc[a] # "back"
\* a decision slot is empty until its entry is settled,
Given(a) == a \notin done => result[a] = None
\* and a coalesced call waits for a call that queued the same command.
Led(a) == pc[a] \in {"coalesce", "follow"} =>
    /\ lead[a] \in Asks /\ Wants[lead[a]] = Wants[a]
    /\ pc[lead[a]] \in Prompting \cup {"back"}

Sound(a) == Listed(a) /\ Settled(a) /\ Decided(a) /\ Given(a) /\ Led(a)

ApprovalsInv == ApprovalsTypeOK /\ Distinct(queue) /\ \A a \in Asks : Sound(a)

USE WantsAssumption DEF Prompting, Answers, Pcs

\* The invariant holds at the start.
LEMMA ApprovalsStart == ApprovalsInit => ApprovalsInv
<1> SUFFICES ASSUME ApprovalsInit PROVE ApprovalsInv
  OBVIOUS
<1>1. ApprovalsTypeOK
  <2>1. queue \in Seq(Asks) /\ done \subseteq Asks /\ cards \subseteq Asks
    BY DEF ApprovalsInit
  <2>2. /\ pc \in [Asks -> Pcs] /\ lead \in [Asks -> Asks \cup {None}]
        /\ result \in [Asks -> Answers \cup {None}]
        /\ verdict \in [Asks -> Answers \cup {"timeout", "failed", None}]
    BY DEF ApprovalsInit
  <2> QED BY <2>1, <2>2 DEF ApprovalsInit, ApprovalsTypeOK
<1>2. Pending = {} /\ Distinct(queue)
  BY DEF ApprovalsInit, Pending, ToSet, Distinct
<1>3. ASSUME NEW a \in Asks PROVE Sound(a)
  BY <1>2 DEF ApprovalsInit, Sound, Listed, Settled, Decided, Given, Led, None
<1> QED BY <1>1, <1>2, <1>3 DEF ApprovalsInv

----------------------------------------------------------------------------
(* What the actions do to one call *)

Others(a) == \A b \in Asks \ {a} : /\ pc'[b] = pc[b] /\ lead'[b] = lead[b]
                                   /\ verdict'[b] = verdict[b] /\ result'[b] = result[b]

\* A call queues an entry of its own.
Queues(a) ==
    /\ pc[a] \in {"idle", "follow"} /\ pc'[a] = "pre"
    /\ Pending' = Pending \cup {a}
    /\ Others(a) /\ UNCHANGED <<verdict, result, done>>

\* A call follows another one.
Follows(a) ==
    /\ pc[a] = "idle" /\ pc'[a] = "coalesce"
    /\ lead'[a] \in Pending /\ Wants[lead'[a]] = Wants[a]
    /\ Pending' = Pending
    /\ Others(a) /\ UNCHANGED <<verdict, result, done>>

\* A call goes on to its next await.
GoesOn(a) ==
    /\ \/ pc[a] \in Prompting /\ pc'[a] \in Prompting
       \/ pc[a] = "coalesce" /\ pc'[a] = "follow"
    /\ Pending' = Pending /\ lead' = lead
    /\ Others(a) /\ UNCHANGED <<verdict, result, done>>

\* A call decides for itself.  Only a denied prompt settles the entry too.
Decides(a, v) ==
    /\ pc[a] \in Pcs \ {"idle", "back"} /\ pc'[a] = "back"
    /\ v # None /\ verdict' = [verdict EXCEPT ![a] = v]
    /\ Pending' = Pending \ {a} /\ lead' = lead
    /\ \/ UNCHANGED <<result, done>>
       \/ /\ pc[a] \in Prompting /\ v = "deny"
          /\ result' = [result EXCEPT ![a] = "deny"] /\ done' = done \cup {a}
    /\ \/ v \in {"deny", "timeout", "failed"}
       \/ v = result[a]
       \/ v = "session" /\ pc[a] = "follow" /\ result[lead[a]] = "session"
    /\ Others(a)

\* Entries are settled by somebody else.
Settles(S, c) ==
    /\ S \subseteq Pending /\ c \in Answers \cup {None}
    /\ Pending' = Pending \ S
    /\ result' = [b \in Asks |-> IF b \in S THEN c ELSE result[b]]
    /\ done' = done \cup S
    /\ UNCHANGED <<pc, lead, verdict>>

\* What holds of the types and the queue after a step.
Well == ApprovalsTypeOK' /\ Distinct(queue')

\* A call that asks queues an entry or follows an identical one.
LEMMA AskEffect ==
    ASSUME ApprovalsInv, NEW a \in Asks, Ask(a)
    PROVE  Well /\ (Queues(a) \/ Follows(a))
<1> /\ queue \in Seq(Asks) /\ Distinct(queue) /\ a \notin Pending
    /\ pc \in [Asks -> Pcs] /\ lead \in [Asks -> Asks \cup {None}]
  BY DEF ApprovalsInv, ApprovalsTypeOK, Sound, Listed, Ask
<1>1. CASE Identical(a) = {}
  <2>1. queue' = Append(queue, a) /\ Goto(a, "pre") /\ UNCHANGED <<lead, verdict, result, done>>
    BY <1>1 DEF Ask
  <2>2. queue' \in Seq(Asks) /\ Distinct(queue') /\ Pending' = Pending \cup {a}
    BY <2>1, AfterAppend DEF Pending
  <2> QED BY <2>1, <2>2 DEF Ask, Goto, Queues, Others, Well, ApprovalsInv, ApprovalsTypeOK
<1>2. CASE Identical(a) # {}
  <2>1. PICK i \in Identical(a) : lead' = [lead EXCEPT ![a] = queue[i]]
    BY <1>2 DEF Ask
  <2>2. queue[i] \in Pending /\ queue[i] \in Asks /\ Wants[queue[i]] = Wants[a]
    BY ToSetOf DEF Identical, Pending
  <2>3. Goto(a, "coalesce") /\ queue' = queue /\ UNCHANGED <<verdict, result, done>>
    BY <1>2 DEF Ask
  <2> QED BY <2>1, <2>2, <2>3 DEF Ask, Goto, Follows, Others, Pending, Well,
          ApprovalsInv, ApprovalsTypeOK
<1> QED BY <1>1, <1>2

\* What dropping an entry does, wherever it is in the queue.
LEMMA DropEffect ==
    ASSUME ApprovalsInv, NEW a \in Asks, DropEntry(a)
    PROVE  queue' \in Seq(Asks) /\ Distinct(queue') /\ Pending' = Pending \ {a}
  BY AfterRemoveFirst DEF ApprovalsInv, ApprovalsTypeOK, DropEntry, Pending

\* A prompt that an interrupt finds denies its call and settles its entry.
LEMMA DenyEffect ==
    ASSUME ApprovalsInv, NEW a \in Asks, DenyInterrupted(a), pc[a] \in Prompting,
           cards' \subseteq Asks, UNCHANGED <<lead, registered, interrupted>>
    PROVE  Well /\ Decides(a, "deny")
<1>1. queue' \in Seq(Asks) /\ Distinct(queue') /\ Pending' = Pending \ {a}
  BY DropEffect DEF DenyInterrupted
<1>2. /\ result' = [result EXCEPT ![a] = "deny"] /\ done' = done \cup {a}
      /\ verdict' = [verdict EXCEPT ![a] = "deny"] /\ pc' = [pc EXCEPT ![a] = "back"]
  BY DEF DenyInterrupted, Close, Goto
<1>3. Well
  BY <1>1, <1>2 DEF Well, ApprovalsInv, ApprovalsTypeOK
<1>4. Others(a) /\ pc'[a] = "back"
  BY <1>2 DEF Others, ApprovalsInv, ApprovalsTypeOK
<1> QED BY <1>1, <1>2, <1>3, <1>4 DEF Decides, None

\* What a call does that decides without an entry to settle.
LEMMA CloseEffect ==
    ASSUME ApprovalsInv, NEW a \in Asks, NEW v \in Answers \cup {"timeout", "failed"},
           Close(a, v), pc[a] \in Pcs \ {"idle", "back"},
           DropEntry(a) \/ (queue' = queue /\ a \notin Pending),
           UNCHANGED <<lead, result, done, cards, registered, interrupted>>,
           \/ v \in {"deny", "timeout", "failed"}
           \/ v = result[a]
           \/ v = "session" /\ pc[a] = "follow" /\ result[lead[a]] = "session"
    PROVE  Well /\ Decides(a, v)
<1>1. queue' \in Seq(Asks) /\ Distinct(queue') /\ Pending' = Pending \ {a}
  BY DropEffect DEF ApprovalsInv, ApprovalsTypeOK, Pending
<1>2. verdict' = [verdict EXCEPT ![a] = v] /\ pc' = [pc EXCEPT ![a] = "back"]
  BY DEF Close, Goto
<1>3. Well
  BY <1>1, <1>2 DEF Well, ApprovalsInv, ApprovalsTypeOK
<1>4. Others(a) /\ pc'[a] = "back"
  BY <1>2 DEF Others, ApprovalsInv, ApprovalsTypeOK
<1> QED BY <1>1, <1>2, <1>3, <1>4 DEF Decides, None

\* A call between two awaits changes nothing but its place.
LEMMA WalkEffect ==
    ASSUME ApprovalsInv, NEW a \in Asks, NEW p \in Pcs, Goto(a, p),
           \/ pc[a] \in Prompting /\ p \in Prompting
           \/ pc[a] = "coalesce" /\ p = "follow",
           cards' \subseteq Asks,
           UNCHANGED <<lead, queue, result, done, verdict, registered, interrupted>>
    PROVE  Well /\ GoesOn(a)
  BY DEF Goto, Well, GoesOn, Others, Pending, ApprovalsInv, ApprovalsTypeOK

\* Every step of a call under way queues it again, moves it on or decides it.
LEMMA GateEffect ==
    ASSUME ApprovalsInv, NEW a \in Asks, Gate(a)
    PROVE  Well /\ (Queues(a) \/ GoesOn(a)
                    \/ \E v \in Answers \cup {"timeout", "failed"} : Decides(a, v))
<1> DEFINE Goal == Well /\ (Queues(a) \/ GoesOn(a)
                            \/ \E v \in Answers \cup {"timeout", "failed"} : Decides(a, v))
<1> SUFFICES Goal
  BY Zenon
<1> Sound(a) /\ ApprovalsTypeOK /\ result[a] \in Answers \cup {None}
  BY DEF ApprovalsInv, ApprovalsTypeOK
<1>1. CASE Notify(a)
  <2>1. CASE registered
    <3>1. Well /\ GoesOn(a)
      BY <1>1, <2>1, WalkEffect DEF Notify, ApprovalsTypeOK
    <3> QED BY <3>1
  <2>2. CASE ~registered
    <3>1. Well /\ Decides(a, "failed")
      BY <1>1, <2>2, CloseEffect DEF Notify
    <3> QED BY <3>1
  <2> QED BY <2>1, <2>2
<1>2. CASE Prompted(a)
  <2>1. pc[a] \in Prompting /\ cards' \subseteq Asks
    BY <1>2 DEF Prompted, ApprovalsTypeOK
  <2>2. CASE DenyInterrupted(a)
    <3>1. Well /\ Decides(a, "deny")
      BY <1>2, <2>1, <2>2, DenyEffect DEF Prompted
    <3> QED BY <3>1
  <2>3. CASE Goto(a, "wait") /\ UNCHANGED <<queue, result, done, verdict>>
    <3>1. Well /\ GoesOn(a)
      BY <1>2, <2>1, <2>3, WalkEffect DEF Prompted
    <3> QED BY <3>1
  <2> QED BY <1>2, <2>2, <2>3 DEF Prompted
<1>3. CASE WaitEnds(a)
  <2>0. /\ pc[a] = "wait" /\ cards' \subseteq Asks
        /\ UNCHANGED <<lead, cards, registered, interrupted>>
    BY <1>3 DEF WaitEnds, ApprovalsTypeOK
  <2>1. CASE DropEntry(a) /\ Close(a, Unanswered(result[a])) /\ UNCHANGED <<result, done>>
    <3> DEFINE v == Unanswered(result[a])
    <3>1. v \in Answers \cup {"timeout", "failed"} /\ (v = "timeout" \/ v = result[a])
      BY DEF Unanswered
    <3> HIDE DEF v
    <3>2. Well /\ Decides(a, v)
      <4>1. Close(a, v)
        BY <2>1 DEF v
      <4> QED BY <2>0, <2>1, <3>1, <4>1, CloseEffect
    <3> QED BY <3>1, <3>2
  <2>2. CASE DenyInterrupted(a)
    <3>1. Well /\ Decides(a, "deny")
      BY <2>0, <2>2, DenyEffect
    <3> QED BY <3>1
  <2>3. CASE DropEntry(a) /\ Close(a, "timeout") /\ UNCHANGED <<result, done>>
    <3>1. Well /\ Decides(a, "timeout")
      BY <2>0, <2>3, CloseEffect
    <3> QED BY <3>1
  <2> QED BY <1>3, <2>1, <2>2, <2>3 DEF WaitEnds
<1>4. CASE FollowLooks(a)
  <2>0. /\ pc[a] = "coalesce" /\ a \notin Pending /\ cards' \subseteq Asks
        /\ UNCHANGED <<lead, queue, result, done, cards, registered, interrupted>>
    BY <1>4 DEF FollowLooks, Sound, Listed, ApprovalsTypeOK
  <2>1. CASE Close(a, "deny")
    <3>1. Well /\ Decides(a, "deny")
      BY <2>0, <2>1, CloseEffect
    <3> QED BY <3>1
  <2>2. CASE Goto(a, "follow") /\ UNCHANGED verdict
    <3>1. Well /\ GoesOn(a)
      BY <2>0, <2>2, WalkEffect
    <3> QED BY <3>1
  <2> QED BY <1>4, <2>1, <2>2 DEF FollowLooks
<1>5. CASE Adopt(a)
  <2>0. /\ pc[a] = "follow" /\ a \notin Pending /\ lead[a] \in Asks
        /\ result[lead[a]] \in Answers \cup {None}
        /\ UNCHANGED <<result, done, cards, registered, interrupted>>
    BY <1>5 DEF Adopt, Sound, Listed, Led, ApprovalsTypeOK
  <2>1. CASE result[lead[a]] = "once"
    <3>1. /\ queue' = Append(queue, a) /\ pc' = [pc EXCEPT ![a] = "pre"]
          /\ lead' = [lead EXCEPT ![a] = None] /\ UNCHANGED verdict
      BY <1>5, <2>1 DEF Adopt, Goto
    <3>2. queue' \in Seq(Asks) /\ Distinct(queue') /\ Pending' = Pending \cup {a}
      BY <2>0, <3>1, AfterAppend DEF Pending, ApprovalsInv, ApprovalsTypeOK
    <3>3. Well
      BY <2>0, <3>1, <3>2 DEF Well, ApprovalsTypeOK
    <3>4. Queues(a)
      BY <2>0, <3>1, <3>2 DEF Queues, Others, ApprovalsTypeOK
    <3> QED BY <3>3, <3>4
  <2>2. CASE result[lead[a]] # "once"
    <3> DEFINE v == Unanswered(result[lead[a]])
    <3>1. Close(a, v) /\ queue' = queue /\ lead' = lead
      BY <1>5, <2>2 DEF Adopt
    <3>2. /\ v \in Answers \cup {"timeout", "failed"}
          /\ v \in {"deny", "timeout"} \/ (v = "session" /\ result[lead[a]] = "session")
      BY <2>0, <2>2 DEF Unanswered
    <3> HIDE DEF v
    <3>3. Well /\ Decides(a, v)
      BY <2>0, <3>1, <3>2, CloseEffect
    <3> QED BY <3>2, <3>3
  <2> QED BY <2>1, <2>2
<1>6. CASE FollowEnds(a)
  <2>0. /\ pc[a] = "follow" /\ a \notin Pending
        /\ UNCHANGED <<lead, queue, result, done, cards, registered, interrupted>>
    BY <1>6 DEF FollowEnds, Sound, Listed
  <2> DEFINE v == IF interrupted THEN "deny" ELSE "timeout"
  <2>1. Close(a, v) /\ v \in {"deny", "timeout"}
    BY <1>6 DEF FollowEnds
  <2> HIDE DEF v
  <2>2. Well /\ Decides(a, v)
    BY <2>0, <2>1, CloseEffect
  <2> QED BY <2>1, <2>2
<1> QED
  <2> HIDE DEF Goal
  <2> QED BY <1>1, <1>2, <1>3, <1>4, <1>5, <1>6, Zenon DEF Gate

\* The queue settles what an answer takes out of it.
LEMMA ResolveEffect ==
    ASSUME ApprovalsInv, NEW rest \in Seq(Asks), NEW c \in Answers, Resolve(rest, c),
           Distinct(rest), ToSet(rest) \subseteq Pending,
           cards' \subseteq Asks, registered' \in BOOLEAN, interrupted' \in BOOLEAN,
           UNCHANGED <<pc, lead, verdict>>
    PROVE  Well /\ \E S \in SUBSET Asks : Settles(S, c)
<1> DEFINE S == Pending \ ToSet(rest)
<1>1. S \in SUBSET Asks
  BY ToSetOf DEF ApprovalsInv, ApprovalsTypeOK, Pending
<1>2. /\ queue' = rest /\ done' = done \cup S
      /\ result' = [b \in Asks |-> IF b \in S THEN c ELSE result[b]]
  BY DEF Resolve
<1>3. Pending' = Pending \ S
  BY <1>2 DEF Pending
<1> HIDE DEF S
<1>4. Well
  BY <1>1, <1>2 DEF Well, ApprovalsInv, ApprovalsTypeOK
<1>5. S \subseteq Pending
  BY DEF S
<1>6. Settles(S, c)
  BY <1>2, <1>3, <1>5 DEF Settles
<1> QED BY <1>1, <1>4, <1>6

\* Commands, taps, the API and the end of a session settle pending entries.
LEMMA AnswersEffect ==
    ASSUME ApprovalsInv,
           \/ \E c \in Answers, all \in BOOLEAN : Command(c, all)
           \/ \E a \in Asks, c \in Answers : Tap(a, c) \/ ApiResolve(a, c)
           \/ Unregister \/ ClearSession
    PROVE  Well /\ \E S \in SUBSET Asks, c \in Answers \cup {None} : Settles(S, c)
<1> queue \in Seq(Asks) /\ Distinct(queue) /\ ApprovalsTypeOK
  BY DEF ApprovalsInv, ApprovalsTypeOK
<1>1. <<>> \in Seq(Asks) /\ Distinct(<<>>) /\ ToSet(<<>>) = {}
  BY DEF Distinct, ToSet
<1>2. AfterOldest \in Seq(Asks) /\ Distinct(AfterOldest) /\ ToSet(AfterOldest) \subseteq Pending
  <2>1. CASE queue = <<>>
    BY <1>1, <2>1 DEF AfterOldest
  <2>2. CASE queue # <<>>
    BY <2>2, AfterTail DEF AfterOldest, Pending
  <2> QED BY <2>1, <2>2
<1>3. ASSUME NEW c \in Answers, NEW all \in BOOLEAN, Command(c, all)
      PROVE  Well /\ \E S \in SUBSET Asks : Settles(S, c)
  <2>1. PICK rest \in {<<>>, AfterOldest} : Resolve(rest, c)
    BY <1>3 DEF Command
  <2>2. /\ UNCHANGED <<pc, lead, verdict>> /\ cards' \subseteq Asks
        /\ registered' \in BOOLEAN /\ interrupted' \in BOOLEAN
    BY <1>3 DEF Command, ApprovalsTypeOK
  <2>3. rest \in Seq(Asks) /\ Distinct(rest) /\ ToSet(rest) \subseteq Pending
    BY <1>1, <1>2
  <2> QED BY <2>1, <2>2, <2>3, ResolveEffect
<1>4. ASSUME NEW a \in Asks, NEW c \in Answers, Tap(a, c)
      PROVE  Well /\ \E S \in SUBSET Asks : Settles(S, c)
  <2>1. /\ Resolve(AfterOldest, c) /\ UNCHANGED <<pc, lead, verdict>> /\ cards' \subseteq Asks
        /\ registered' \in BOOLEAN /\ interrupted' \in BOOLEAN
    BY <1>4 DEF Tap, ApprovalsTypeOK
  <2> QED BY <1>2, <2>1, ResolveEffect
<1>5. ASSUME NEW a \in Asks, NEW c \in Answers, ApiResolve(a, c)
      PROVE  Well /\ \E S \in SUBSET Asks : Settles(S, c)
  <2> DEFINE rest == RemoveFirst(queue, a)
  <2>1. /\ Resolve(rest, c) /\ UNCHANGED <<pc, lead, verdict>> /\ cards' \subseteq Asks
        /\ registered' \in BOOLEAN /\ interrupted' \in BOOLEAN
    BY <1>5 DEF ApiResolve, ApprovalsTypeOK
  <2>2. rest \in Seq(Asks) /\ Distinct(rest) /\ ToSet(rest) \subseteq Pending
    BY AfterRemoveFirst DEF Pending
  <2> HIDE DEF rest
  <2> QED BY <2>1, <2>2, ResolveEffect
<1>6. ASSUME ClearSession
      PROVE  Well /\ \E S \in SUBSET Asks : Settles(S, "deny")
  <2>1. /\ Resolve(<<>>, "deny") /\ UNCHANGED <<pc, lead, verdict>> /\ cards' \subseteq Asks
        /\ registered' \in BOOLEAN /\ interrupted' \in BOOLEAN
    BY <1>6 DEF ClearSession, ApprovalsTypeOK
  <2> QED BY <1>1, <2>1, ResolveEffect
<1>7. ASSUME Unregister
      PROVE  Well /\ \E S \in SUBSET Asks : Settles(S, None)
  <2>1. /\ queue' = <<>> /\ done' = done \cup Pending /\ registered' \in BOOLEAN
        /\ UNCHANGED <<pc, lead, result, verdict, cards, interrupted>>
    BY <1>7 DEF Unregister
  <2>2. Pending \in SUBSET Asks /\ Pending' = {}
    BY <1>1, <2>1, ToSetOf DEF Pending
  <2>3. \A b \in Asks : b \in Pending => result[b] = None
    BY DEF ApprovalsInv, Sound, Listed, Given
  <2>4. result' = [b \in Asks |-> IF b \in Pending THEN None ELSE result[b]]
    BY <2>1, <2>3 DEF ApprovalsTypeOK
  <2>5. Settles(Pending, None)
    BY <2>1, <2>2, <2>4 DEF Settles
  <2>6. Well
    BY <1>1, <2>1, <2>2 DEF Well, ApprovalsTypeOK
  <2> QED BY <2>2, <2>5, <2>6
<1> QED BY <1>3, <1>4, <1>5, <1>6, <1>7

\* Every step, as far as the invariant and the refinement are concerned.
LEMMA ApprovalsEffect ==
    ASSUME ApprovalsInv, [ApprovalsNext]_approvalsVars
    PROVE  /\ Well
           /\ \/ \E a \in Asks : Queues(a) \/ Follows(a) \/ GoesOn(a)
              \/ \E a \in Asks, v \in Answers \cup {"timeout", "failed"} : Decides(a, v)
              \/ \E S \in SUBSET Asks, c \in Answers \cup {None} : Settles(S, c)
              \/ UNCHANGED <<pc, lead, queue, result, done, verdict>>
<1>1. CASE \E a \in Asks : Ask(a)
  BY <1>1, AskEffect
<1>2. CASE \E a \in Asks : Gate(a)
  BY <1>2, GateEffect
<1>3. CASE \/ \E c \in Answers, all \in BOOLEAN : Command(c, all)
           \/ \E a \in Asks, c \in Answers : Tap(a, c) \/ ApiResolve(a, c)
           \/ Unregister \/ ClearSession
  BY <1>3, AnswersEffect
<1>4. CASE Register \/ Interrupt \/ UNCHANGED approvalsVars
  BY <1>4 DEF Register, Interrupt, approvalsVars, Well, ApprovalsInv, ApprovalsTypeOK
<1> QED BY <1>1, <1>2, <1>3, <1>4, Zenon DEF ApprovalsNext

\* Every step keeps the invariant.
LEMMA ApprovalsStep == ApprovalsInv /\ [ApprovalsNext]_approvalsVars => ApprovalsInv'
<1> SUFFICES ASSUME ApprovalsInv, [ApprovalsNext]_approvalsVars PROVE ApprovalsInv'
  OBVIOUS
<1> ApprovalsTypeOK /\ ApprovalsTypeOK' /\ Distinct(queue')
  BY ApprovalsEffect DEF Well, ApprovalsInv
<1> Pending \subseteq Asks
  BY ToSetOf DEF ApprovalsTypeOK, Pending
<1> SUFFICES ASSUME NEW x \in Asks PROVE Sound(x)'
  BY DEF ApprovalsInv, Distinct
<1>1. \A b \in Asks : Sound(b)
  BY DEF ApprovalsInv
<1> USE DEF Sound, Listed, Settled, Decided, Given, Led
<1>2. ASSUME NEW a \in Asks, Queues(a)
      PROVE  Sound(x)'
  BY <1>1, <1>2 DEF Queues, Others
<1>3. ASSUME NEW a \in Asks, Follows(a)
      PROVE  Sound(x)'
  BY <1>1, <1>3 DEF Follows, Others
<1>4. ASSUME NEW a \in Asks, GoesOn(a)
      PROVE  Sound(x)'
  BY <1>1, <1>4 DEF GoesOn, Others
<1>5. ASSUME NEW a \in Asks, NEW v \in Answers \cup {"timeout", "failed"}, Decides(a, v)
      PROVE  Sound(x)'
  <2>1. /\ pc'[a] = "back" /\ verdict'[a] = v /\ v # None /\ a \notin Pending'
        /\ \A b \in Asks : a # b => pc'[b] = pc[b] /\ (b \in Pending' <=> b \in Pending)
    BY <1>5 DEF Decides, Others, ApprovalsTypeOK
  <2>2. \A b \in Asks : a # b => /\ verdict'[b] = verdict[b] /\ result'[b] = result[b]
                                 /\ (b \in done' <=> b \in done)
    BY <1>5 DEF Decides, Others
  <2>3. pc[a] \notin {"idle", "back"} /\ lead' = lead
    BY <1>5 DEF Decides
  <2>6. \/ pc[a] \in Prompting /\ a \in done'
        \/ result' = result /\ done' = done
    BY <1>5 DEF Decides
  <2>4. CASE x = a
    BY <1>1, <2>1, <2>3, <2>4, <2>6
  <2>5. CASE x # a
    <3>1. Listed(x)' /\ Settled(x)' /\ Decided(x)' /\ Given(x)'
      BY <1>1, <2>1, <2>2, <2>5
    <3>2. Led(x)'
      BY <1>1, <2>1, <2>2, <2>3, <2>5
    <3> QED BY <3>1, <3>2
  <2> QED BY <2>4, <2>5
<1>6. ASSUME NEW S \in SUBSET Asks, NEW c \in Answers \cup {None}, Settles(S, c)
      PROVE  Sound(x)'
  BY <1>1, <1>6 DEF Settles
<1>7. ASSUME UNCHANGED <<pc, lead, queue, result, done, verdict>>
      PROVE  Sound(x)'
  BY <1>1, <1>7 DEF Pending
<1> HIDE DEF Sound
<1> QED BY <1>2, <1>3, <1>4, <1>5, <1>6, <1>7, ApprovalsEffect, Zenon

\* The inductive invariant of the approvals.
LEMMA ApprovalsSafe == ApprovalsSpec => []ApprovalsInv
  BY ApprovalsStart, ApprovalsStep, PTL DEF ApprovalsSpec

\* The entries of the queue are the calls that wait for an answer, each once: a
\* command can always reach them, and no answer goes to a call that is gone.
THEOREM AnswerableHolds == ApprovalsSpec => []Answerable
<1>1. ApprovalsInv => Answerable
  <2> SUFFICES ASSUME ApprovalsInv PROVE Answerable
    OBVIOUS
  <2>1. Pending = {a \in Asks : pc[a] \in {"pre", "notify", "wait"} /\ a \notin done}
    BY ToSetOf DEF ApprovalsInv, ApprovalsTypeOK, Sound, Listed, Pending
  <2> QED BY <2>1 DEF ApprovalsInv, Answerable, Distinct
<1> QED BY <1>1, ApprovalsSafe, PTL

----------------------------------------------------------------------------
(* The refinement *)

Wanted(a) == IF pc[a] = "idle" THEN None ELSE Wants[a]

\* A gate that nobody has asked is a consent that nobody has given.
LEMMA ConsentInit == ApprovalsInit => Consents!Init
  BY DEF ApprovalsInit, Consents!Init, None

\* Nothing that the consent speaks of changes.
Quiet == /\ \A a \in Asks : Wanted(a)' = Wanted(a)
         /\ UNCHANGED <<result, verdict>>

\* Every step of the gate is a step of the consent or leaves it as it is.
LEMMA ConsentStep ==
    ASSUME ApprovalsInv, [ApprovalsNext]_approvalsVars
    PROVE  Consents!Next \/ Quiet
<1> ApprovalsTypeOK /\ (\A b \in Asks : Sound(b)) /\ ApprovalsTypeOK'
  BY ApprovalsEffect DEF ApprovalsInv, Well
<1> Pending \subseteq Asks
  BY ToSetOf DEF ApprovalsTypeOK, Pending
<1> DEFINE cmd == [a \in Asks |-> Wanted(a)]
<1>1. ASSUME NEW a \in Asks, Queues(a) \/ Follows(a), pc[a] = "idle"
      PROVE  Consents!Next
  <2>1. Wants[a] \in Commands /\ Wanted(a) = None
    BY <1>1 DEF Wanted
  <2>2. Wanted(a)' = Wants[a] /\ \A b \in Asks \ {a} : Wanted(b)' = Wanted(b)
    BY <1>1 DEF Queues, Follows, Others, Wanted
  <2>3. cmd' = [cmd EXCEPT ![a] = Wants[a]] /\ UNCHANGED <<result, verdict>>
    <3> HIDE DEF Wanted
    <3> QED BY <2>2, <1>1 DEF Queues, Follows
  <2>4. Consents!Ask(a, Wants[a])
    BY <2>1, <2>3, <1>1 DEF Consents!Ask, Wanted, None
  <2> QED BY <2>1, <2>4 DEF Consents!Next
<1>2. ASSUME NEW a \in Asks, Queues(a) \/ Follows(a), pc[a] # "idle"
      PROVE  Quiet
  BY <1>2 DEF Queues, Follows, Others, Wanted, Quiet
<1>3. ASSUME NEW a \in Asks, GoesOn(a)
      PROVE  Quiet
  BY <1>3 DEF GoesOn, Others, Wanted, Quiet
<1>4. ASSUME NEW a \in Asks, NEW v \in Answers \cup {"timeout", "failed"}, Decides(a, v)
      PROVE  Consents!Next
  <2>1. /\ Wanted(a) # None /\ verdict[a] = None
        /\ \A b \in Asks : Wanted(b)' = Wanted(b)
    BY <1>4 DEF Decides, Others, Wanted, Sound, Decided, Pcs
  <2>2. cmd' = cmd /\ cmd[a] # None
    BY <2>1, Zenon
  <2>3. v \in Consents!Refused \/ Consents!Covered(a, v)
    <3>1. CASE v = "session" /\ pc[a] = "follow" /\ result[lead[a]] = "session"
      <4>1. /\ lead[a] \in Asks /\ Wants[lead[a]] = Wants[a] /\ result[a] = None
            /\ pc[lead[a]] # "idle"
        BY <3>1 DEF Sound, Led, Given, Settled
      <4>2. Wanted(lead[a]) = Wanted(a)
        BY <4>1, <3>1 DEF Wanted
      <4>3. cmd[lead[a]] = cmd[a]
        BY <4>1, <4>2, Zenon
      <4> QED BY <3>1, <4>1, <4>3 DEF Consents!Covered, None
    <3> QED BY <1>4, <3>1 DEF Decides, Consents!Refused, Consents!Covered
  <2>4. Consents!Decide(a, v)
    <3>1. UNCHANGED result \/ (v = "deny" /\ result' = [result EXCEPT ![a] = "deny"])
      BY <1>4 DEF Decides
    <3>2. verdict' = [verdict EXCEPT ![a] = v]
      BY <1>4 DEF Decides
    <3>3. cmd[a] # "none" /\ verdict[a] = "none"
      BY <2>1, <2>2 DEF None
    <3>4. cmd' = cmd /\ cmd[a] # "none"
      BY <2>2, <3>3
    <3> QED BY <2>3, <3>1, <3>2, <3>3, <3>4 DEF Consents!Decide, None, Wanted
  <2>5. v \in Consents!Granted \cup Consents!Refused
    BY DEF Consents!Granted, Consents!Refused
  <2> QED BY <2>4, <2>5 DEF Consents!Next
<1>5. ASSUME NEW S \in SUBSET Asks, NEW c \in Answers \cup {None}, Settles(S, c)
      PROVE  Consents!Next \/ Quiet
  <2>1. /\ \A a \in S : verdict[a] = None /\ result[a] = None
        /\ UNCHANGED <<pc, verdict>>
        /\ result' = [b \in Asks |-> IF b \in S THEN c ELSE result[b]]
    BY <1>5 DEF Settles, Sound, Listed, Decided, Given
  <2>2. \A a \in Asks : Wanted(a)' = Wanted(a)
    BY <2>1 DEF Wanted
  <2>3. CASE c = None
    <3>1. result' = result
      BY <2>1, <2>3 DEF ApprovalsTypeOK
    <3> QED BY <2>1, <2>2, <3>1 DEF Quiet
  <2>4. CASE c # None
    <3>1. cmd' = cmd
      BY <2>2, Zenon
    <3>2. Consents!Answer(S, c) /\ c \in Consents!Granted \cup {"deny"}
      BY <2>1, <2>4, <3>1 DEF Consents!Answer, Consents!Granted, None, Wanted
    <3> QED BY <3>2 DEF Consents!Next
  <2> QED BY <2>3, <2>4
<1>6. ASSUME UNCHANGED <<pc, lead, queue, result, done, verdict>>
      PROVE  Quiet
  BY <1>6 DEF Quiet, Wanted
<1> QED BY <1>1, <1>2, <1>3, <1>4, <1>5, <1>6, ApprovalsEffect, Zenon

\* The gate implements the consent: no call runs that somebody with a say did not
\* let run, by an answer to it or by a session-wide one to the same command.
THEOREM GateImplementsConsent == ApprovalsSpec => ImplementsConsent
<1>1. ApprovalsInv /\ [ApprovalsNext]_approvalsVars
        => Consents!Next \/ UNCHANGED <<[a \in Asks |-> Wanted(a)], result, verdict>>
  BY ConsentStep, Zenon DEF Quiet
<1> QED
  BY <1>1, ApprovalsSafe, ConsentInit, PTL
     DEF ApprovalsSpec, ImplementsConsent, Consents!Spec, Wanted
=============================================================================
