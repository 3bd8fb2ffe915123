-------------------------- MODULE Obligations_proofs --------------------------
(***************************************************************************)
(* Proofs about the obligations ledger of Obligations, for any number of   *)
(* rows, of calls that record and re-record them and of racing, crashing   *)
(* engines, any retry budget and cap, and whether or not a best-effort     *)
(* write may fail.                                                         *)
(*                                                                         *)
(* OneSender is not inductive: that a live owner keeps everybody else away *)
(* has to be known of every row somebody works on, whether its first send  *)
(* is open (FrameOK) or a scheduler has claimed it (ClaimOK), and of a     *)
(* scheduler where it stands in its tick (TickOK).  That no copy goes out  *)
(* unpaid is a count: every first send and every claim that is still to go *)
(* out has its place in the budget of its row (Paid).                      *)
(***************************************************************************)
EXTENDS Obligations, FiniteSetTheorems, TLAPS

-----------------------------------------------------------------------------
(* The inductive invariant *)

\* From the record to the first send.
Early == {"recorded", "pruned"}

\* The first send of its row by c: its engine owns the row until the send is
\* out, and as long as it is on the books.
FrameOK(c) ==
    /\ inline[c] \in Early =>
          /\ owner[Id[c]] = by[c] /\ state[Id[c]] \in {"pending", "abandoned", "gone"}
          /\ ~due[Id[c]] /\ ~begun[Id[c]]
    /\ inline[c] \in Fates /\ begun[Id[c]] =>
          owner[Id[c]] = by[c] /\ state[Id[c]] \in {"attempting", "gone"}

\* The claim k of e: e owns what is still owed, the copy is marked if it must
\* be, and no first send that is on the books is open.
ClaimOK(e, k) ==
    /\ state[k.row] \in Active => owner[k.row] = e
    /\ begun[k.row] => k.marker
    /\ \A c \in Calls : Id[c] = k.row =>
          inline[c] \notin Early /\ ~(inline[c] \in Fates /\ begun[k.row])

\* At most one call and at most one claim work on r.
Sole(r) ==
    /\ \A c \in Calls : Id[c] = r => FrameOK(c)
    /\ \A c, d \in Calls :
          Id[c] = r /\ Id[d] = r /\ inline[c] \in Open /\ inline[d] \in Open => c = d
    /\ \A e \in Engines : \A k \in todo[e] : k.row = r => ClaimOK(e, k)
    /\ \A e, f \in Engines : \A k \in todo[e], l \in todo[f] :
          k.row = r /\ l.row = r => e = f /\ k = l

RowOK(r) ==
    /\ state[r] # "none" => owner[r] \in Engines
    /\ begun[r] => state[r] # "pending"
    /\ ~overtaken[r] => Sole(r)

\* An open frame is run by an engine that lives.
CallOK(c) ==
    /\ inline[c] \in Open <=> by[c] # Nobody
    /\ inline[c] \in Open => Up(by[c])

\* Where a scheduler stands in its tick: only between sweep and last send has it
\* claimed anything, and what it has swept it will not claim again as its own.
TickOK(e) ==
    /\ tick[e] # "idle" => Up(e)
    /\ tick[e] = "idle" => todo[e] = {}
    /\ tick[e] = "sending" => cur[e] \in todo[e]
    /\ tick[e] # "sending" => cur[e] = Nobody
    /\ tick[e] = "swept" => \A k \in todo[e] : k.row \notin ripe[e]

Inv == /\ TypeOK
       /\ \A r \in Rows : RowOK(r)
       /\ \A c \in Calls : CallOK(c)
       /\ \A e \in Engines : TickOK(e)

\* The copies of r that are still to go out: first sends, and claims.
Firsts(r)  == {c \in Calls : Id[c] = r /\ inline[c] \in Early}
Retries(r) == {x \in Engines \X Claims :
                  x[2] \in todo[x[1]] /\ x[2].row = r /\ cur[x[1]] # x[2]}

\* Each of them is paid for.
Paid(r) ==
    /\ IsFiniteSet(Firsts(r))
    /\ IsFiniteSet(Retries(r))
    /\ unpaid[r] + Cardinality(Firsts(r)) + Cardinality(Retries(r)) <= attempts[r]

\* Nothing is recorded, and no engine runs, at the start.
LEMMA InitInv == Init => Inv /\ \A r \in Rows : Paid(r)
<1> USE ObligationsAssumption
<1> SUFFICES ASSUME Init PROVE Inv /\ \A r \in Rows : Paid(r)
  OBVIOUS
<1>1. TypeOK
  BY DEF Init, TypeOK, Fates
<1>2. ASSUME NEW r \in Rows PROVE RowOK(r)
  BY DEF Init, RowOK, Sole, FrameOK, Open, Early, Fates
<1>3. ASSUME NEW e \in Engines PROVE TickOK(e)
  BY DEF Init, TickOK
<1>4. ASSUME NEW c \in Calls PROVE CallOK(c)
  BY DEF Init, CallOK, Open, Fates
<1>5. ASSUME NEW r \in Rows PROVE Paid(r)
  <2>1. Firsts(r) = {} /\ Retries(r) = {}
    BY DEF Init, Firsts, Retries, Early
  <2>2. unpaid[r] = 0 /\ attempts[r] = 0
    BY DEF Init
  <2> QED
    BY <2>1, <2>2, FS_EmptySet DEF Paid
<1> QED
  BY <1>1, <1>2, <1>3, <1>4, <1>5 DEF Inv

-----------------------------------------------------------------------------
(* Counting *)

\* A subset of a finite set is no larger ...
LEMMA NoMore ==
  ASSUME NEW S, IsFiniteSet(S), NEW T \in SUBSET S
  PROVE  /\ IsFiniteSet(T) /\ Cardinality(S) \in Nat /\ Cardinality(T) \in Nat
         /\ Cardinality(T) <= Cardinality(S)
  BY FS_Subset, FS_CardinalityType

\* ... a set with one more element has one more at most ...
LEMMA OneMore ==
  ASSUME NEW S, IsFiniteSet(S), NEW x, NEW T \in SUBSET (S \cup {x})
  PROVE  /\ IsFiniteSet(T) /\ Cardinality(S) \in Nat /\ Cardinality(T) \in Nat
         /\ Cardinality(T) <= Cardinality(S) + 1
<1>1. /\ IsFiniteSet(S \cup {x}) /\ Cardinality(S) \in Nat
      /\ Cardinality(S \cup {x}) \in {Cardinality(S), Cardinality(S) + 1}
  BY FS_AddElement, FS_CardinalityType
<1>2. IsFiniteSet(T) /\ Cardinality(T) \in Nat /\ Cardinality(T) <= Cardinality(S \cup {x})
  BY <1>1, NoMore
<1> QED
  BY <1>1, <1>2

\* ... and a set that has lost one has one less at least.
LEMMA OneLess ==
  ASSUME NEW S, IsFiniteSet(S), NEW x \in S, NEW T \in SUBSET (S \ {x})
  PROVE  /\ IsFiniteSet(T) /\ Cardinality(S) \in Nat /\ Cardinality(T) \in Nat
         /\ Cardinality(T) + 1 <= Cardinality(S)
<1>1. /\ IsFiniteSet(S \ {x}) /\ Cardinality(S) \in Nat
      /\ Cardinality(S \ {x}) = Cardinality(S) - 1
  BY FS_RemoveElement, FS_CardinalityType
<1>2. IsFiniteSet(T) /\ Cardinality(T) \in Nat /\ Cardinality(T) <= Cardinality(S \ {x})
  BY <1>1, NoMore
<1> QED
  BY <1>1, <1>2

-----------------------------------------------------------------------------
(* The two claiming transactions *)

\* What claimTxn sees, and what it may claim.
Eligible(e, seen, ready) ==
    /\ seen \subseteq Rows
    /\ \A r \in seen : DeadOwned(r) \/ OwnRetry(r, e)
    /\ \A r \in ready : DeadOwned(r) \/ (due[r] /\ \A k \in todo[e] : k.row # r)

\* A claim leaves a row alone, gives it up, or takes it over and charges it.
LEMMA ClaimMoves ==
  ASSUME Inv, NEW e \in Engines, NEW pass \in {"sweep", "retry"},
         NEW seen, NEW aged, NEW ready,
         Eligible(e, seen, ready), Claim(e, pass, seen, aged, ready), NEW r \in Rows
  PROVE  LET k == [row |-> r, pass |-> pass, marker |-> state[r] # "pending"] IN
         \/ /\ owner'[r] = owner[r] /\ attempts'[r] = attempts[r] /\ due'[r] = due[r]
            /\ \/ state'[r] = state[r]
               \/ state'[r] = "abandoned" /\ (DeadOwned(r) \/ OwnRetry(r, e))
            /\ \A f \in Engines : \A l \in Claims :
                  l.row = r => (l \in todo'[f] <=> l \in todo[f])
         \/ /\ state'[r] = state[r] /\ owner'[r] = e
            /\ attempts'[r] = attempts[r] + 1 /\ attempts[r] < MaxAttempts /\ ~due'[r]
            /\ DeadOwned(r) \/ (OwnRetry(r, e) /\ due[r] /\ \A l \in todo[e] : l.row # r)
            /\ \A f \in Engines : \A l \in Claims :
                  l.row = r => (l \in todo'[f] <=> l \in todo[f] \/ (f = e /\ l = k))
<1> DEFINE given == {q \in seen : Spent(q, aged)}
           claimed == {q \in seen \ given : q \in ready}
           k == [row |-> r, pass |-> pass, marker |-> state[r] # "pending"]
<1>0. attempts[r] \in 0..MaxAttempts /\ due[r] \in BOOLEAN /\ todo \in [Engines -> SUBSET Claims]
  BY DEF Inv, TypeOK
<1>1. /\ state'[r] = IF r \in given THEN "abandoned" ELSE state[r]
      /\ owner'[r] = IF r \in claimed THEN e ELSE owner[r]
      /\ attempts'[r] = IF r \in claimed THEN attempts[r] + 1 ELSE attempts[r]
      /\ due'[r] = (due[r] /\ r \notin claimed)
  BY DEF Claim
<1>2. ASSUME NEW f \in Engines, NEW l \in Claims, l.row = r
      PROVE  l \in todo'[f] <=> l \in todo[f] \/ (f = e /\ r \in claimed /\ l = k)
  <2>1. todo'[f] = IF f = e
                   THEN todo[f] \cup {[row |-> q, pass |-> pass, marker |-> state[q] # "pending"] :
                                         q \in claimed}
                   ELSE todo[f]
    BY <1>0 DEF Claim
  <2> HIDE DEF claimed
  <2> QED
    BY <2>1, <1>2
<1>3. r \in seen => DeadOwned(r) \/ OwnRetry(r, e)
  BY DEF Eligible
<1>4. CASE r \in claimed
  <2>1. attempts[r] < MaxAttempts
    BY <1>0, <1>4, ObligationsAssumption DEF Spent
  <2>2. DeadOwned(r) \/ (OwnRetry(r, e) /\ due[r] /\ \A l \in todo[e] : l.row # r)
    BY <1>4 DEF Eligible
  <2>3. r \notin given
    BY <1>4
  <2> HIDE DEF given, claimed
  <2> QED
    BY <1>0, <1>1, <1>2, <1>4, <2>1, <2>2, <2>3
<1>5. CASE r \notin claimed
  <2>1. r \in given => r \in seen
    OBVIOUS
  <2> HIDE DEF given, claimed
  <2>2. due'[r] = due[r]
    BY <1>0, <1>1, <1>5
  <2> QED
    BY <1>1, <1>2, <1>3, <1>5, <2>1, <2>2
<1> QED
  BY <1>4, <1>5

\* A claim keeps what is known of a row: nobody works on a row that is taken
\* over, unless a record has overtaken him.
LEMMA ClaimKeeps ==
  ASSUME Inv, NEW e \in Engines, NEW pass \in {"sweep", "retry"},
         NEW seen, NEW aged, NEW ready, Up(e),
         Eligible(e, seen, ready), Claim(e, pass, seen, aged, ready),
         todo' \in [Engines -> SUBSET Claims],
         UNCHANGED <<run, frame, history>>, NEW r \in Rows
  PROVE  RowOK(r)'
<1> USE DEF frame, history
<1> DEFINE k == [row |-> r, pass |-> pass, marker |-> state[r] # "pending"]
<1>0. /\ RowOK(r) /\ todo \in [Engines -> SUBSET Claims] /\ due[r] \in BOOLEAN
      /\ state[r] \in Active \cup Terminal \cup {"none", "gone"}
      /\ UNCHANGED <<inline, by, begun, overtaken>>
  BY DEF Inv, TypeOK
<1>1. CASE /\ owner'[r] = owner[r] /\ due'[r] = due[r]
           /\ \/ state'[r] = state[r]
              \/ state'[r] = "abandoned" /\ (DeadOwned(r) \/ OwnRetry(r, e))
           /\ \A f \in Engines : \A l \in Claims :
                 l.row = r => (l \in todo'[f] <=> l \in todo[f])
  <2>1. state[r] # "none" \/ state'[r] = state[r]
    BY <1>1 DEF DeadOwned, OwnRetry, Active
  <2>2. ASSUME ~overtaken[r] PROVE Sole(r)'
    <3>1. Sole(r)
      BY <1>0, <2>2 DEF RowOK
    <3>2. ASSUME NEW c \in Calls, Id[c] = r PROVE FrameOK(c)'
      <4>1. FrameOK(c) /\ CallOK(c) /\ (inline[c] \in Early \cup Fates => inline[c] \in Open)
        BY <3>1, <3>2 DEF Sole, Inv, Early, Open
      <4>2. CASE state'[r] = state[r]
        BY <1>0, <1>1, <3>2, <4>1, <4>2 DEF FrameOK
      <4>3. CASE state'[r] = "abandoned" /\ (DeadOwned(r) \/ OwnRetry(r, e))
        <5>1. ~(inline[c] \in Fates /\ begun[r])
          BY <3>2, <4>1, <4>3 DEF FrameOK, CallOK, DeadOwned, OwnRetry, Active
        <5> QED
          BY <1>0, <1>1, <3>2, <4>1, <4>3, <5>1 DEF FrameOK
      <4> QED
        BY <1>1, <4>2, <4>3
    <3>3. ASSUME NEW f \in Engines, NEW l \in todo'[f], l.row = r PROVE l \in todo[f] /\ ClaimOK(f, l)'
      <4>1. l \in todo[f] /\ ClaimOK(f, l)
        BY <1>1, <3>1, <3>3 DEF Sole
      <4>2. state'[r] \in Active => state[r] \in Active
        BY <1>1 DEF Active
      <4> QED
        BY <1>0, <1>1, <3>3, <4>1, <4>2 DEF ClaimOK
    <3> QED
      BY <1>0, <3>1, <3>2, <3>3 DEF Sole
  <2>3. /\ state'[r] # "none" => owner'[r] \in Engines
        /\ begun'[r] => state'[r] # "pending"
    BY <1>0, <1>1, <2>1 DEF RowOK
  <2> QED
    BY <1>0, <2>2, <2>3 DEF RowOK
<1>2. CASE /\ state'[r] = state[r] /\ owner'[r] = e /\ ~due'[r]
           /\ DeadOwned(r) \/ (OwnRetry(r, e) /\ due[r] /\ \A l \in todo[e] : l.row # r)
           /\ \A f \in Engines : \A l \in Claims :
                 l.row = r => (l \in todo'[f] <=> l \in todo[f] \/ (f = e /\ l = k))
  <2>1. state[r] \in Active
    BY <1>2 DEF DeadOwned, OwnRetry, Active
  <2>2. ASSUME ~overtaken[r] PROVE Sole(r)'
    <3>1. Sole(r)
      BY <1>0, <2>2 DEF RowOK
    <3>2. ASSUME NEW c \in Calls, Id[c] = r
          PROVE  inline[c] \notin Early /\ ~(inline[c] \in Fates /\ begun[r])
      <4>1. FrameOK(c) /\ CallOK(c) /\ (inline[c] \in Early \cup Fates => inline[c] \in Open)
        BY <3>1, <3>2 DEF Sole, Inv, Early, Open
      <4> QED
        BY <1>2, <3>2, <4>1 DEF FrameOK, CallOK, DeadOwned, OwnRetry, Active
    <3>3. ASSUME NEW f \in Engines, NEW l \in todo[f] PROVE l.row # r
      <4>1. l.row = r => ClaimOK(f, l) /\ Up(f)
        BY <3>1, <3>3 DEF Sole, Inv, TickOK
      <4> QED
        BY <1>2, <2>1, <3>3, <4>1 DEF ClaimOK, DeadOwned, OwnRetry
    <3>4. ASSUME NEW f \in Engines, NEW l \in todo'[f], l.row = r PROVE f = e /\ l = k
      BY <1>2, <3>3, <3>4
    <3>5. begun[r] => k.marker
      BY <1>0 DEF RowOK
    <3>6. ASSUME NEW f \in Engines, NEW l \in todo'[f], l.row = r PROVE ClaimOK(f, l)'
      <4>1. f = e /\ l.marker = k.marker
        BY <3>4, <3>6
      <4> HIDE DEF k
      <4> QED
        BY <1>0, <1>2, <3>2, <3>5, <3>6, <4>1 DEF ClaimOK
    <3>7. ASSUME NEW c \in Calls, Id[c] = r PROVE FrameOK(c)'
      BY <1>0, <3>2, <3>7 DEF FrameOK
    <3> HIDE DEF k
    <3> QED
      BY <1>0, <3>1, <3>4, <3>6, <3>7 DEF Sole
  <2> QED
    BY <1>0, <1>2, <2>1, <2>2 DEF RowOK
<1> QED
  BY <1>1, <1>2, ClaimMoves

\* A claim keeps every copy paid for: it charges what it claims.
LEMMA ClaimPays ==
  ASSUME Inv, NEW e \in Engines, NEW pass \in {"sweep", "retry"},
         NEW seen, NEW aged, NEW ready,
         Eligible(e, seen, ready), Claim(e, pass, seen, aged, ready),
         todo' \in [Engines -> SUBSET Claims],
         UNCHANGED <<frame, cur, history>>, NEW r \in Rows, Paid(r)
  PROVE  Paid(r)'
<1> DEFINE k == [row |-> r, pass |-> pass, marker |-> state[r] # "pending"]
<1>1. /\ unpaid'[r] = unpaid[r] /\ unpaid[r] \in Int /\ attempts[r] \in Int
      /\ Firsts(r)' = Firsts(r) /\ cur' = cur
      /\ todo \in [Engines -> SUBSET Claims]
  BY ObligationsAssumption DEF Firsts, frame, history, Inv, TypeOK
<1>2. CASE /\ attempts'[r] = attempts[r]
           /\ \A f \in Engines : \A l \in Claims :
                 l.row = r => (l \in todo'[f] <=> l \in todo[f])
  <2>1. Retries(r)' = Retries(r)
    BY <1>1, <1>2 DEF Retries
  <2> QED
    BY <1>1, <1>2, <2>1 DEF Paid
<1>3. CASE /\ attempts'[r] = attempts[r] + 1
           /\ \A f \in Engines : \A l \in Claims :
                 l.row = r => (l \in todo'[f] <=> l \in todo[f] \/ (f = e /\ l = k))
  <2> HIDE DEF k
  <2>1. Retries(r)' \in SUBSET (Retries(r) \cup {<<e, k>>})
    BY <1>1, <1>3 DEF Retries
  <2>2. /\ IsFiniteSet(Retries(r)') /\ IsFiniteSet(Firsts(r)) /\ Cardinality(Firsts(r)) \in Nat
        /\ Cardinality(Retries(r)) \in Nat /\ Cardinality(Retries(r)') \in Nat
        /\ Cardinality(Retries(r)') <= Cardinality(Retries(r)) + 1
    BY <2>1, OneMore, NoMore DEF Paid
  <2> QED
    BY <1>1, <1>3, <2>2 DEF Paid
<1> QED
  BY <1>2, <1>3, ClaimMoves
-----------------------------------------------------------------------------
(* Types *)

\* casTransition moves a row to the new state, which its old one allows, or
\* does nothing.
LEMMA CasMoves ==
  ASSUME TypeOK, NEW r \in Rows, NEW to \in {"attempting", "delivered", "failed"},
         CasTransition(r, to)
  PROVE  /\ \A q \in Rows \ {r} : state'[q] = state[q] /\ due'[q] = due[q]
         /\ \/ state'[r] = state[r] /\ due'[r] = due[r]
            \/ /\ state'[r] = to /\ ~due'[r]
               /\ state[r] \in IF to = "delivered" THEN Active ELSE Active \ {to}
               /\ to = "attempting" => state[r] \in {"pending", "failed"}
         /\ state' \in [Rows -> Active \cup Terminal \cup {"none", "gone"}]
         /\ due' \in [Rows -> BOOLEAN]
<1>1. CASE UNCHANGED <<state, due>>
  BY <1>1 DEF TypeOK
<1>2. CASE /\ state[r] \in Sources[to]
           /\ state' = [state EXCEPT ![r] = to]
           /\ due' = [due EXCEPT ![r] = FALSE]
  <2>1. /\ state[r] \in IF to = "delivered" THEN Active ELSE Active \ {to}
        /\ to = "attempting" => state[r] \in {"pending", "failed"}
    BY <1>2 DEF Sources, Active
  <2> QED
    BY <1>2, <2>1 DEF TypeOK, Active, Terminal
<1> QED
  BY <1>1, <1>2 DEF CasTransition

\* What the two passes of a tick hand to claimTxn.
LEMMA PassesClaim ==
  ASSUME Inv, NEW e \in Engines
  PROVE  /\ SweepRecoverable(e) =>
              \E seen, aged, ready :
                 Eligible(e, seen, ready) /\ Claim(e, "sweep", seen, aged, ready)
         /\ ClaimDueRetries(e) =>
              \E seen, aged, ready :
                 Eligible(e, seen, ready) /\ Claim(e, "retry", seen, aged, ready)
<1>1. ASSUME SweepRecoverable(e)
      PROVE  \E seen, aged, ready :
                 Eligible(e, seen, ready) /\ Claim(e, "sweep", seen, aged, ready)
  <2> DEFINE dead == {r \in Rows : DeadOwned(r)}
             aged == {r \in Rows : stale[r]}
  <2>1. PICK D \in SUBSET Stored : Claim(e, "sweep", dead, aged, dead \cap D)
    BY <1>1 DEF SweepRecoverable
  <2>2. Eligible(e, dead, dead \cap D)
    BY DEF Eligible
  <2> QED
    BY <2>1, <2>2
<1>2. ASSUME ClaimDueRetries(e)
      PROVE  \E seen, aged, ready :
                 Eligible(e, seen, ready) /\ Claim(e, "retry", seen, aged, ready)
  <2> DEFINE dead == {r \in Rows : DeadOwned(r)}
             own == {r \in Rows : OwnRetry(r, e)}
             aged == {r \in old[e] : stale[r]}
             ready == (dead \cup {r \in own \cap ripe[e] : due[r]}) \cap sendable[e]
  <2>1. Claim(e, "retry", dead \cup own, aged, ready)
    BY <1>2 DEF ClaimDueRetries
  <2>2. tick[e] = "swept" /\ TickOK(e)
    BY <1>2 DEF ClaimDueRetries, Inv
  <2>3. Eligible(e, dead \cup own, ready)
    BY <2>2 DEF Eligible, TickOK
  <2> QED
    BY <2>1, <2>3
<1> QED
  BY <1>1, <1>2

\* Every step keeps the types.
LEMMA TypeStep == Inv /\ [Next]_vars => TypeOK'
<1> SUFFICES ASSUME Inv, [Next]_vars PROVE TypeOK'
  OBVIOUS
<1> USE ObligationsAssumption DEF row, engine, frame, history
<1>t. TypeOK
  BY DEF Inv
<1>1. ASSUME NEW e \in Engines, NEW c \in Calls, Record(e, c) PROVE TypeOK'
  <2>1. Id[c] \in Rows /\ unpaid[Id[c]] - attempts[Id[c]] - 1 \in Int
    BY <1>t DEF TypeOK
  <2>2. InHand(Id[c]) \in BOOLEAN
    BY DEF InHand
  <2> QED
    BY <1>t, <1>1, <2>1, <2>2 DEF Record, TypeOK, Active
<1>e. ASSUME NEW c \in Calls, EndsCall(c)
      PROVE  /\ inline' \in [Calls -> {"none", "recorded", "pruned", "done"} \cup Fates]
             /\ by' \in [Calls -> Engines \cup {Nobody}]
  BY <1>t, <1>e DEF EndsCall, TypeOK
<1>2. ASSUME NEW c \in Calls, Prune(c) PROVE TypeOK'
  <2>1. \E gone \in SUBSET Rows : state' = [q \in Rows |-> IF q \in gone THEN "gone" ELSE state[q]]
    BY <1>2 DEF Prune, Stored
  <2>2. state' \in [Rows -> Active \cup Terminal \cup {"none", "gone"}]
    BY <1>t, <2>1 DEF TypeOK
  <2>3. /\ inline' \in [Calls -> {"none", "recorded", "pruned", "done"} \cup Fates]
        /\ by' \in [Calls -> Engines \cup {Nobody}]
    BY <1>t, <1>e, <1>2 DEF Prune, TypeOK
  <2> QED
    BY <1>t, <1>2, <2>2, <2>3 DEF Prune, TypeOK
<1>3. ASSUME NEW r \in Rows, SendOut(r)
      PROVE  unpaid' \in [Rows -> Int] /\ sent' \in [Rows -> BOOLEAN]
  BY <1>t, <1>3 DEF SendOut, TypeOK
<1>4. ASSUME NEW c \in Calls, InlineSend(c) PROVE TypeOK'
  <2>1. /\ state' \in [Rows -> Active \cup Terminal \cup {"none", "gone"}]
        /\ due' \in [Rows -> BOOLEAN]
    BY <1>t, <1>4, CasMoves DEF InlineSend
  <2>2. /\ unpaid' \in [Rows -> Int] /\ sent' \in [Rows -> BOOLEAN]
    BY <1>3, <1>4 DEF InlineSend
  <2>3. inline' \in [Calls -> {"none", "recorded", "pruned", "done"} \cup Fates]
    BY <1>t, <1>4 DEF InlineSend, TypeOK
  <2>4. begun' \in [Rows -> BOOLEAN]
    BY <1>t, <1>4 DEF InlineSend, TypeOK
  <2> QED
    BY <1>t, <1>4, <2>1, <2>2, <2>3, <2>4 DEF InlineSend, TypeOK
<1>5. ASSUME NEW c \in Calls, InlineSettle(c) PROVE TypeOK'
  <2>1. /\ state' \in [Rows -> Active \cup Terminal \cup {"none", "gone"}]
        /\ due' \in [Rows -> BOOLEAN]
    BY <1>t, <1>5, CasMoves DEF InlineSettle, Settles
  <2> QED
    BY <1>t, <1>e, <1>5, <2>1 DEF InlineSettle, TypeOK
<1>6. ASSUME NEW e \in Engines, NEW pass \in {"sweep", "retry"},
             NEW seen, NEW aged, NEW ready, Eligible(e, seen, ready),
             Claim(e, pass, seen, aged, ready)
      PROVE  /\ state' \in [Rows -> Active \cup Terminal \cup {"none", "gone"}]
             /\ owner' \in [Rows -> Engines \cup {Nobody}]
             /\ attempts' \in [Rows -> 0..MaxAttempts]
             /\ due' \in [Rows -> BOOLEAN]
             /\ todo' \in [Engines -> SUBSET Claims]
  <2>1. attempts' \in [Rows -> 0..MaxAttempts]
    BY <1>t, <1>6 DEF Claim, TypeOK, Spent
  <2>2. ASSUME NEW r \in seen PROVE [row |-> r, pass |-> pass, marker |-> state[r] # "pending"] \in Claims
    BY <1>6 DEF Eligible, Claims
  <2>3. todo' \in [Engines -> SUBSET Claims]
    <3> DEFINE new == {[row |-> r, pass |-> pass, marker |-> state[r] # "pending"] :
                          r \in {q \in seen \ {p \in seen : Spent(p, aged)} : q \in ready}}
    <3>1. new \in SUBSET Claims
      BY <2>2
    <3>2. todo' = [todo EXCEPT ![e] = @ \cup new]
      BY <1>6 DEF Claim
    <3> HIDE DEF new
    <3> QED
      BY <1>t, <3>1, <3>2 DEF TypeOK
  <2> QED
    BY <1>t, <1>6, <2>1, <2>3 DEF Claim, TypeOK, Terminal
<1>7. ASSUME NEW e \in Engines, SweepRecoverable(e) PROVE TypeOK'
  <2>1. \E D \in SUBSET Rows : sendable' = [sendable EXCEPT ![e] = D]
    BY <1>7 DEF SweepRecoverable, Stored
  <2>2. sendable' \in [Engines -> SUBSET Rows]
    BY <1>t, <2>1 DEF TypeOK
  <2>3. /\ old' \in [Engines -> SUBSET Rows] /\ ripe' \in [Engines -> SUBSET Rows]
        /\ tick' \in [Engines -> {"idle", "swept", "drive", "sending"}]
        /\ UNCHANGED <<stale, run, frame, cur, fate, history>>
    BY <1>t, <1>7 DEF SweepRecoverable, TypeOK
  <2> QED
    BY <1>t, <1>6, <1>7, <2>2, <2>3, PassesClaim DEF TypeOK
<1>8. ASSUME NEW e \in Engines, ClaimDueRetries(e) PROVE TypeOK'
  <2>1. /\ old' \in [Engines -> SUBSET Rows] /\ ripe' \in [Engines -> SUBSET Rows]
        /\ sendable' \in [Engines -> SUBSET Rows]
        /\ tick' \in [Engines -> {"idle", "swept", "drive", "sending"}]
        /\ UNCHANGED <<stale, run, frame, cur, fate, history>>
    BY <1>t, <1>8 DEF ClaimDueRetries, TypeOK
  <2> QED
    BY <1>t, <1>6, <1>8, <2>1, PassesClaim DEF TypeOK
<1>9. ASSUME NEW e \in Engines, NEW k \in todo[e], DriveClaimed(e, k) PROVE TypeOK'
  <2>1. k \in Claims /\ k.row \in Rows
    BY <1>t, <1>9 DEF TypeOK, Claims
  <2> QED
    BY <1>t, <1>3, <1>9, <2>1 DEF DriveClaimed, TypeOK
<1>10. ASSUME NEW e \in Engines, SettleClaimed(e) PROVE TypeOK'
  <2>1. cur[e].row \in Rows
    BY <1>10 DEF SettleClaimed, Inv, TypeOK, TickOK, Claims
  <2>2. /\ state' \in [Rows -> Active \cup Terminal \cup {"none", "gone"}]
        /\ due' \in [Rows -> BOOLEAN]
    BY <1>t, <1>10, <2>1, CasMoves DEF SettleClaimed, Settles
  <2> QED
    BY <1>t, <1>10, <2>2 DEF SettleClaimed, TypeOK, Fates
<1>11. ASSUME NEW e \in Engines, Boot(e) PROVE TypeOK'
  BY <1>t, <1>11 DEF Boot, TypeOK
<1>12. ASSUME NEW e \in Engines, Crash(e) PROVE TypeOK'
  <2>1. /\ inline' \in [Calls -> {"none", "recorded", "pruned", "done"} \cup Fates]
        /\ by' \in [Calls -> Engines \cup {Nobody}]
        /\ fate' \in [Engines -> Fates] /\ cur' \in [Engines -> Claims \cup {Nobody}]
        /\ run' \in [Engines -> {"unborn", "up", "down"}]
        /\ tick' \in [Engines -> {"idle", "swept", "drive", "sending"}]
    BY <1>t, <1>12 DEF Crash, TypeOK, Fates
  <2>2. /\ sendable' \in [Engines -> SUBSET Rows] /\ ripe' \in [Engines -> SUBSET Rows]
        /\ old' \in [Engines -> SUBSET Rows] /\ todo' \in [Engines -> SUBSET Claims]
    BY <1>t, <1>12 DEF Crash, TypeOK
  <2> QED
    BY <1>t, <1>12, <2>1, <2>2 DEF Crash, TypeOK
<1>13. ASSUME NEW e \in Engines, RetriesFail(e) PROVE TypeOK'
  BY <1>t, <1>13 DEF RetriesFail, TypeOK
<1>14. ASSUME NEW r \in Rows, BackoffElapses(r) \/ GrowsStale(r) PROVE TypeOK'
  BY <1>t, <1>14 DEF BackoffElapses, GrowsStale, TypeOK
<1>15. CASE UNCHANGED vars
  BY <1>t, <1>15 DEF vars, TypeOK
<1> QED
  BY <1>1, <1>2, <1>4, <1>5, <1>7, <1>8, <1>9, <1>10, <1>11, <1>12, <1>13, <1>14, <1>15
     DEF Next, Inline, Drive
-----------------------------------------------------------------------------
(* What a step does to one row *)

\* A row that a step leaves alone, or evicts, or whose calls and claims it only
\* moves on or ends, keeps its part of the invariant.
LEMMA RowKept ==
  ASSUME Inv, NEW r \in Rows,
         UNCHANGED <<owner[r], begun[r], overtaken[r]>>,
         due'[r] = due[r] \/ \A c \in Calls : Id[c] = r => inline[c] \notin Early,
         state'[r] = state[r] \/ (state[r] # "none" /\ state'[r] = "gone"),
         \A c \in Calls : Id[c] = r =>
            \/ inline'[c] \notin Open
            \/ inline'[c] = inline[c] /\ by'[c] = by[c]
            \/ inline[c] \in Early /\ inline'[c] \in Early /\ by'[c] = by[c],
         \A e \in Engines : \A k \in todo'[e] : k.row = r => k \in todo[e]
  PROVE  RowOK(r)'
<1>0. RowOK(r)
  BY DEF Inv
<1>1. Early \subseteq Open /\ Fates \subseteq Open /\ \A x \in Fates : x \notin Early
  BY DEF Early, Open, Fates
<1>2. ASSUME ~overtaken[r] PROVE Sole(r)'
  <2>1. Sole(r)
    BY <1>0, <1>2 DEF RowOK
  <2>2. ASSUME NEW c \in Calls, Id[c] = r
        PROVE  /\ inline'[c] \in Early => inline[c] \in Early /\ by'[c] = by[c]
               /\ inline'[c] \in Fates => inline[c] \in Fates /\ by'[c] = by[c]
               /\ inline'[c] \in Open => inline[c] \in Open
    BY <1>1, <2>2
  <2>3. ASSUME NEW c \in Calls, Id[c] = r PROVE FrameOK(c)'
    <3>1. FrameOK(c)
      BY <2>1, <2>3 DEF Sole
    <3> QED
      BY <2>2, <2>3, <3>1 DEF FrameOK
  <2>4. ASSUME NEW e \in Engines, NEW k \in todo'[e], k.row = r PROVE ClaimOK(e, k)'
    <3>1. ClaimOK(e, k)
      BY <2>1, <2>4 DEF Sole
    <3>2. state'[r] \in Active => state[r] \in Active
      BY DEF Active
    <3> QED
      BY <2>2, <2>4, <3>1, <3>2 DEF ClaimOK
  <2> QED
    BY <2>1, <2>2, <2>3, <2>4 DEF Sole
<1> QED
  BY <1>0, <1>2 DEF RowOK

\* A row keeps its copies paid for while none goes out and none is promised.
LEMMA PaidKept ==
  ASSUME Inv, NEW r \in Rows, Paid(r), UNCHANGED <<unpaid[r], attempts[r]>>,
         Firsts(r)' \in SUBSET Firsts(r), Retries(r)' \in SUBSET Retries(r)
  PROVE  Paid(r)'
<1>1. unpaid[r] \in Int /\ attempts[r] \in Int
  BY ObligationsAssumption DEF Inv, TypeOK
<1>2. /\ IsFiniteSet(Firsts(r)') /\ Cardinality(Firsts(r)') <= Cardinality(Firsts(r))
      /\ Cardinality(Firsts(r)) \in Nat /\ Cardinality(Firsts(r)') \in Nat
  BY NoMore DEF Paid
<1>3. /\ IsFiniteSet(Retries(r)') /\ Cardinality(Retries(r)') <= Cardinality(Retries(r))
      /\ Cardinality(Retries(r)) \in Nat /\ Cardinality(Retries(r)') \in Nat
  BY NoMore DEF Paid
<1>4. unpaid'[r] + Cardinality(Firsts(r)') + Cardinality(Retries(r)') <= attempts'[r]
  <2>1. unpaid[r] + Cardinality(Firsts(r)) + Cardinality(Retries(r)) <= attempts[r]
    BY DEF Paid
  <2> QED
    BY <1>1, <1>2, <1>3, <2>1
<1> QED
  BY <1>2, <1>3, <1>4 DEF Paid

\* An open frame stays with its engine while neither ends.
LEMMA CallKept ==
  ASSUME Inv, NEW c \in Calls,
         \/ inline'[c] \notin Open /\ by'[c] = Nobody
         \/ /\ inline'[c] = inline[c] \/ (inline[c] \in Open /\ inline'[c] \in Open)
            /\ by'[c] = by[c]
            /\ run'[by[c]] = run[by[c]] \/ by[c] = Nobody \/ run'[by[c]] = "up"
  PROVE  CallOK(c)'
<1>1. CallOK(c)
  BY DEF Inv
<1> QED
  BY <1>1 DEF CallOK, Up

-----------------------------------------------------------------------------
(* The transactions of deliverNew *)

\* A record keeps the invariant: a row nobody has in hand is as good as new.
LEMMA RecordStep ==
  ASSUME Inv, TypeOK', NEW e \in Engines, NEW c \in Calls, Record(e, c)
  PROVE  Inv' /\ \A r \in Rows : Paid(r) => Paid(r)'
<1> USE ObligationsAssumption DEF engine
<1> DEFINE r == Id[c]
<1>0. TypeOK /\ r \in Rows /\ e # Nobody
  BY DEF Inv
<1>1. /\ inline[c] = "none" /\ inline'[c] = "recorded" /\ by'[c] = e /\ Up(e)
      /\ \A d \in Calls \ {c} : inline'[d] = inline[d] /\ by'[d] = by[d]
      /\ state'[r] = "pending" /\ owner'[r] = e /\ ~due'[r] /\ ~begun'[r]
      /\ overtaken'[r] = InHand(r)
      /\ \A q \in Rows \ {r} : UNCHANGED <<state[q], owner[q], due[q], begun[q], overtaken[q]>>
      /\ UNCHANGED <<run, tick, todo, cur, ripe>>
  BY <1>0 DEF Record, TypeOK
<1>2. /\ unpaid'[r] = unpaid[r] - attempts[r] - 1 /\ attempts'[r] = 0
      /\ \A q \in Rows \ {r} : UNCHANGED <<unpaid[q], attempts[q]>>
  BY <1>0 DEF Record, TypeOK
<1> HIDE DEF r
<1>3. ASSUME NEW q \in Rows PROVE RowOK(q)'
  <2>1. CASE q # r
    <3>1. \A d \in Calls : Id[d] = q => inline'[d] = inline[d] /\ by'[d] = by[d]
      BY <1>1, <2>1 DEF r
    <3> QED
      BY <1>1, <2>1, <3>1, RowKept
  <2>2. CASE q = r
    <3>1. ASSUME ~InHand(r) PROVE Sole(r)'
      <4>1. /\ \A d \in Calls \ {c} : Id[d] = r => inline'[d] \notin Open
            /\ \A f \in Engines : \A k \in todo'[f] : k.row # r
        BY <1>1, <3>1 DEF InHand
      <4>2. ASSUME NEW d \in Calls, Id[d] = r PROVE FrameOK(d)'
        <5>1. CASE d = c
          BY <1>1, <4>2, <5>1 DEF FrameOK, Early, Fates
        <5>2. CASE d # c
          BY <4>1, <4>2, <5>2 DEF FrameOK, Early, Open
        <5> QED
          BY <5>1, <5>2
      <4> QED
        BY <4>1, <4>2 DEF Sole
    <3> QED
      BY <1>1, <2>2, <3>1 DEF RowOK
  <2> QED
    BY <2>1, <2>2
<1>4. ASSUME NEW d \in Calls PROVE CallOK(d)'
  <2>1. CASE d = c
    BY <1>0, <1>1, <2>1 DEF CallOK, Open, Up
  <2>2. CASE d # c
    BY <1>1, <2>2, CallKept
  <2> QED
    BY <2>1, <2>2
<1>5. ASSUME NEW f \in Engines PROVE TickOK(f)'
  BY <1>1 DEF Inv, TickOK, Up
<1>6. ASSUME NEW q \in Rows, Paid(q) PROVE Paid(q)'
  <2>1. Retries(q)' = Retries(q)
    BY <1>1 DEF Retries
  <2>2. CASE q # r
    <3>1. Firsts(q)' = Firsts(q)
      BY <1>1, <2>2 DEF Firsts, r
    <3> QED
      BY <1>2, <1>6, <2>1, <2>2, <3>1, PaidKept
  <2>3. CASE q = r
    <3>1. Firsts(r)' \in SUBSET (Firsts(r) \cup {c})
      BY <1>1 DEF Firsts
    <3>2. /\ IsFiniteSet(Firsts(r)') /\ Cardinality(Firsts(r)') <= Cardinality(Firsts(r)) + 1
          /\ Cardinality(Firsts(r)) \in Nat /\ Cardinality(Firsts(r)') \in Nat
      BY <1>6, <2>3, <3>1, OneMore DEF Paid
    <3>3. unpaid[r] \in Int /\ attempts[r] \in Nat /\ Cardinality(Retries(r)) \in Nat
      BY <1>0, <1>6, <2>3, NoMore DEF TypeOK, Paid
    <3>4. unpaid[r] + Cardinality(Firsts(r)) + Cardinality(Retries(r)) <= attempts[r]
      BY <1>6, <2>3 DEF Paid
    <3>5. unpaid'[r] + Cardinality(Firsts(r)') + Cardinality(Retries(r)') <= attempts'[r]
      BY <1>2, <2>1, <2>3, <3>2, <3>3, <3>4
    <3> QED
      BY <1>6, <2>1, <2>3, <3>2, <3>5 DEF Paid
  <2> QED
    BY <2>2, <2>3
<1> QED
  BY <1>3, <1>4, <1>5, <1>6 DEF Inv
\* The eviction keeps the invariant: it moves no row on.
LEMMA PruneStep ==
  ASSUME Inv, TypeOK', NEW c \in Calls, Prune(c)
  PROVE  Inv' /\ \A r \in Rows : Paid(r) => Paid(r)'
<1> USE DEF engine, history
<1>0. TypeOK
  BY DEF Inv
<1>1. PICK gone \in SUBSET Stored : state' = [q \in Rows |-> IF q \in gone THEN "gone" ELSE state[q]]
  BY DEF Prune
<1>2. /\ inline[c] = "recorded"
      /\ \/ inline'[c] = "pruned" /\ by'[c] = by[c]
         \/ inline'[c] = "done" /\ by'[c] = Nobody
      /\ \A d \in Calls \ {c} : inline'[d] = inline[d] /\ by'[d] = by[d]
      /\ \A q \in Rows : state'[q] = state[q] \/ (state[q] # "none" /\ state'[q] = "gone")
      /\ UNCHANGED <<owner, due, attempts, run, tick, todo, cur, ripe, unpaid, begun, overtaken>>
  BY <1>0, <1>1 DEF Prune, EndsCall, TypeOK, Stored
<1>3. ASSUME NEW d \in Calls
      PROVE  \/ inline'[d] \notin Open /\ by'[d] = Nobody
             \/ inline'[d] = inline[d] /\ by'[d] = by[d]
             \/ inline[d] \in Early /\ inline'[d] \in Early /\ by'[d] = by[d]
  BY <1>2 DEF Open, Early, Fates
<1>4. ASSUME NEW r \in Rows PROVE RowOK(r)'
  BY <1>2, <1>3, RowKept
<1>5. ASSUME NEW d \in Calls PROVE CallOK(d)'
  BY <1>2, <1>3, CallKept DEF Early, Open
<1>6. ASSUME NEW f \in Engines PROVE TickOK(f)'
  BY <1>2 DEF Inv, TickOK, Up
<1>7. ASSUME NEW r \in Rows, Paid(r) PROVE Paid(r)'
  <2>1. Retries(r)' = Retries(r) /\ Firsts(r)' \in SUBSET Firsts(r)
    BY <1>2 DEF Retries, Firsts, Early
  <2> QED
    BY <1>2, <1>7, <2>1, PaidKept
<1> QED
  BY <1>4, <1>5, <1>6, <1>7 DEF Inv

\* A first send keeps the invariant: it is on the books, or its row is as it
\* was; and it uses up its place in the budget.
LEMMA InlineSendStep ==
  ASSUME Inv, TypeOK', NEW c \in Calls, InlineSend(c)
  PROVE  Inv' /\ \A r \in Rows : Paid(r) => Paid(r)'
<1> USE ObligationsAssumption DEF engine
<1> DEFINE r == Id[c]
<1>0. TypeOK /\ r \in Rows /\ RowOK(r) /\ CallOK(c)
  BY DEF Inv
<1>1. /\ inline[c] = "pruned" /\ inline'[c] \in Fates /\ by' = by
      /\ \A d \in Calls \ {c} : inline'[d] = inline[d]
      /\ CasTransition(r, "attempting")
      /\ begun'[r] = (begun[r] \/ state'[r] = "attempting")
      /\ unpaid'[r] = unpaid[r] + 1
      /\ \A q \in Rows \ {r} : begun'[q] = begun[q] /\ unpaid'[q] = unpaid[q]
      /\ UNCHANGED <<owner, attempts, run, tick, todo, cur, ripe, overtaken>>
  BY <1>0 DEF InlineSend, SendOut, TypeOK
<1>2. /\ \A q \in Rows \ {r} : state'[q] = state[q] /\ due'[q] = due[q]
      /\ \/ state'[r] = state[r] /\ due'[r] = due[r]
         \/ state'[r] = "attempting" /\ ~due'[r] /\ state[r] \in {"pending", "failed"}
  BY <1>0, <1>1, CasMoves
<1> HIDE DEF r
<1>3. ASSUME NEW q \in Rows PROVE RowOK(q)'
  <2>1. CASE q # r
    <3>1. \A d \in Calls : Id[d] = q => inline'[d] = inline[d] /\ by'[d] = by[d]
      BY <1>1, <2>1 DEF r
    <3> QED
      BY <1>1, <1>2, <2>1, <3>1, RowKept
  <2>2. CASE q = r
    <3>1. ASSUME ~overtaken[r] PROVE Sole(r)'
      <4>1. Sole(r) /\ inline[c] \in Early \cap Open /\ inline'[c] \in Open /\ inline'[c] \notin Early
        BY <1>0, <1>1, <3>1 DEF RowOK, Early, Open, Fates
      <4>2. /\ FrameOK(c) /\ (\A f \in Engines : \A k \in todo[f] : k.row # r)
            /\ \A d \in Calls \ {c} : Id[d] = r => inline[d] \notin Open
        BY <4>1 DEF Sole, ClaimOK, r
      <4>3. FrameOK(c)'
        BY <1>1, <1>2, <4>1, <4>2 DEF FrameOK, r
      <4>4. ASSUME NEW d \in Calls \ {c}, Id[d] = r PROVE inline'[d] \notin Open /\ FrameOK(d)'
        BY <1>1, <4>2, <4>4 DEF FrameOK, Early, Open
      <4> QED
        BY <1>1, <4>2, <4>3, <4>4 DEF Sole
    <3>2. begun'[r] => state'[r] # "pending"
      BY <1>0, <1>1, <1>2 DEF RowOK
    <3> QED
      BY <1>0, <1>1, <1>2, <2>2, <3>1, <3>2 DEF RowOK
  <2> QED
    BY <2>1, <2>2
<1>4. ASSUME NEW d \in Calls PROVE CallOK(d)'
  <2>1. inline'[d] = inline[d] \/ (inline[d] \in Open /\ inline'[d] \in Open)
    BY <1>1 DEF Open
  <2> QED
    BY <1>1, <2>1, CallKept
<1>5. ASSUME NEW f \in Engines PROVE TickOK(f)'
  BY <1>1 DEF Inv, TickOK, Up
<1>6. ASSUME NEW q \in Rows, Paid(q) PROVE Paid(q)'
  <2>1. Retries(q)' = Retries(q)
    BY <1>1 DEF Retries
  <2>2. CASE q # r
    <3>1. Firsts(q)' = Firsts(q)
      BY <1>1, <2>2 DEF Firsts, r
    <3> QED
      BY <1>1, <1>6, <2>1, <2>2, <3>1, PaidKept
  <2>3. CASE q = r
    <3>1. c \in Firsts(r) /\ Firsts(r)' \in SUBSET (Firsts(r) \ {c})
      BY <1>1 DEF Firsts, Early, Fates, r
    <3>2. /\ IsFiniteSet(Firsts(r)') /\ Cardinality(Firsts(r)') + 1 <= Cardinality(Firsts(r))
          /\ Cardinality(Firsts(r)) \in Nat /\ Cardinality(Firsts(r)') \in Nat
      BY <1>6, <2>3, <3>1, OneLess DEF Paid
    <3>3. unpaid[r] \in Int /\ attempts[r] \in Nat /\ Cardinality(Retries(r)) \in Nat
      BY <1>0, <1>6, <2>3, NoMore DEF TypeOK, Paid
    <3>4. unpaid[r] + Cardinality(Firsts(r)) + Cardinality(Retries(r)) <= attempts[r]
      BY <1>6, <2>3 DEF Paid
    <3>5. unpaid'[r] + Cardinality(Firsts(r)') + Cardinality(Retries(r)') <= attempts'[r]
      BY <1>1, <2>1, <2>3, <3>2, <3>3, <3>4
    <3> QED
      BY <1>6, <2>1, <2>3, <3>2, <3>5 DEF Paid
  <2> QED
    BY <2>2, <2>3
<1> QED
  BY <1>3, <1>4, <1>5, <1>6 DEF Inv

\* The settlement of a first send keeps the invariant.
LEMMA InlineSettleStep ==
  ASSUME Inv, TypeOK', NEW c \in Calls, InlineSettle(c)
  PROVE  Inv' /\ \A r \in Rows : Paid(r) => Paid(r)'
<1> USE ObligationsAssumption DEF engine, history
<1> DEFINE r == Id[c]
<1>0. TypeOK /\ r \in Rows /\ RowOK(r)
  BY DEF Inv
<1>1. /\ inline[c] \in Fates /\ inline'[c] = "done" /\ by'[c] = Nobody
      /\ \A d \in Calls \ {c} : inline'[d] = inline[d] /\ by'[d] = by[d]
      /\ \E to \in {"delivered", "failed"} : CasTransition(r, to)
      /\ UNCHANGED <<owner, attempts, run, tick, todo, cur, ripe, unpaid, begun, overtaken>>
  BY <1>0 DEF InlineSettle, EndsCall, Settles, TypeOK
<1>2. /\ \A q \in Rows \ {r} : state'[q] = state[q] /\ due'[q] = due[q]
      /\ state'[r] = state[r] \/ (state[r] \in Active /\ state'[r] \in {"delivered", "failed"})
  BY <1>0, <1>1, CasMoves DEF Active
<1> HIDE DEF r
<1>3. ASSUME NEW q \in Rows PROVE RowOK(q)'
  <2>1. CASE q # r
    <3>1. \A d \in Calls : Id[d] = q => inline'[d] = inline[d] /\ by'[d] = by[d]
      BY <1>1, <2>1 DEF r
    <3> QED
      BY <1>1, <1>2, <2>1, <3>1, RowKept
  <2>2. CASE q = r
    <3>1. ASSUME ~overtaken[r] PROVE Sole(r)'
      <4>1. Sole(r) /\ inline[c] \in Open
        BY <1>0, <1>1, <3>1 DEF RowOK, Open
      <4>2. \A d \in Calls : Id[d] = r => inline'[d] \notin Open
        BY <1>1, <4>1 DEF Sole, Open, Fates, r
      <4>3. ASSUME NEW d \in Calls, Id[d] = r PROVE FrameOK(d)'
        BY <4>2, <4>3 DEF FrameOK, Early, Open
      <4>4. ASSUME NEW f \in Engines, NEW k \in todo'[f], k.row = r PROVE ClaimOK(f, k)'
        <5>1. ClaimOK(f, k)
          BY <1>1, <4>1, <4>4 DEF Sole
        <5>2. state'[r] \in Active => state[r] \in Active
          BY <1>2 DEF Active
        <5> QED
          BY <1>1, <4>2, <4>4, <5>1, <5>2 DEF ClaimOK, Early, Open
      <4> QED
        BY <1>1, <4>1, <4>2, <4>3, <4>4 DEF Sole
    <3>2. /\ state'[r] # "none" => owner'[r] \in Engines
          /\ begun'[r] => state'[r] # "pending"
      BY <1>0, <1>1, <1>2 DEF RowOK, Active
    <3> QED
      BY <1>1, <2>2, <3>1, <3>2 DEF RowOK
  <2> QED
    BY <2>1, <2>2
<1>4. ASSUME NEW d \in Calls PROVE CallOK(d)'
  <2>1. CASE d = c
    BY <1>1, <2>1 DEF CallOK, Open, Fates
  <2>2. CASE d # c
    BY <1>1, <2>2, CallKept
  <2> QED
    BY <2>1, <2>2
<1>5. ASSUME NEW f \in Engines PROVE TickOK(f)'
  BY <1>1 DEF Inv, TickOK, Up
<1>6. ASSUME NEW q \in Rows, Paid(q) PROVE Paid(q)'
  <2>1. Retries(q)' = Retries(q) /\ Firsts(q)' \in SUBSET Firsts(q)
    BY <1>1 DEF Retries, Firsts, Early
  <2> QED
    BY <1>1, <1>6, <2>1, PaidKept
<1> QED
  BY <1>3, <1>4, <1>5, <1>6 DEF Inv

-----------------------------------------------------------------------------
(* The scheduler *)

\* The two passes of a tick keep the invariant.
LEMMA PassStep ==
  ASSUME Inv, TypeOK', NEW e \in Engines, SweepRecoverable(e) \/ ClaimDueRetries(e)
  PROVE  Inv' /\ \A r \in Rows : Paid(r) => Paid(r)'
<1>0. TypeOK /\ TypeOK' /\ TickOK(e)
  BY DEF Inv
<1>1. /\ Up(e) /\ cur[e] = Nobody /\ UNCHANGED <<run, frame, cur, history>>
      /\ \A f \in Engines \ {e} : tick'[f] = tick[f] /\ ripe'[f] = ripe[f]
  BY <1>0 DEF SweepRecoverable, ClaimDueRetries, TickOK, TypeOK
<1>2. PICK pass, seen, aged, ready :
         /\ pass \in {"sweep", "retry"} /\ Eligible(e, seen, ready)
         /\ Claim(e, pass, seen, aged, ready)
  BY PassesClaim
<1>3. todo' \in [Engines -> SUBSET Claims]
  BY <1>0 DEF TypeOK
<1>4. ASSUME NEW r \in Rows PROVE RowOK(r)' /\ (Paid(r) => Paid(r)')
  BY <1>1, <1>2, <1>3, ClaimKeeps, ClaimPays
<1>5. ASSUME NEW c \in Calls PROVE CallOK(c)'
  BY <1>1 DEF Inv, CallOK, frame, Up
<1>6. \A f \in Engines \ {e} : todo'[f] = todo[f]
  BY <1>0, <1>2 DEF Claim, TypeOK
<1>7. ASSUME NEW f \in Engines PROVE TickOK(f)'
  <2>1. CASE f # e
    BY <1>1, <1>6, <2>1 DEF Inv, TickOK, Up
  <2>2. CASE f = e /\ ClaimDueRetries(e)
    <3>1. tick'[e] = IF todo'[e] = {} THEN "idle" ELSE "drive"
      BY <1>0, <2>2 DEF ClaimDueRetries, TypeOK
    <3> QED
      BY <1>1, <2>2, <3>1 DEF TickOK, Up
  <2>3. CASE f = e /\ SweepRecoverable(e)
    <3>1. /\ tick'[e] = "swept" /\ tick[e] = "idle" /\ todo[e] = {}
          /\ ripe'[e] = {r \in Rows : due'[r] /\ state'[r] \in {"pending", "failed"}}
      BY <1>0, <2>3 DEF SweepRecoverable, TypeOK, TickOK
    <3>2. ASSUME NEW k \in todo'[e] PROVE k.row \notin ripe'[e]
      <4>1. k \in Claims /\ k.row \in Rows
        BY <1>3, <3>2 DEF Claims
      <4>2. k \notin todo[e]
        BY <3>1
      <4>3. ~due'[k.row]
        BY <1>2, <3>2, <4>1, <4>2, ClaimMoves
      <4> QED
        BY <3>1, <4>3
    <3> QED
      BY <1>1, <2>3, <3>1, <3>2 DEF TickOK, Up
  <2> QED
    BY <2>1, <2>2, <2>3
<1> QED
  BY <1>4, <1>5, <1>7 DEF Inv

\* A tick that breaks off after its sweep keeps the invariant.
LEMMA RetriesFailStep ==
  ASSUME Inv, TypeOK', NEW e \in Engines, RetriesFail(e)
  PROVE  Inv' /\ \A r \in Rows : Paid(r) => Paid(r)'
<1> USE DEF row, frame, history
<1>1. /\ tick'[e] = "idle" /\ todo'[e] = {} /\ tick[e] = "swept"
      /\ \A f \in Engines \ {e} : UNCHANGED <<tick[f], todo[f], ripe[f]>>
      /\ UNCHANGED <<state, owner, due, attempts, run, inline, by, cur, unpaid, begun, overtaken>>
  BY DEF RetriesFail, Inv, TypeOK
<1>2. ASSUME NEW r \in Rows PROVE RowOK(r)'
  BY <1>1, RowKept
<1>3. ASSUME NEW c \in Calls PROVE CallOK(c)'
  BY <1>1 DEF Inv, CallOK, Up
<1>4. ASSUME NEW f \in Engines PROVE TickOK(f)'
  BY <1>1 DEF Inv, TickOK, Up
<1>5. ASSUME NEW r \in Rows, Paid(r) PROVE Paid(r)'
  <2>1. Firsts(r)' = Firsts(r) /\ Retries(r)' \in SUBSET Retries(r)
    BY <1>1 DEF Firsts, Retries
  <2> QED
    BY <1>1, <1>5, <2>1, PaidKept
<1> QED
  BY <1>2, <1>3, <1>4, <1>5 DEF Inv

\* A redelivery keeps the invariant, and uses up its place in the budget.
LEMMA DriveStep ==
  ASSUME Inv, TypeOK', NEW e \in Engines, NEW k \in todo[e], DriveClaimed(e, k)
  PROVE  Inv' /\ \A r \in Rows : Paid(r) => Paid(r)'
<1> USE ObligationsAssumption DEF row, frame
<1>0. TypeOK /\ TickOK(e) /\ k \in Claims /\ k.row \in Rows
  BY DEF Inv, TypeOK, Claims
<1>1. /\ tick[e] = "drive" /\ cur[e] = Nobody /\ cur'[e] = k /\ tick'[e] = "sending"
      /\ \A f \in Engines \ {e} : cur'[f] = cur[f] /\ tick'[f] = tick[f]
      /\ UNCHANGED <<state, owner, due, attempts, run, inline, by, ripe, todo, begun, overtaken>>
      /\ unpaid'[k.row] = unpaid[k.row] + 1
      /\ \A q \in Rows \ {k.row} : unpaid'[q] = unpaid[q]
  BY <1>0 DEF DriveClaimed, SendOut, TypeOK, TickOK
<1>2. ASSUME NEW r \in Rows PROVE RowOK(r)'
  BY <1>1, RowKept
<1>3. ASSUME NEW c \in Calls PROVE CallOK(c)'
  BY <1>1 DEF Inv, CallOK, Up
<1>4. ASSUME NEW f \in Engines PROVE TickOK(f)'
  BY <1>1 DEF Inv, TickOK, Up
<1>5. ASSUME NEW q \in Rows, Paid(q) PROVE Paid(q)'
  <2>1. Firsts(q)' = Firsts(q)
    BY <1>1 DEF Firsts
  <2>2. CASE q # k.row
    <3>1. Retries(q)' \in SUBSET Retries(q)
      <4> SUFFICES ASSUME NEW x \in Retries(q)' PROVE x \in Retries(q)
        OBVIOUS
      <4>1. /\ x \in Engines \X Claims /\ x[2] \in todo[x[1]] /\ x[2].row = q /\ cur'[x[1]] # x[2]
        BY <1>1 DEF Retries
      <4>2. x[1] # e => cur'[x[1]] = cur[x[1]]
        BY <1>1, <4>1
      <4>3. x[1] = e => cur[x[1]] # x[2]
        BY <1>1, <4>1
      <4> QED
        BY <4>1, <4>2, <4>3 DEF Retries
    <3> QED
      BY <1>1, <1>5, <2>1, <2>2, <3>1, PaidKept
  <2>3. CASE q = k.row
    <3> DEFINE x == <<e, k>>
    <3>1. x \in Retries(q)
      BY <1>0, <1>1, <2>3 DEF Retries
    <3>2. Retries(q)' \in SUBSET (Retries(q) \ {x})
      <4> SUFFICES ASSUME NEW y \in Retries(q)' PROVE y \in Retries(q) /\ y # x
        OBVIOUS
      <4>1. /\ y \in Engines \X Claims /\ y[2] \in todo[y[1]] /\ y[2].row = q /\ cur'[y[1]] # y[2]
        BY <1>1 DEF Retries
      <4>2. y # x
        BY <1>1, <4>1
      <4>3. y[1] # e => cur'[y[1]] = cur[y[1]]
        BY <1>1, <4>1
      <4>4. y[1] = e => cur[y[1]] # y[2]
        BY <1>1, <4>1
      <4> QED
        BY <4>1, <4>2, <4>3, <4>4 DEF Retries
    <3> HIDE DEF x
    <3>3. /\ IsFiniteSet(Retries(q)') /\ Cardinality(Retries(q)') + 1 <= Cardinality(Retries(q))
          /\ Cardinality(Retries(q)) \in Nat /\ Cardinality(Retries(q)') \in Nat
      BY <1>5, <3>1, <3>2, OneLess DEF Paid
    <3>4. unpaid[q] \in Int /\ attempts[q] \in Nat /\ Cardinality(Firsts(q)) \in Nat
      BY <1>0, <1>5, NoMore DEF TypeOK, Paid
    <3>5. unpaid[q] + Cardinality(Firsts(q)) + Cardinality(Retries(q)) <= attempts[q]
      BY <1>5 DEF Paid
    <3>6. unpaid'[q] + Cardinality(Firsts(q)') + Cardinality(Retries(q)') <= attempts'[q]
      BY <1>1, <2>1, <2>3, <3>3, <3>4, <3>5
    <3> QED
      BY <1>5, <2>1, <3>3, <3>6 DEF Paid
  <2> QED
    BY <2>2, <2>3
<1> QED
  BY <1>2, <1>3, <1>4, <1>5 DEF Inv

\* The settlement of a redelivery keeps the invariant: nobody else worked on
\* its row.
LEMMA SettleStep ==
  ASSUME Inv, TypeOK', NEW e \in Engines, SettleClaimed(e)
  PROVE  Inv' /\ \A r \in Rows : Paid(r) => Paid(r)'
<1> USE ObligationsAssumption DEF frame, history
<1>k. PICK k \in Claims : k = cur[e] /\ k \in todo[e]
  BY DEF Inv, SettleClaimed, TickOK, TypeOK
<1>r. PICK r \in Rows : r = k.row
  BY DEF Claims
<1>0. TypeOK /\ TickOK(e) /\ RowOK(r)
  BY DEF Inv
<1>1. /\ todo'[e] = todo[e] \ {k} /\ cur'[e] = Nobody
      /\ tick'[e] = IF todo'[e] = {} THEN "idle" ELSE "drive"
      /\ \A f \in Engines \ {e} : cur'[f] = cur[f] /\ tick'[f] = tick[f] /\ todo'[f] = todo[f]
      /\ tick[e] = "sending" /\ \E to \in {"delivered", "failed"} : CasTransition(r, to)
      /\ UNCHANGED <<owner, attempts, run, inline, by, ripe, unpaid, begun, overtaken>>
  BY <1>0, <1>k, <1>r DEF SettleClaimed, Settles, TypeOK
<1>2. /\ \A q \in Rows \ {r} : state'[q] = state[q] /\ due'[q] = due[q]
      /\ state'[r] = state[r] \/ (state[r] \in Active /\ state'[r] \in {"delivered", "failed"})
  BY <1>0, <1>1, CasMoves DEF Active
<1>3. ASSUME NEW q \in Rows PROVE RowOK(q)'
  <2>1. CASE q # r
    BY <1>1, <1>2, <2>1, RowKept
  <2>2. CASE q = r
    <3>1. ASSUME ~overtaken[r] PROVE Sole(r)'
      <4>1. Sole(r) /\ ClaimOK(e, k)
        BY <1>0, <1>k, <1>r, <3>1 DEF RowOK, Sole
      <4>2. \A f \in Engines : \A l \in todo'[f] : l.row # r
        BY <1>k, <1>r, <1>1, <4>1 DEF Sole
      <4>3. ASSUME NEW c \in Calls, Id[c] = r PROVE FrameOK(c)'
        BY <1>r, <1>1, <4>1, <4>3 DEF FrameOK, ClaimOK
      <4> QED
        BY <1>1, <4>1, <4>2, <4>3 DEF Sole
    <3>2. /\ state'[r] # "none" => owner'[r] \in Engines
          /\ begun'[r] => state'[r] # "pending"
      BY <1>0, <1>1, <1>2 DEF RowOK, Active
    <3> QED
      BY <1>1, <2>2, <3>1, <3>2 DEF RowOK
  <2> QED
    BY <2>1, <2>2
<1>4. ASSUME NEW c \in Calls PROVE CallOK(c)'
  BY <1>1 DEF Inv, CallOK, Up
<1>5. ASSUME NEW f \in Engines PROVE TickOK(f)'
  BY <1>0, <1>1 DEF Inv, TickOK, Up
<1>6. ASSUME NEW q \in Rows, Paid(q) PROVE Paid(q)'
  <2>1. Firsts(q)' = Firsts(q)
    BY <1>1 DEF Firsts
  <2>2. Retries(q)' \in SUBSET Retries(q)
    <3> SUFFICES ASSUME NEW x \in Retries(q)' PROVE x \in Retries(q)
      OBVIOUS
    <3>1. x \in Engines \X Claims /\ x[2] \in todo'[x[1]] /\ x[2].row = q /\ cur'[x[1]] # x[2]
      BY DEF Retries
    <3>2. CASE x[1] = e
      BY <1>k, <1>1, <3>1, <3>2 DEF Retries
    <3>3. CASE x[1] # e
      BY <1>1, <3>1, <3>3 DEF Retries
    <3> QED
      BY <3>2, <3>3
  <2> QED
    BY <1>1, <1>6, <2>1, <2>2, PaidKept
<1> QED
  BY <1>3, <1>4, <1>5, <1>6 DEF Inv

-----------------------------------------------------------------------------
(* The world *)

\* The birth and the death of an engine keep the invariant: with an engine go
\* its frames and its claims.
LEMMA EngineStep ==
  ASSUME Inv, TypeOK', NEW e \in Engines, Boot(e) \/ Crash(e)
  PROVE  Inv' /\ \A r \in Rows : Paid(r) => Paid(r)'
<1> USE ObligationsAssumption DEF row, engine, frame, history
<1>0. TypeOK /\ TickOK(e)
  BY DEF Inv
<1>1. CASE Boot(e)
  <2>1. /\ run'[e] = "up" /\ \A f \in Engines \ {e} : run'[f] = run[f]
        /\ UNCHANGED <<row, frame, engine, history>>
    BY <1>0, <1>1 DEF Boot, TypeOK
  <2>2. ASSUME NEW r \in Rows PROVE RowOK(r)'
    BY <2>1, RowKept
  <2>3. ASSUME NEW c \in Calls PROVE CallOK(c)'
    BY <1>0, <2>1, CallKept DEF TypeOK
  <2>4. ASSUME NEW f \in Engines PROVE TickOK(f)'
    BY <2>1 DEF Inv, TickOK, Up
  <2>5. ASSUME NEW r \in Rows, Paid(r) PROVE Paid(r)'
    <3>1. Firsts(r)' = Firsts(r) /\ Retries(r)' = Retries(r)
      BY <2>1 DEF Firsts, Retries
    <3> QED
      BY <2>1, <2>5, <3>1, PaidKept
  <2> QED
    BY <2>2, <2>3, <2>4, <2>5 DEF Inv
<1>2. CASE Crash(e)
  <2>1. /\ run'[e] = "down" /\ \A f \in Engines \ {e} : run'[f] = run[f]
        /\ \A c \in Calls : inline'[c] = IF by[c] = e THEN "done" ELSE inline[c]
        /\ \A c \in Calls : by'[c] = IF by[c] = e THEN Nobody ELSE by[c]
        /\ tick'[e] = "idle" /\ todo'[e] = {} /\ cur'[e] = Nobody
        /\ \A f \in Engines \ {e} : UNCHANGED <<tick[f], todo[f], ripe[f], cur[f]>>
        /\ UNCHANGED <<row, history>>
    BY <1>0, <1>2 DEF Crash, TypeOK
  <2>2. ASSUME NEW c \in Calls
        PROVE  \/ inline'[c] \notin Open /\ by'[c] = Nobody
               \/ /\ inline'[c] = inline[c] /\ by'[c] = by[c]
                  /\ by[c] # Nobody => run'[by[c]] = run[by[c]]
    <3>1. CASE by[c] = e
      BY <2>1, <3>1 DEF Open, Fates
    <3>2. CASE by[c] # e
      BY <1>0, <2>1, <3>2 DEF TypeOK
    <3> QED
      BY <3>1, <3>2
  <2>3. ASSUME NEW f \in Engines PROVE todo'[f] \in SUBSET todo[f]
    BY <2>1
  <2>4. ASSUME NEW r \in Rows PROVE RowOK(r)'
    BY <2>1, <2>2, <2>3, RowKept
  <2>5. ASSUME NEW c \in Calls PROVE CallOK(c)'
    BY <2>2, CallKept
  <2>6. ASSUME NEW f \in Engines PROVE TickOK(f)'
    BY <2>1 DEF Inv, TickOK, Up
  <2>7. ASSUME NEW r \in Rows, Paid(r) PROVE Paid(r)'
    <3>1. Firsts(r)' \in SUBSET Firsts(r)
      BY <2>2 DEF Firsts, Early, Open
    <3>2. Retries(r)' \in SUBSET Retries(r)
      BY <2>1 DEF Retries
    <3> QED
      BY <2>1, <2>7, <3>1, <3>2, PaidKept
  <2> QED
    BY <2>4, <2>5, <2>6, <2>7 DEF Inv
<1> QED
  BY <1>1, <1>2

\* Time passing keeps the invariant: no backoff ends between the record of a
\* row and its first send.
LEMMA ClockStep ==
  ASSUME Inv, TypeOK', NEW r \in Rows, BackoffElapses(r) \/ GrowsStale(r)
  PROVE  Inv' /\ \A q \in Rows : Paid(q) => Paid(q)'
<1> USE DEF row, engine, frame, history
<1>1. /\ UNCHANGED <<state, owner, attempts, run, frame, engine, history>>
      /\ \A q \in Rows \ {r} : due'[q] = due[q]
      /\ \A c \in Calls : Id[c] = r => inline[c] \notin Early
  BY DEF BackoffElapses, GrowsStale, TimePasses, Inv, TypeOK, Early
<1>2. ASSUME NEW q \in Rows PROVE RowOK(q)'
  <2>1. due'[q] = due[q] \/ \A c \in Calls : Id[c] = q => inline[c] \notin Early
    BY <1>1
  <2> QED
    BY <1>1, <2>1, RowKept
<1>3. ASSUME NEW c \in Calls PROVE CallOK(c)'
  BY <1>1 DEF Inv, CallOK, Up
<1>4. ASSUME NEW f \in Engines PROVE TickOK(f)'
  BY <1>1 DEF Inv, TickOK, Up
<1>5. ASSUME NEW q \in Rows, Paid(q) PROVE Paid(q)'
  <2>1. Firsts(q)' = Firsts(q) /\ Retries(q)' = Retries(q)
    BY <1>1 DEF Firsts, Retries
  <2> QED
    BY <1>1, <1>5, <2>1, PaidKept
<1> QED
  BY <1>2, <1>3, <1>4, <1>5 DEF Inv

-----------------------------------------------------------------------------
(* The theorems *)

\* No step of the ledger, the scheduler or the world breaks the invariant, or
\* lets a copy go unpaid.
LEMMA NextInv == Inv /\ [Next]_vars => Inv' /\ \A r \in Rows : Paid(r) => Paid(r)'
<1> SUFFICES ASSUME Inv, [Next]_vars PROVE Inv' /\ \A r \in Rows : Paid(r) => Paid(r)'
  OBVIOUS
<1>1. TypeOK'
  BY TypeStep
<1>2. CASE UNCHANGED vars
  <2> USE <1>2 DEF vars, row, engine, frame, history
  <2>1. ASSUME NEW r \in Rows PROVE RowOK(r)' /\ (Paid(r) => Paid(r)')
    <3>1. Firsts(r)' = Firsts(r) /\ Retries(r)' = Retries(r)
      BY DEF Firsts, Retries
    <3> QED
      BY <3>1, RowKept, PaidKept
  <2>2. ASSUME NEW c \in Calls PROVE CallOK(c)'
    BY DEF Inv, CallOK, Up
  <2>3. ASSUME NEW f \in Engines PROVE TickOK(f)'
    BY DEF Inv, TickOK, Up
  <2> QED
    BY <1>1, <2>1, <2>2, <2>3 DEF Inv
<1>3. CASE Next
  BY <1>1, <1>3, RecordStep, PruneStep, InlineSendStep, InlineSettleStep, PassStep,
     RetriesFailStep, DriveStep, SettleStep, EngineStep, ClockStep DEF Next, Inline, Drive
<1> QED
  BY <1>2, <1>3

\* The invariant holds in every reachable state.
THEOREM InvHolds == Spec => [](Inv /\ \A r \in Rows : Paid(r))
<1> DEFINE All == Inv /\ \A r \in Rows : Paid(r)
<1>1. Init => All
  BY InitInv
<1>2. All /\ [Next]_vars => All'
  BY NextInv
<1> HIDE DEF All
<1>3. Spec => []All
  BY <1>1, <1>2, PTL DEF Spec
<1> QED
  BY <1>3 DEF All

\* A row that no record overtakes is never on its way twice at once, whichever
\* engines sweep, retry or send it ("exactly one racing gateway ever claims a
\* row").
THEOREM OneSenderHolds == Spec => []OneSender
<1>1. Inv => OneSender
  <2> SUFFICES ASSUME Inv, NEW r \in Rows, ~overtaken[r]
               PROVE  /\ \A e, f \in Engines : InFlight(r, e) /\ InFlight(r, f) => e = f
                      /\ \A c, d \in Calls :
                            InlineInFlight(c, r) /\ InlineInFlight(d, r) => c = d
                      /\ \A c \in Calls, e \in Engines :
                            InlineInFlight(c, r) /\ begun[r] => ~InFlight(r, e)
    BY DEF OneSender, Inv
  <2>1. Sole(r)
    BY DEF Inv, RowOK
  <2>2. ASSUME NEW e \in Engines, InFlight(r, e) PROVE cur[e] \in todo[e] /\ cur[e].row = r
    BY <2>2 DEF InFlight, Inv, TickOK
  <2>3. ASSUME NEW c \in Calls, InlineInFlight(c, r)
        PROVE  Id[c] = r /\ inline[c] \in Fates /\ inline[c] \in Open
    BY <2>3 DEF InlineInFlight, Open
  <2>4. \A e, f \in Engines : InFlight(r, e) /\ InFlight(r, f) => e = f
    BY <2>1, <2>2 DEF Sole
  <2>5. \A c, d \in Calls : InlineInFlight(c, r) /\ InlineInFlight(d, r) => c = d
    BY <2>1, <2>3 DEF Sole
  <2>6. ASSUME NEW c \in Calls, NEW e \in Engines, InlineInFlight(c, r), begun[r], InFlight(r, e)
        PROVE  FALSE
    BY <2>1, <2>2, <2>3, <2>6 DEF Sole, ClaimOK
  <2> QED
    BY <2>4, <2>5, <2>6
<1> QED
  BY <1>1, InvHolds, PTL

\* Every copy that leaves is paid for, by a record or by a charged attempt, and
\* every copy after a first attempt that is on the books carries the marker.
THEOREM CopiesPaidAndMarkedHolds == Spec => []CopiesPaidAndMarked
<1>1. Inv /\ (\A r \in Rows : Paid(r)) => CopiesPaidAndMarked
  <2> SUFFICES ASSUME Inv, NEW r \in Rows, Paid(r)
               PROVE  /\ unpaid[r] <= attempts[r]
                      /\ ~overtaken[r] /\ begun[r] =>
                            \A e \in Engines : \A k \in todo[e] : k.row = r => k.marker
    BY DEF CopiesPaidAndMarked
  <2>1. /\ unpaid[r] \in Int /\ attempts[r] \in Int
        /\ Cardinality(Firsts(r)) \in Nat /\ Cardinality(Retries(r)) \in Nat
    BY ObligationsAssumption, NoMore DEF Inv, TypeOK, Paid
  <2>2. unpaid[r] <= attempts[r]
    BY <2>1 DEF Paid
  <2>3. ~overtaken[r] /\ begun[r] =>
           \A e \in Engines : \A k \in todo[e] : k.row = r => k.marker
    BY DEF Inv, RowOK, Sole, ClaimOK
  <2> QED
    BY <2>2, <2>3
<1> QED
  BY <1>1, InvHolds, PTL

\* The cap takes an owed row only when nothing settled is left to take.
THEOREM OwedOutlivesSettledHolds == Spec => OwedOutlivesSettled
<1> DEFINE Kept == (\E r \in Rows : state[r] \in Active /\ state'[r] = "gone")
                     => \A q \in Rows : state'[q] \notin Terminal
<1>1. Inv /\ [Next]_vars => Kept
  <2> SUFFICES ASSUME Inv, [Next]_vars,
                      NEW r \in Rows, state[r] \in Active, state'[r] = "gone",
                      NEW q \in Rows, state'[q] \in Terminal
               PROVE  FALSE
    OBVIOUS
  <2>0. TypeOK
    BY DEF Inv
  <2>1. ASSUME NEW c \in Calls, Prune(c) PROVE FALSE
    <3>1. PICK past \in SUBSET {k \in Stored : state[k] \in Terminal} :
            \E evicted \in SUBSET (Stored \ past) :
            /\ \A d \in evicted : \A k \in (Stored \ past) \ evicted : Rank(d) <= Rank(k)
            /\ state' = [k \in Rows |-> IF k \in past \cup evicted THEN "gone" ELSE state[k]]
      BY <2>1 DEF Prune
    <3>5. PICK evicted \in SUBSET (Stored \ past) :
            /\ \A d \in evicted : \A k \in (Stored \ past) \ evicted : Rank(d) <= Rank(k)
            /\ state' = [k \in Rows |-> IF k \in past \cup evicted THEN "gone" ELSE state[k]]
      BY <3>1
    <3>2. r \in evicted /\ Rank(r) = 2
      BY <3>5 DEF Active, Terminal, Rank
    <3>3. q \in (Stored \ past) \ evicted /\ state[q] \in Terminal
      <4>1. q \notin past \cup evicted /\ state'[q] = state[q]
        BY <3>5 DEF Terminal
      <4> QED
        BY <4>1 DEF Stored, Terminal
    <3>4. Rank(q) \in {0, 1}
      BY <3>3 DEF Terminal, Rank
    <3> QED
      BY <3>5, <3>2, <3>3, <3>4
  <2>2. ASSUME NEW p \in Rows, NEW to \in {"attempting", "delivered", "failed"},
               CasTransition(p, to)
        PROVE  FALSE
    BY <2>0, <2>2, CasMoves DEF Active
  <2>3. ASSUME NEW e, NEW pass, NEW seen, NEW aged, NEW ready,
               Claim(e, pass, seen, aged, ready) PROVE FALSE
    BY <2>3 DEF Claim, Active
  <2>4. ASSUME state' = state PROVE FALSE
    BY <2>4 DEF Active
  <2>5. ASSUME NEW e \in Engines, SettleClaimed(e) PROVE FALSE
    <3>1. cur[e].row \in Rows
      BY <2>5 DEF SettleClaimed, Inv, TickOK, TypeOK, Claims
    <3> QED
      BY <2>2, <2>5, <3>1 DEF SettleClaimed, Settles
  <2>6. ASSUME NEW c \in Calls, Inline(c) PROVE FALSE
    BY <2>1, <2>2, <2>6, ObligationsAssumption DEF Inline, InlineSend, InlineSettle, Settles
  <2>7. ASSUME NEW e \in Engines, NEW c \in Calls, Record(e, c) PROVE FALSE
    BY <2>0, <2>7 DEF Record, TypeOK, Active
  <2>8. ASSUME NEW e \in Engines, SweepRecoverable(e) \/ ClaimDueRetries(e) PROVE FALSE
    BY <2>3, <2>8 DEF SweepRecoverable, ClaimDueRetries
  <2>9. ASSUME NEW e \in Engines, NEW k \in todo[e], DriveClaimed(e, k) PROVE FALSE
    BY <2>4, <2>9 DEF DriveClaimed, row
  <2>10. ASSUME NEW e \in Engines, Boot(e) \/ Crash(e) \/ RetriesFail(e) PROVE FALSE
    BY <2>4, <2>10 DEF Boot, Crash, RetriesFail, row
  <2>11. ASSUME NEW p \in Rows, BackoffElapses(p) \/ GrowsStale(p) PROVE FALSE
    BY <2>4, <2>11 DEF BackoffElapses, GrowsStale, row
  <2> QED
    BY <2>4, <2>5, <2>6, <2>7, <2>8, <2>9, <2>10, <2>11 DEF Next, Drive, vars, row
<1> QED
  BY <1>1, InvHolds, PTL DEF Spec, OwedOutlivesSettled
=============================================================================
