--------------------------- MODULE Adapter_proofs ---------------------------
(* Two parts of a platform adapter.  A platform has one consumer as long as  *)
(* the passes of the reconnect watcher do not overlap; and the intake of a   *)
(* polling adapter loses no update whose offset is committed.  Both hold for *)
(* any number of platforms, passes, generations, updates and faults.         *)
EXTENDS Reconnect, Polling, TLAPS, FiniteSetTheorems, SequenceTheorems

----------------------------------------------------------------------------
(* THE RECONNECT WATCHER *)

(* What OneConsumer needs to be inductive: while no two passes have          *)
(* overlapped, one pass at most is in flight; the platform it has in hand,   *)
(* and every platform in the queue, was started and lost and has no fresh    *)
(* instance; and a platform that was not started or is up has none either.   *)
(* Once the watcher has stopped, the pass in flight may leave a row behind.  *)
Vacant(p) == fresh[p] = 0 /\ boot[p] \notin {"no", "up"}

OnePass == \A j, k \in Passes : pass[j] # Idle /\ pass[k] # Idle => j = k
InHandVacant == \A k \in Passes : \A p \in Platforms : Waiting(k, p) => Vacant(p)
QueuedVacant == \A p \in Platforms : phase # "stopped" /\ Queued(p) => Vacant(p)
BootedAlone == \A p \in Platforms : boot[p] \in {"no", "up"} => fresh[p] = 0
FewFresh == \A p \in Platforms : fresh[p] < 2

Apart == OnePass /\ InHandVacant /\ QueuedVacant /\ BootedAlone /\ FewFresh

Inv == TypeOK /\ (overlap \/ Apart)

Visit == [todo : SUBSET Platforms, at : Platforms \cup {None}, tries : Nat]
Rows == [Platforms -> [attempts : Nat, due : Int]]

(* The operators of the watcher keep their types. *)
LEMMA RowType == ASSUME NEW n \in Nat \ {0} PROVE Row(n) \in [attempts : Nat, due : Int]
<1>1. 2 ^ (n - 1) \in Int
  BY SMT
<1>2. Backoff(n) \in Int
  BY <1>1, ReconnectAssumption DEF Backoff
<1>3. Counted(n) \in Nat
  BY DEF Counted
<1> QED
  BY <1>2, <1>3 DEF Row

(* A pass at rest, and the passes after one has left a platform behind.      *)
LEMMA IdleType == Idle \in Visit
  BY DEF Idle, Visit

LEMMA PassedType ==
    ASSUME NEW ps \in [Passes -> Visit], NEW p \in Platforms
    PROVE  /\ Passed(ps, p) \in [Passes -> Visit]
           /\ \A k \in Passes : /\ Passed(ps, p)[k].at = ps[k].at
                                /\ Passed(ps, p)[k].todo = ps[k].todo \ {p}
                                /\ ps[k] = Idle => Passed(ps, p)[k] = Idle
  BY DEF Passed, Visit, Idle

(* Proceeds ends the pass, or takes a platform that is queued in hand; the   *)
(* other passes stay as they are.                                            *)
LEMMA ProceedsType ==
    ASSUME NEW k \in Passes, NEW ps \in [Passes -> Visit],
           NEW todo \in SUBSET Platforms, NEW rows \in Rows,
           Proceeds(k, ps, todo, rows)
    PROVE  /\ pass' \in [Passes -> Visit]
           /\ \A j \in Passes : j # k => pass'[j] = ps[j]
           /\ \/ pass'[k] = Idle
              \/ \E p \in todo : rows[p] # NoRow /\ pass'[k].at = p
<1> DEFINE left == {p \in todo : rows[p] # NoRow}
<1>1. CASE left = {}
  <2>1. pass' = [ps EXCEPT ![k] = Idle]
    BY <1>1 DEF Proceeds
  <2> QED
    BY <2>1, IdleType
<1>2. CASE left # {}
  <2>1. PICK p \in left : pass' = [ps EXCEPT ![k] =
                 [todo |-> left \ {p}, at |-> p, tries |-> rows[p].attempts]]
    BY <1>2 DEF Proceeds
  <2>2. [todo |-> left \ {p}, at |-> p, tries |-> rows[p].attempts] \in Visit
    BY DEF Visit, Rows
  <2> QED
    BY <2>1, <2>2
<1> QED
  BY <1>1, <1>2

(* Every step keeps the types. *)
LEMMA TypeStep == TypeOK /\ [Next]_vars => TypeOK'
<1> USE ReconnectAssumption
<1> SUFFICES ASSUME TypeOK, [Next]_vars PROVE TypeOK'
  OBVIOUS
<1>0. /\ pass \in [Passes -> Visit] /\ row \in Rows
      /\ \A p \in Platforms : row[p].attempts + 1 \in Nat \ {0}
  BY DEF TypeOK, Visit, Rows
<1> DEFINE PassOK == pass' \in [Passes -> Visit]
           RowOK == row' \in Rows
<1>1. ASSUME NEW p \in Platforms, BootConnects(p) PROVE TypeOK'
  BY <1>1 DEF BootConnects, TypeOK
<1>2. ASSUME NEW p \in Platforms, BootFails(p) PROVE TypeOK'
  <2>1. PassOK /\ RowOK
    BY <1>0, <1>2, PassedType, RowType DEF BootFails, Enqueue, Rows
  <2> QED
    BY <1>2, <2>1 DEF BootFails, TypeOK, Visit, Rows
<1>3. ASSUME NEW p \in Platforms, BootDisables(p) PROVE TypeOK'
  BY <1>3 DEF BootDisables, TypeOK
<1>4. ASSUME NEW p \in Platforms, BootedDies(p) PROVE TypeOK'
  <2>1. PassOK /\ RowOK
    BY <1>0, <1>4, PassedType, RowType DEF BootedDies, Enqueue, Rows
  <2> QED
    BY <1>4, <2>1 DEF BootedDies, TypeOK, Visit, Rows
<1>5. ASSUME NEW p \in Platforms, FreshDies(p) PROVE TypeOK'
  BY <1>5 DEF FreshDies, TypeOK
<1>6. ASSUME NEW p \in Platforms, Disconnects(p) PROVE TypeOK'
  BY <1>6 DEF Disconnects, TypeOK
<1>7. ASSUME NEW k \in Passes, PassBegins(k) PROVE TypeOK'
  <2>1. PassOK
    BY <1>0, <1>7, ProceedsType DEF PassBegins, Due
  <2> QED
    BY <1>7, <2>1 DEF PassBegins, TypeOK, Visit
<1>8. ASSUME NEW k \in Passes, NEW p \in Platforms, Connects(k, p) PROVE TypeOK'
  <2>3. fresh' \in [Platforms -> 0 .. MaxFresh]
    BY <1>8 DEF Connects, TypeOK
  <2>1. RowOK
    BY <1>0, <1>8 DEF Connects, Rows, NoRow
  <2>2. PassOK
    <3>1. CASE phase = "stopped"
      BY <1>0, <1>8, <3>1, IdleType DEF Connects
    <3>2. CASE phase # "stopped"
      <4>1. Proceeds(k, pass, pass[k].todo, row') /\ pass[k].todo \in SUBSET Platforms
        BY <1>0, <1>8, <3>2 DEF Connects, Visit
      <4> QED
        BY <1>0, <2>1, <4>1, ProceedsType
    <3> QED
      BY <3>1, <3>2
  <2> QED
    BY <1>8, <2>1, <2>2, <2>3 DEF Connects, TypeOK, Visit, Rows
<1>9. ASSUME NEW k \in Passes, NEW p \in Platforms, ConnectFails(k, p) PROVE TypeOK'
  <2>0. pass[k].todo \in SUBSET Platforms /\ pass[k].tries + 1 \in Nat \ {0}
    BY <1>0 DEF Visit
  <2>1. RowOK
    BY <1>0, <1>9, <2>0, RowType DEF ConnectFails, Enqueue, Rows
  <2>2. PassOK
    <3>1. CASE phase = "stopped"
      BY <1>0, <1>9, <3>1, IdleType DEF ConnectFails
    <3>2. CASE phase # "stopped"
      <4>1. Proceeds(k, Passed(pass, p), pass[k].todo \ {p}, row')
        BY <1>9, <3>2 DEF ConnectFails
      <4> QED
        BY <1>0, <2>0, <2>1, <4>1, PassedType, ProceedsType
    <3> QED
      BY <3>1, <3>2
  <2> QED
    BY <1>9, <2>1, <2>2 DEF ConnectFails, TypeOK, Visit, Rows
<1>10. CASE TimePasses
  <2>1. RowOK
    BY <1>0, <1>10 DEF TimePasses, Rows
  <2> QED
    BY <1>10, <2>1 DEF TimePasses, TypeOK, Rows
<1>11. CASE Booted \/ ShutdownBegins \/ IngressStopped \/ WatcherStops
  BY <1>11 DEF Booted, ShutdownBegins, IngressStopped, WatcherStops, TypeOK
<1>12. CASE UNCHANGED vars
  BY <1>12 DEF vars, TypeOK
<1> QED
  BY <1>1, <1>2, <1>3, <1>4, <1>5, <1>6, <1>7, <1>8, <1>9, <1>10, <1>11, <1>12
     DEF Next, Boot, Retry

(* A step of the boot, of an adapter, of the clock or of the shutdown moves  *)
(* no pass; it queues a platform at most that has just been lost.            *)
LEMMA OutsideStep ==
    ASSUME TypeOK, Apart, ~ overlap',
           \/ \E p \in Platforms : Boot(p) \/ BootedDies(p) \/ FreshDies(p) \/ Disconnects(p)
           \/ TimePasses \/ Booted \/ ShutdownBegins \/ IngressStopped \/ WatcherStops
    PROVE  Apart'
<1>0. /\ pass \in [Passes -> Visit] /\ row \in Rows
      /\ boot \in [Platforms -> {"no", "up", "off", "down"}]
      /\ fresh \in [Platforms -> Nat]
  BY ReconnectAssumption DEF TypeOK, Visit, Rows
<1>1. ASSUME NEW p \in Platforms, BootConnects(p) \/ BootDisables(p) \/ Disconnects(p)
      PROVE  Apart'
  BY <1>0, <1>1 DEF BootConnects, BootDisables, Disconnects, Apart, OnePass, InHandVacant,
     QueuedVacant, BootedAlone, FewFresh, Vacant, Waiting, Queued
<1>2. ASSUME NEW p \in Platforms, BootFails(p) \/ BootedDies(p) PROVE Apart'
  <2>1. /\ boot' = [boot EXCEPT ![p] = "down"] /\ UNCHANGED <<phase, fresh>>
        /\ boot[p] \in {"no", "up"}
        /\ \A q \in Platforms : q # p => row'[q] = row[q]
        /\ \A k \in Passes : /\ pass'[k].at = pass[k].at
                             /\ pass[k] = Idle => pass'[k] = Idle
    BY <1>0, <1>2, PassedType DEF BootFails, BootedDies, Enqueue, Rows
  <2> QED
    BY <1>0, <2>1 DEF Apart, OnePass, InHandVacant, QueuedVacant, BootedAlone, FewFresh,
       Vacant, Waiting, Queued
<1>3. ASSUME NEW p \in Platforms, FreshDies(p) PROVE Apart'
  BY <1>0, <1>3 DEF FreshDies, Apart, OnePass, InHandVacant, QueuedVacant, BootedAlone,
     FewFresh, Vacant, Waiting, Queued
<1>4. CASE TimePasses
  <2>1. \A p \in Platforms : row[p] = NoRow => row'[p] = NoRow
    BY <1>0, <1>4 DEF TimePasses, NoRow, Rows
  <2> QED
    BY <1>0, <1>4, <2>1 DEF TimePasses, Apart, OnePass, InHandVacant, QueuedVacant,
       BootedAlone, FewFresh, Vacant, Waiting, Queued
<1>5. CASE Booted \/ ShutdownBegins \/ IngressStopped \/ WatcherStops
  BY <1>5 DEF Booted, ShutdownBegins, IngressStopped, WatcherStops, Apart, OnePass,
     InHandVacant, QueuedVacant, BootedAlone, FewFresh, Vacant, Waiting, Queued
<1> QED
  BY <1>1, <1>2, <1>3, <1>4, <1>5 DEF Boot

(* A pass begins alone, and takes queued platforms in hand. *)
LEMMA BeginStep ==
    ASSUME TypeOK, Apart, ~ overlap', NEW k \in Passes, PassBegins(k)
    PROVE  Apart'
<1>0. pass \in [Passes -> Visit] /\ row \in Rows
  BY DEF TypeOK, Visit, Rows
<1>1. /\ pass' \in [Passes -> Visit]
      /\ \A j \in Passes : j # k => pass'[j] = pass[j]
      /\ pass'[k] = Idle \/ \E p \in Due : row[p] # NoRow /\ pass'[k].at = p
  BY <1>0, ProceedsType DEF PassBegins, Due
<1>2. pass'[k] # Idle => \A j \in Passes : pass[j] = Idle
  BY <1>1 DEF PassBegins
<1>3. \A p \in Platforms : ~ (Idle.at = p)
  BY ReconnectAssumption DEF Idle, None
<1>4. OnePass'
  BY <1>1, <1>2 DEF OnePass, Apart
<1>5. InHandVacant'
  BY <1>1, <1>3 DEF InHandVacant, QueuedVacant, Apart, PassBegins, Vacant, Waiting, Queued, Due
<1>6. (QueuedVacant /\ BootedAlone /\ FewFresh)'
  BY DEF PassBegins, Apart, QueuedVacant, BootedAlone, FewFresh, Vacant, Queued
<1> QED
  BY <1>4, <1>5, <1>6 DEF Apart

(* The attempt in hand ends: the platform it was about has one fresh         *)
(* instance and no row, or no instance and a row.                            *)
LEMMA AttemptStep ==
    ASSUME TypeOK, Apart, ~ overlap', NEW k \in Passes, NEW p \in Platforms,
           Connects(k, p) \/ ConnectFails(k, p)
    PROVE  Apart'
<1>0. /\ pass \in [Passes -> Visit] /\ row \in Rows
      /\ fresh \in [Platforms -> Nat]
      /\ pass[k].todo \in SUBSET Platforms /\ pass[k].tries + 1 \in Nat \ {0}
  BY ReconnectAssumption DEF TypeOK, Visit, Rows
<1>1. \A q \in Platforms : ~ (Idle.at = q)
  BY ReconnectAssumption DEF Idle, None
<1>2. Vacant(p) /\ Waiting(k, p) /\ \A j \in Passes : j # k => pass[j] = Idle
  BY <1>1 DEF Connects, ConnectFails, Apart, InHandVacant, OnePass, Waiting
<1>3. /\ row' \in Rows
      /\ \A q \in Platforms : q # p => row'[q] = row[q] /\ fresh'[q] = fresh[q]
      /\ phase # "stopped" /\ row'[p] # NoRow => fresh'[p] = 0
      /\ fresh'[p] \in {0, 1}
      /\ UNCHANGED <<phase, boot>>
  <2>1. CASE Connects(k, p)
    BY <1>0, <1>2, <2>1 DEF Connects, Vacant, Rows, NoRow
  <2>2. CASE ConnectFails(k, p)
    BY <1>0, <1>2, <2>2, RowType DEF ConnectFails, Enqueue, Vacant, Rows
  <2> QED
    BY <2>1, <2>2
<1>4. /\ \A j \in Passes : j # k => pass'[j] = Idle
      /\ \/ pass'[k] = Idle
         \/ phase # "stopped" /\ \E q \in Platforms : row'[q] # NoRow /\ pass'[k].at = q
  <2>1. CASE phase = "stopped"
    <3>1. pass' = [pass EXCEPT ![k] = Idle]
      BY <2>1 DEF Connects, ConnectFails
    <3> QED
      BY <1>0, <1>2, <3>1
  <2>2. CASE phase # "stopped" /\ Connects(k, p)
    <3>1. Proceeds(k, pass, pass[k].todo, row')
      BY <2>2 DEF Connects
    <3> QED
      BY <1>0, <1>2, <1>3, <2>2, <3>1, ProceedsType
  <2>3. CASE phase # "stopped" /\ ConnectFails(k, p)
    <3>1. Proceeds(k, Passed(pass, p), pass[k].todo \ {p}, row')
      BY <2>3 DEF ConnectFails
    <3> QED
      BY <1>0, <1>2, <1>3, <2>3, <3>1, PassedType, ProceedsType
  <2> QED
    BY <2>1, <2>2, <2>3
<1>5. OnePass'
  BY <1>4 DEF OnePass
<1>6. QueuedVacant'
  BY <1>2, <1>3 DEF QueuedVacant, Apart, Queued, Vacant
<1>7. InHandVacant'
  BY <1>1, <1>3, <1>4, <1>6 DEF InHandVacant, QueuedVacant, Waiting, Queued
<1>8. (BootedAlone /\ FewFresh)'
  BY <1>2, <1>3 DEF BootedAlone, FewFresh, Apart, Vacant
<1> QED
  BY <1>5, <1>6, <1>7, <1>8 DEF Apart

(* Apart holds as long as no pass has overlapped another, for any number of  *)
(* platforms and passes (reconnect-watcher.ts, lifecycle.ts).                *)
THEOREM InvHolds == Spec => []Inv
<1>1. Init => Inv
  <2> SUFFICES ASSUME Init PROVE TypeOK /\ Apart
    BY DEF Inv
  <2>1. \A p \in Platforms : ~ (Idle.at = p)
    BY ReconnectAssumption DEF Idle, None
  <2>2. TypeOK
    <3>1. pass \in [Passes -> Visit] /\ row \in Rows
      BY IdleType DEF Init, NoRow, Rows
    <3>2. fresh \in [Platforms -> 0 .. MaxFresh] /\ arm \in 0 .. Interval + Initial
      BY ReconnectAssumption DEF Init
    <3> QED
      BY <3>1, <3>2 DEF Init, TypeOK, Visit, Rows
  <2>3. OnePass /\ InHandVacant /\ QueuedVacant /\ BootedAlone /\ FewFresh
    BY <2>1 DEF Init, OnePass, InHandVacant, QueuedVacant, BootedAlone, FewFresh,
       Waiting, Queued
  <2> QED
    BY <2>2, <2>3 DEF Apart
<1>2. Inv /\ [Next]_vars => Inv'
  <2> SUFFICES ASSUME Inv, [Next]_vars, ~ overlap' PROVE Apart'
    BY TypeStep DEF Inv
  <2>1. overlap => overlap'
    BY DEF Next, vars, Boot, Retry, BootConnects, BootFails, BootDisables, BootedDies,
       FreshDies, Disconnects, PassBegins, Connects, ConnectFails, TimePasses, Booted,
       ShutdownBegins, IngressStopped, WatcherStops
  <2>2. TypeOK /\ Apart
    BY <2>1 DEF Inv
  <2>3. CASE UNCHANGED vars
    BY <2>2, <2>3 DEF vars, Apart, OnePass, InHandVacant, QueuedVacant, BootedAlone,
       FewFresh, Vacant, Waiting, Queued
  <2>4. CASE Next
    BY <2>2, <2>4, OutsideStep, BeginStep, AttemptStep DEF Next, Retry
  <2> QED
    BY <2>3, <2>4
<1> QED
  BY <1>1, <1>2, PTL DEF Spec

(* A platform has one live instance or one that connects, and is queued only *)
(* while it has none, as long as no pass has overlapped another: two         *)
(* adapters never poll with one credential, whatever fails, dies, is stopped *)
(* or comes late (passOnce, startOne, onRuntimeFatal).                       *)
THEOREM OneConsumerHolds == Spec => []OneConsumer
<1>1. Inv => OneConsumer
  <2> SUFFICES ASSUME Inv, ~ overlap, NEW p \in Platforms
               PROVE  /\ ~ (boot[p] = "up" /\ fresh[p] > 0) /\ fresh[p] < 2
                      /\ Cardinality(Connecting(p)) < 2
                      /\ Live(p) /\ phase # "stopped" => ~ Queued(p) /\ Connecting(p) = {}
    BY DEF Inv, OneConsumer
  <2>1. Apart
    BY DEF Inv
  <2>2. Cardinality(Connecting(p)) < 2
    <3>1. \A k \in Connecting(p) : pass[k] # Idle
      BY ReconnectAssumption DEF Connecting, Waiting, Idle, None
    <3>2. \A j, k \in Connecting(p) : j = k
      BY <2>1, <3>1 DEF Connecting, Apart, OnePass
    <3>3. CASE Connecting(p) = {}
      BY <3>3, FS_EmptySet
    <3>4. CASE Connecting(p) # {}
      <4>1. PICK k \in Connecting(p) : TRUE
        BY <3>4
      <4>2. Connecting(p) = {k}
        BY <3>2, <4>1
      <4> QED
        BY <4>2, FS_Singleton, Cardinality({k}) = 1
    <3> QED
      BY <3>3, <3>4
  <2>3. Live(p) => ~ Vacant(p)
    BY DEF Live, Vacant
  <2> QED
    BY <2>1, <2>2, <2>3 DEF Inv, TypeOK, Apart, InHandVacant, QueuedVacant, BootedAlone, FewFresh,
       Connecting
<1> QED
  BY <1>1, InvHolds, PTL

----------------------------------------------------------------------------
(* THE INTAKE *)

(* Sequences of updates *)

\* The updates of a sequence, and where they stand.
LEMMA UpdatesOf ==
  ASSUME NEW q \in Seq(Update)
  PROVE  /\ ToSet(q) = {q[i] : i \in 1..Len(q)} /\ ToSet(q) \subseteq Update
         /\ \A i \in 1..Len(q) : q[i] \in ToSet(q)
         /\ \A u \in ToSet(q) : \E i \in 1..Len(q) : u = q[i]
  BY DEF ToSet

\* A concatenation holds the updates of its parts.
LEMMA Joined ==
  ASSUME NEW p \in Seq(Update), NEW q \in Seq(Update)
  PROVE  p \o q \in Seq(Update) /\ ToSet(p \o q) = ToSet(p) \cup ToSet(q)
<1> DEFINE r == p \o q
<1>1. /\ r \in Seq(Update) /\ Len(r) = Len(p) + Len(q) /\ Len(p) \in Nat /\ Len(q) \in Nat
      /\ \A i \in 1..Len(p) : r[i] = p[i]
      /\ \A i \in 1..Len(q) : r[Len(p) + i] = q[i]
  OBVIOUS
<1>2. \A i \in 1..Len(r) : i \in 1..Len(p) \/ \E j \in 1..Len(q) : i = Len(p) + j
  <2> TAKE i \in 1..Len(r)
  <2>1. CASE i > Len(p)
    <3>1. i - Len(p) \in 1..Len(q) /\ i = Len(p) + (i - Len(p))
      BY <1>1, <2>1
    <3> QED BY <3>1
  <2> QED BY <1>1, <2>1
<1> HIDE DEF r
<1>3. \A i \in 1..Len(r) : r[i] \in ToSet(p) \cup ToSet(q)
  <2> TAKE i \in 1..Len(r)
  <2>1. CASE i \in 1..Len(p)
    BY <1>1, <2>1, UpdatesOf
  <2>2. ASSUME NEW j \in 1..Len(q), i = Len(p) + j PROVE r[i] \in ToSet(q)
    BY <1>1, <2>2, UpdatesOf
  <2> QED BY <1>2, <2>1, <2>2
<1>4. \A i \in 1..Len(p) : p[i] \in ToSet(r)
  <2> TAKE i \in 1..Len(p)
  <2>1. i \in 1..Len(r) /\ r[i] = p[i]
    BY <1>1
  <2> QED BY <2>1, <1>1, UpdatesOf
<1>5. \A i \in 1..Len(q) : q[i] \in ToSet(r)
  <2> TAKE i \in 1..Len(q)
  <2>1. Len(p) + i \in 1..Len(r) /\ r[Len(p) + i] = q[i]
    BY <1>1
  <2> QED BY <2>1, <1>1, UpdatesOf
<1>6. ToSet(r) \subseteq ToSet(p) \cup ToSet(q)
  BY <1>1, <1>3, UpdatesOf
<1>7. ToSet(p) \subseteq ToSet(r) /\ ToSet(q) \subseteq ToSet(r)
  BY <1>4, <1>5, UpdatesOf
<1> QED BY <1>1, <1>6, <1>7 DEF r

\* A sequence holds its first update and those of its tail.
LEMMA HeadAndTail ==
  ASSUME NEW q \in Seq(Update), q # <<>>
  PROVE  /\ Head(q) \in Update /\ Tail(q) \in Seq(Update)
         /\ ToSet(q) = {Head(q)} \cup ToSet(Tail(q))
<1> DEFINE r == Tail(q)
<1>1. /\ r \in Seq(Update) /\ Len(q) = Len(r) + 1 /\ Len(r) \in Nat
      /\ Head(q) = q[1] /\ Head(q) \in Update
      /\ \A i \in 1..Len(r) : r[i] = q[i + 1]
  OBVIOUS
<1>2. \A i \in 1..Len(q) : i = 1 \/ \E j \in 1..Len(r) : i = j + 1
  <2> TAKE i \in 1..Len(q)
  <2>1. CASE i # 1
    <3>1. i - 1 \in 1..Len(r) /\ i = (i - 1) + 1
      BY <1>1, <2>1
    <3> QED BY <3>1
  <2> QED BY <2>1
<1> HIDE DEF r
<1>3. \A i \in 1..Len(q) : q[i] \in {Head(q)} \cup ToSet(r)
  BY <1>1, <1>2, UpdatesOf
<1>4. Head(q) \in ToSet(q)
  BY <1>1, UpdatesOf
<1>5. \A i \in 1..Len(r) : r[i] \in ToSet(q)
  BY <1>1, UpdatesOf
<1>6. ToSet(q) \subseteq {Head(q)} \cup ToSet(r)
  BY <1>3, UpdatesOf
<1>7. ToSet(r) \subseteq ToSet(q)
  BY <1>1, <1>5, UpdatesOf
<1> QED BY <1>1, <1>4, <1>6, <1>7 DEF r

\* What holdInbound keeps of a sequence of updates, and what it gives up.
Kept(h) == SubSeq(h, Overflow(h) + 1, Len(h))
GivenUp(h) == SubSeq(h, 1, Overflow(h))

\* Of what holdInbound is given every update is kept or given up, and the queue stays in its bound.
LEMMA KeptOrGivenUp ==
  ASSUME NEW h \in Seq(Update)
  PROVE  /\ Kept(h) \in Seq(Update) /\ Len(Kept(h)) <= HeldMax
         /\ GivenUp(h) \in Seq(Update)
         /\ ToSet(h) = ToSet(Kept(h)) \cup ToSet(GivenUp(h))
<1> USE PollingAssumption
<1> DEFINE k == Overflow(h)
           old == SubSeq(h, 1, k)
           new == SubSeq(h, k + 1, Len(h))
<1>1. k \in 0..Len(h) /\ Len(h) - k <= HeldMax /\ Len(h) \in Nat /\ k + 1 \in 1..Len(h) + 1
  BY DEF Overflow
<1> HIDE DEF k
<1>2. old \in Seq(Update) /\ Len(old) = k /\ \A i \in 1..k : old[i] = h[i]
  <2>1. 1 \in 1..Len(h) + 1 /\ k \in 0..Len(h)
    BY <1>1
  <2> QED BY <2>1, <1>1, SubSeqProperties
<1>3. new \in Seq(Update) /\ Len(new) = Len(h) - k /\ \A i \in 1..Len(h) - k : new[i] = h[k + i]
  BY <1>1, SubSeqProperties
<1> HIDE DEF old, new
<1>4. \A i \in 1..Len(h) : i \in 1..k \/ \E j \in 1..Len(h) - k : i = k + j
  <2> TAKE i \in 1..Len(h)
  <2>1. CASE i > k
    <3>1. i - k \in 1..Len(h) - k /\ i = k + (i - k)
      BY <1>1, <2>1
    <3> QED BY <3>1
  <2> QED BY <1>1, <2>1
<1>5. \A i \in 1..Len(h) : h[i] \in ToSet(old) \cup ToSet(new)
  <2> TAKE i \in 1..Len(h)
  <2>1. CASE i \in 1..k
    BY <1>2, <2>1, UpdatesOf
  <2>2. ASSUME NEW j \in 1..Len(h) - k, i = k + j PROVE h[i] \in ToSet(new)
    BY <1>3, <2>2, UpdatesOf
  <2> QED BY <1>4, <2>1, <2>2
<1>6. \A i \in 1..k : old[i] \in ToSet(h)
  BY <1>1, <1>2, UpdatesOf
<1>7. \A i \in 1..Len(h) - k : new[i] \in ToSet(h)
  BY <1>1, <1>3, UpdatesOf
<1>8. ToSet(h) \subseteq ToSet(old) \cup ToSet(new)
  BY <1>5, UpdatesOf
<1>9. ToSet(old) \subseteq ToSet(h)
  BY <1>2, <1>6, UpdatesOf
<1>10. ToSet(new) \subseteq ToSet(h)
  BY <1>3, <1>7, UpdatesOf
<1> QED BY <1>1, <1>2, <1>3, <1>8, <1>9, <1>10 DEF old, new, k, Kept, GivenUp

----------------------------------------------------------------------------
(* The inductive invariant *)

LoopPcs == {"top", "polling", "answered", "each", "sleep", "end"}
LoopState == [pc : LoopPcs, batch : Seq(Update), drop : BOOLEAN]

\* The loops that sleep off a conflict; each will ask for a new generation.
Sleepers == {g \in Generation : loop[g].pc = "sleep"}
Count(b) == IF b THEN 1 ELSE 0

\* Every generation after the first was asked for by a fault, or by the
\* fresh instance.
Generations == gen + Count(recovering) + Cardinality(Sleepers) <= 1 + faults + Count(reborn)

\* A batch that is not committed is what followed some offset of the past.
BatchFits(g) == loop[g].pc = "answered" =>
    \E lo \in 0..acked, n \in Nat :
        lo + n <= sent /\ loop[g].batch = [i \in 1..n |-> lo + i]

\* A generation still to come has not begun.
NotYet(g) == g > gen => loop[g] = Ended

\* The committed updates that are in somebody's hands.
Handled(u) ==
    \/ \E g \in Generation : loop[g].pc = "each" /\ u \in ToSet(loop[g].batch)
    \/ u \in ToSet(held) \/ u \in ToSet(drain.events)
Reached(u) == u <= acked \/ u < floor
Covered(u) == Reached(u) => Settled(u) \/ Handled(u)

Bounds == floor <= sent + 1 /\ (~ fatal => conflicts <= MaxConflicts)

PollingInv ==
    /\ PollingTypeOK /\ Bounds /\ Generations
    /\ \A g \in Generation : BatchFits(g) /\ NotYet(g)
    /\ \A u \in Update : Covered(u)

\* What a step may do to the updates: none that was settled or in hand is
\* lost, and those it reaches anew are settled or in hand at its end.
Keeps == \A u \in Update :
    /\ Settled(u) => Settled(u)'
    /\ Handled(u) => Handled(u)' \/ Settled(u)'
    /\ Reached(u)' => Reached(u) \/ Handled(u)' \/ Settled(u)'

\* What a step may do to a loop short of an answer: leave it, or move a
\* generation that has begun.
Moves == \A g \in Generation :
    loop'[g] = loop[g] \/ (g <= gen' /\ loop'[g].pc # "answered")

USE PollingAssumption

\* What the types of the variables say, with the constants unfolded.
LEMMA Ranges ==
  ASSUME PollingTypeOK
  PROVE  /\ sent \in Nat /\ sent <= N /\ acked \in Nat /\ acked <= sent /\ floor \in Nat
         /\ gen \in Nat /\ faults \in Nat /\ faults <= MaxFaults /\ conflicts \in Nat
         /\ 1 <= floor /\ floor <= N + 1 /\ 1 <= gen
         /\ loop \in [Generation -> LoopState]
         /\ held \in Seq(Update) /\ drain \in [on : BOOLEAN, events : Seq(Update)]
         /\ N \in Nat /\ MaxFaults \in Nat
  BY DEF PollingTypeOK, LoopState, LoopPcs, Generation

\* A loop has fields of its own, and a step moves one loop by writing its fields.
LEMMA LoopFields ==
  ASSUME PollingTypeOK, NEW g \in Generation
  PROVE  /\ loop[g] \in LoopState /\ loop[g].pc \in LoopPcs
         /\ loop[g].batch \in Seq(Update) /\ loop[g].drop \in BOOLEAN
<1>1. loop[g] \in LoopState
  BY Ranges
<1> QED BY <1>1 DEF LoopState

\* The redispatch pass has its two fields.
LEMMA DrainFields ==
  ASSUME PollingTypeOK
  PROVE  drain.on \in BOOLEAN /\ drain.events \in Seq(Update)
  BY Ranges

Put(g, l, q) ==
    /\ loop' \in [Generation -> LoopState]
    /\ loop'[g].pc = l /\ loop'[g].batch = q
    /\ \A h \in Generation \ {g} : loop'[h] = loop[h]

\* A step that writes a loop puts it where it says and leaves the others.
LEMMA Puts ==
  ASSUME PollingTypeOK, NEW g \in Generation, NEW s \in LoopState,
         loop' = [loop EXCEPT ![g] = s]
  PROVE  Put(g, s.pc, s.batch)
<1>1. loop \in [Generation -> LoopState]
  BY Ranges
<1>2. loop' \in [Generation -> LoopState]
  BY <1>1
<1> QED BY <1>1, <1>2 DEF Put

\* Goto moves a loop and leaves its batch.
LEMMA Going ==
  ASSUME PollingTypeOK, NEW g \in Generation, NEW l \in LoopPcs, Goto(g, l)
  PROVE  Put(g, l, loop[g].batch)
<1> DEFINE s == [loop[g] EXCEPT !.pc = l]
<1>1. s \in LoopState /\ s.pc = l /\ s.batch = loop[g].batch
  BY LoopFields DEF LoopState
<1>2. loop' = [loop EXCEPT ![g] = s]
  BY DEF Goto
<1> HIDE DEF s
<1> QED BY <1>1, <1>2, Puts

\* A loop that ends has no batch.
LEMMA Ending ==
  ASSUME PollingTypeOK, NEW g \in Generation, loop' = [loop EXCEPT ![g] = Ended]
  PROVE  Put(g, "end", <<>>)
<1>1. Ended \in LoopState /\ Ended.pc = "end" /\ Ended.batch = <<>>
  BY DEF Ended, LoopState, LoopPcs
<1> QED BY <1>1, Puts

\* A step that writes the batch of a loop leaves it where it is.
LEMMA NewBatch ==
  ASSUME PollingTypeOK, NEW g \in Generation, NEW q \in Seq(Update),
         loop' = [loop EXCEPT ![g].batch = q]
  PROVE  Put(g, loop[g].pc, q)
<1> DEFINE s == [loop[g] EXCEPT !.batch = q]
<1>1. s \in LoopState /\ s.pc = loop[g].pc /\ s.batch = q
  BY LoopFields DEF LoopState
<1>2. loop' = [loop EXCEPT ![g] = s]
  OBVIOUS
<1> HIDE DEF s
<1> QED BY <1>1, <1>2, Puts

----------------------------------------------------------------------------
(* The parts of the invariant *)

\* A loop that is not over belongs to a generation that has begun.
LEMMA Begun ==
  ASSUME PollingInv, NEW g \in Generation, loop[g].pc # "end"
  PROVE  g <= gen
<1>1. g \in Nat /\ gen \in Nat
  BY Ranges DEF PollingInv, Generation
<1>2. Ended.pc = "end"
  BY DEF Ended
<1> QED BY <1>1, <1>2 DEF PollingInv, NotYet

\* There are finitely many sleepers.
LEMMA SleepersAreFew ==
  IsFiniteSet(Sleepers) /\ Cardinality(Sleepers) \in Nat
<1>1. IsFiniteSet(Generation)
  BY FS_Interval DEF Generation
<1>2. Sleepers \subseteq Generation
  BY DEF Sleepers
<1> QED BY <1>1, <1>2, FS_Subset, FS_CardinalityType

\* The sleepers of the next state, for the three ways in which a step changes them.
LEMMA NoNewSleeper ==
  ASSUME \A g \in Generation : loop'[g].pc = "sleep" => loop[g].pc = "sleep"
  PROVE  Cardinality(Sleepers)' \in Nat /\ Cardinality(Sleepers)' <= Cardinality(Sleepers)
<1>1. Sleepers' \subseteq Sleepers
  BY DEF Sleepers
<1> QED BY <1>1, SleepersAreFew, FS_Subset, FS_CardinalityType

\* One loop that falls asleep is one sleeper more at most.
LEMMA OneMoreSleeper ==
  ASSUME NEW g \in Generation,
         \A h \in Generation : loop'[h].pc = "sleep" => h = g \/ loop[h].pc = "sleep"
  PROVE  Cardinality(Sleepers)' \in Nat /\ Cardinality(Sleepers)' <= Cardinality(Sleepers) + 1
<1> DEFINE more == Sleepers \cup {g}
<1>1. Sleepers' \subseteq more
  BY DEF Sleepers
<1>2. /\ IsFiniteSet(more) /\ Cardinality(more) \in Nat
      /\ Cardinality(more) <= Cardinality(Sleepers) + 1
  <2>1. CASE g \in Sleepers
    <3>1. more = Sleepers
      BY <2>1
    <3> QED BY <3>1, SleepersAreFew
  <2>2. CASE g \notin Sleepers
    BY <2>2, SleepersAreFew, FS_AddElement
  <2> QED BY <2>1, <2>2
<1> HIDE DEF more
<1> QED BY <1>1, <1>2, SleepersAreFew, FS_Subset, FS_CardinalityType

\* One loop that wakes is one sleeper less.
LEMMA OneSleeperLess ==
  ASSUME NEW g \in Generation, loop[g].pc = "sleep",
         \A h \in Generation : loop'[h].pc = "sleep" => h # g /\ loop[h].pc = "sleep"
  PROVE  /\ Cardinality(Sleepers)' \in Nat
         /\ Cardinality(Sleepers)' + 1 <= Cardinality(Sleepers)
<1> DEFINE less == Sleepers \ {g}
<1>1. Sleepers' \subseteq less
  BY DEF Sleepers
<1>2. g \in Sleepers
  BY DEF Sleepers
<1>3. IsFiniteSet(less) /\ Cardinality(less) = Cardinality(Sleepers) - 1
  BY <1>2, SleepersAreFew, FS_RemoveElement
<1> HIDE DEF less
<1>4. Cardinality(Sleepers') <= Cardinality(less) /\ Cardinality(Sleepers') \in Nat
  BY <1>1, <1>3, FS_Subset, FS_CardinalityType
<1> QED BY <1>3, <1>4, SleepersAreFew

\* A step that keeps the updates, moves no loop that has not begun and starts no
\* batch keeps the invariant, if it keeps the types, the bounds and the count.
LEMMA MovesKeeps ==
  ASSUME PollingInv, PollingTypeOK', Generations', Bounds', Moves, Keeps,
         sent <= sent', acked <= acked', gen <= gen'
  PROVE  PollingInv'
<1>1. ASSUME NEW g \in Generation PROVE BatchFits(g)'
  <2> SUFFICES ASSUME loop'[g].pc = "answered" PROVE BatchFits(g)'
    BY DEF BatchFits
  <2>1. loop'[g] = loop[g]
    BY DEF Moves
  <2>2. PICK lo \in 0..acked, n \in Nat :
           lo + n <= sent /\ loop[g].batch = [i \in 1..n |-> lo + i]
    BY <2>1 DEF PollingInv, BatchFits
  <2>3. sent \in Nat /\ sent' \in Nat /\ acked \in Nat /\ acked' \in Nat
    BY Ranges DEF PollingInv, PollingTypeOK
  <2>4. lo \in 0..acked' /\ lo + n <= sent'
    BY <2>2, <2>3
  <2> QED BY <2>1, <2>2, <2>4 DEF BatchFits
<1>2. ASSUME NEW g \in Generation PROVE NotYet(g)'
  <2> SUFFICES ASSUME g > gen' PROVE loop'[g] = Ended
    BY DEF NotYet
  <2>1. g \in Nat /\ gen \in Nat /\ gen' \in Nat
    BY DEF PollingInv, PollingTypeOK, Generation
  <2>2. loop'[g] = loop[g] /\ g > gen
    BY <2>1 DEF Moves
  <2> QED BY <2>2 DEF PollingInv, NotYet
<1>3. ASSUME NEW u \in Update PROVE Covered(u)'
  BY DEF PollingInv, Covered, Keeps
<1> QED BY <1>1, <1>2, <1>3 DEF PollingInv

----------------------------------------------------------------------------
(* What the operators of the actions do *)

InLoops(u) == \E g \in Generation : loop[g].pc = "each" /\ u \in ToSet(loop[g].batch)

\* What another loop has in hand stays there.
LEMMA Elsewhere ==
  ASSUME NEW g \in Generation, NEW l, NEW q, Put(g, l, q), NEW u, InLoops(u),
         ~ (loop[g].pc = "each" /\ u \in ToSet(loop[g].batch))
  PROVE  InLoops(u)'
<1>1. PICK h \in Generation : loop[h].pc = "each" /\ u \in ToSet(loop[h].batch)
  BY DEF InLoops
<1>2. h # g
  BY <1>1
<1>3. loop'[h] = loop[h]
  BY <1>2 DEF Put
<1> QED BY <1>1, <1>3 DEF InLoops

\* What a loop at "each" has in its batch is in hand.
LEMMA Here ==
  ASSUME NEW g \in Generation, NEW q, Put(g, "each", q), NEW u \in ToSet(q)
  PROVE  InLoops(u)'
  BY DEF Put, InLoops

\* The hands are the loops, the queue and the redispatch pass.
LEMMA HandsAre == \A u : Handled(u) <=> InLoops(u) \/ u \in ToSet(held) \/ u \in ToSet(drain.events)
  BY DEF Handled, InLoops

\* A dispatch settles its update and unsettles none.
LEMMA DispatchEffect ==
  ASSUME PollingTypeOK, NEW u \in Update, Dispatched(u)
  PROVE  /\ times' \in [Update -> Nat] /\ times'[u] > 0
         /\ \A v \in Update : times[v] > 0 => times'[v] > 0
         /\ turned' \subseteq Update
<1>1. times \in [Update -> Nat] /\ turned \subseteq Update
  BY DEF PollingTypeOK
<1>2. times' \in [Update -> Nat]
  BY <1>1 DEF Dispatched
<1>3. times'[u] > 0
  BY <1>1 DEF Dispatched
<1>4. \A v \in Update : times[v] > 0 => times'[v] > 0
  BY <1>1 DEF Dispatched
<1>5. turned' \subseteq Update
  BY <1>1 DEF Dispatched
<1> QED BY <1>2, <1>3, <1>4, <1>5

\* An update that goes to the queue is held or given up in the next state.
LEMMA GivenUpEffect ==
  ASSUME PollingTypeOK, NEW us \in Seq(Update),
         held' = Kept(held \o us), discarded' = discarded \cup ToSet(GivenUp(held \o us))
  PROVE  /\ held' \in Seq(Update) /\ Len(held') <= HeldMax
         /\ discarded' \subseteq Update /\ discarded \subseteq discarded'
         /\ \A u \in ToSet(held) \cup ToSet(us) : u \in discarded' \/ u \in ToSet(held')
<1> DEFINE all == held \o us
<1>1. held \in Seq(Update) /\ discarded \subseteq Update
  BY DEF PollingTypeOK
<1>2. all \in Seq(Update) /\ ToSet(all) = ToSet(held) \cup ToSet(us)
  BY <1>1, Joined
<1>3. held' = Kept(all) /\ discarded' = discarded \cup ToSet(GivenUp(all))
  OBVIOUS
<1> HIDE DEF all
<1>4. /\ Kept(all) \in Seq(Update) /\ Len(Kept(all)) <= HeldMax /\ GivenUp(all) \in Seq(Update)
      /\ ToSet(all) = ToSet(Kept(all)) \cup ToSet(GivenUp(all))
  BY <1>2, KeptOrGivenUp
<1>5. ToSet(GivenUp(all)) \subseteq Update
  BY <1>4, UpdatesOf
<1> QED BY <1>1, <1>2, <1>3, <1>4, <1>5

\* So is one that holdInbound takes, whether the adapter is fatal or not.
LEMMA HoldsEffect ==
  ASSUME PollingTypeOK, NEW us \in Seq(Update),
         NEW d \in [on : BOOLEAN, events : Seq(Update)], Holds(us, d)
  PROVE  /\ held' \in Seq(Update) /\ Len(held') <= HeldMax
         /\ drain' \in [on : BOOLEAN, events : Seq(Update)] /\ drain'.events = d.events
         /\ discarded' \subseteq Update /\ discarded \subseteq discarded'
         /\ \A u \in ToSet(held) \cup ToSet(us) : u \in discarded' \/ u \in ToSet(held')
<1>1. CASE fatal
  <2>1. held' = held /\ drain' = d /\ discarded' = discarded \cup ToSet(us)
    BY <1>1, Zenon DEF Holds
  <2>2. /\ held \in Seq(Update) /\ Len(held) <= HeldMax /\ discarded \subseteq Update
        /\ ToSet(us) \subseteq Update
    BY UpdatesOf DEF PollingTypeOK
  <2> QED BY <2>1, <2>2
<1>2. CASE ~ fatal
  <2>1. /\ held' = Kept(held \o us) /\ discarded' = discarded \cup ToSet(GivenUp(held \o us))
        /\ drain' = [d EXCEPT !.on = TRUE]
    BY <1>2, Zenon DEF Holds, Kept, GivenUp
  <2>2. drain' \in [on : BOOLEAN, events : Seq(Update)] /\ drain'.events = d.events
    BY <2>1
  <2> QED BY <2>1, <2>2, GivenUpEffect
<1> QED BY <1>1, <1>2

\* A step that leaves the offsets and the hands alone keeps every update.
LEMMA SameOffsets ==
  ASSUME UNCHANGED <<acked, floor>>,
         \A u \in Update : Settled(u) => Settled(u)',
         \A u \in Update : Handled(u) => Handled(u)' \/ Settled(u)'
  PROVE  Keeps
  BY DEF Keeps, Reached

\* A loop that has no committed batch may move without harm.
LEMMA NothingInHand ==
  ASSUME NEW g \in Generation, NEW l, NEW q, Put(g, l, q), loop[g].pc # "each",
         UNCHANGED <<held, drain>>, NEW u, Handled(u)
  PROVE  Handled(u)'
<1>1. CASE InLoops(u)
  BY <1>1, Elsewhere, HandsAre, Zenon DEF InLoops, Handled
<1> QED BY <1>1, HandsAre DEF Handled

\* A loop that is not over may move, since its generation has begun.
LEMMA MovesBegun ==
  ASSUME PollingInv, NEW g \in Generation, NEW l, NEW q, Put(g, l, q),
         loop[g].pc # "end", l # "answered", gen \in Nat, gen' \in Nat, gen <= gen'
  PROVE  Moves
<1>1. g <= gen' 
  BY Begun DEF Generation
<1> QED BY <1>1 DEF Moves, Put

\* The same for a step that starts no generation.
LEMMA MovesNow ==
  ASSUME PollingInv, NEW g \in Generation, NEW l, NEW q, Put(g, l, q),
         loop[g].pc # "end", l # "answered", gen' = gen
  PROVE  Moves
<1>1. gen \in Nat /\ gen' \in Nat /\ gen <= gen'
  BY Ranges DEF PollingInv
<1> QED BY <1>1, MovesBegun

\* The count of the generations in numbers.
LEMMA Budget ==
  ASSUME PollingInv
  PROVE  /\ gen + Count(recovering) + Cardinality(Sleepers) <= 1 + faults + Count(reborn)
         /\ gen \in Nat /\ faults \in Nat /\ Cardinality(Sleepers) \in Nat
         /\ Count(recovering) \in 0..1 /\ Count(reborn) \in 0..1
<1>1. Count(recovering) \in 0..1 /\ Count(reborn) \in 0..1
  BY DEF Count
<1> QED BY <1>1, Ranges, SleepersAreFew DEF PollingInv, Generations

\* A step without a new generation keeps their count.
LEMMA SameGenerations ==
  ASSUME PollingInv, UNCHANGED <<gen, recovering, reborn>>, faults' \in Nat, faults <= faults',
         \A g \in Generation : loop'[g].pc = "sleep" => loop[g].pc = "sleep"
  PROVE  Generations'
<1>1. Cardinality(Sleepers)' \in Nat /\ Cardinality(Sleepers)' <= Cardinality(Sleepers)
  BY NoNewSleeper
<1>2. /\ gen + Count(recovering) + Cardinality(Sleepers) <= 1 + faults + Count(reborn)
      /\ gen \in Nat /\ faults \in Nat /\ Cardinality(Sleepers) \in Nat
  BY Ranges, SleepersAreFew DEF PollingInv, Generations
<1>3. Count(recovering) \in Nat /\ Count(reborn) \in Nat
  BY DEF Count
<1>4. /\ gen' = gen /\ Count(recovering)' = Count(recovering) /\ Count(reborn)' = Count(reborn)
  BY DEF Count
<1> QED BY <1>1, <1>2, <1>3, <1>4 DEF Generations

----------------------------------------------------------------------------
(* The steps *)

\* A user writes: no update is reached by that.
LEMMA SendStep == ASSUME PollingInv, Send PROVE PollingInv'
<1>1. /\ sent < N /\ sent' = sent + 1
      /\ UNCHANGED <<acked, open, client, gen, loop, intake, ladders, faults, history>>
  BY DEF Send
<1>2. PollingTypeOK'
  <2>1. sent' \in 0..N /\ acked' \in 0..sent'
    BY <1>1, Ranges DEF PollingInv
  <2> QED BY <1>1, <2>1
      DEF PollingInv, PollingTypeOK, client, intake, ladders, history
<1>3. Generations'
  BY <1>1, SameGenerations, Ranges DEF PollingInv, ladders
<1>4. Bounds'
  BY <1>1, Ranges DEF PollingInv, Bounds, client, ladders
<1>5. Moves
  BY <1>1 DEF Moves
<1>6. Keeps
  BY <1>1, SameOffsets DEF client, intake, history, Settled, Handled
<1> QED BY <1>1, <1>2, <1>3, <1>4, <1>5, <1>6, MovesKeeps, Ranges DEF PollingInv

\* The steps that only move a loop which holds nothing committed.
LEMMA LoopMoves ==
  ASSUME PollingInv, NEW g \in Generation, NEW l, NEW q, Put(g, l, q),
         loop[g].pc \notin {"end", "each"} \/ (loop[g].pc = "each" /\ loop[g].batch = <<>>),
         l \notin {"answered", "sleep"},
         UNCHANGED <<server, client, gen, intake, ladders, faults, history>>
  PROVE  PollingInv'
<1>1. PollingTypeOK'
  BY DEF PollingInv, PollingTypeOK, Put, LoopState, LoopPcs,
         server, client, intake, ladders, history
<1>2. Generations'
  BY SameGenerations, Ranges DEF PollingInv, Put, ladders
<1>3. Bounds'
  BY DEF PollingInv, Bounds, server, client, ladders
<1>4. Moves
  BY MovesNow
<1>5. ASSUME NEW u \in Update, Handled(u) PROVE Handled(u)'
  <2>1. ToSet(<<>>) = {}
    BY DEF ToSet
  <2>2. ~ (loop[g].pc = "each" /\ u \in ToSet(loop[g].batch))
    BY <2>1
  <2>3. InLoops(u) => InLoops(u)'
    BY <2>2, Elsewhere
  <2> QED BY <1>5, <2>3, HandsAre DEF intake, Handled, InLoops
<1>6. Keeps
  BY <1>5, SameOffsets DEF server, client, history, Settled
<1> QED BY <1>1, <1>2, <1>3, <1>4, <1>6, MovesKeeps, Ranges DEF PollingInv, server

\* A poll that was ended had nothing committed.
LEMMA SupersededStep == ASSUME PollingInv, NEW g \in Generation, Superseded(g) PROVE PollingInv'
<1>1. /\ loop[g].pc = "polling" /\ loop' = [loop EXCEPT ![g] = Ended]
      /\ UNCHANGED <<server, client, gen, intake, ladders, faults, history>>
  BY DEF Superseded
<1>2. Put(g, "end", <<>>)
  BY <1>1, Ending DEF PollingInv
<1> QED BY <1>1, <1>2, LoopMoves

\* A batch that is done has nothing left in hand.
LEMMA BatchDoneStep == ASSUME PollingInv, NEW g \in Generation, BatchDone(g) PROVE PollingInv'
<1>1. /\ loop[g].pc = "each" /\ loop[g].batch = <<>> /\ Goto(g, "top")
      /\ UNCHANGED <<server, client, gen, intake, ladders, faults, history>>
  BY DEF BatchDone
<1>2. Put(g, "top", <<>>)
  BY <1>1, Going DEF PollingInv, LoopPcs
<1> QED BY <1>1, <1>2, LoopMoves

\* The offset of a poll is behind the floor, and so are those the server forgets.
LEMMA PollsStep == ASSUME PollingInv, NEW g \in Generation, Polls(g) PROVE PollingInv'
<1>1. /\ loop[g].pc = "top" /\ UNCHANGED <<sent, client, gen, intake, ladders, faults, history>>
  BY DEF Polls
<1>2. CASE g # gen
  <2>1. loop' = [loop EXCEPT ![g] = Ended] /\ UNCHANGED <<acked, open>>
    BY <1>2, Zenon DEF Polls
  <2>2. Put(g, "end", <<>>)
    BY <2>1, Ending DEF PollingInv
  <2> QED BY <1>1, <2>1, <2>2, LoopMoves DEF server
<1>3. CASE g = gen
  <2>1. /\ Goto(g, "polling") /\ open' = g
        /\ acked' = IF floor - 1 > acked THEN floor - 1 ELSE acked
    BY <1>3, Zenon DEF Polls
  <2>2. Put(g, "polling", loop[g].batch)
    BY <2>1, Going DEF PollingInv, LoopPcs
  <2>3. /\ acked' \in 0..sent' /\ acked <= acked'
        /\ \A u \in Update : u <= acked' => u <= acked \/ u < floor
    BY <1>1, <2>1, Ranges DEF PollingInv, Bounds, Update
  <2>4. PollingTypeOK'
    <3>1. open' \in 0..MaxFaults + 2
      BY <2>1 DEF Generation
    <3>2. /\ UNCHANGED <<sent, floor, raw, gen, held, drain, faults>>
          /\ UNCHANGED <<recovering, conflicts, fatal, reborn>>
          /\ UNCHANGED <<times, turned, discarded, failed>>
      BY <1>1 DEF client, intake, ladders, history
    <3> QED BY <2>2, <2>3, <3>1, <3>2
            DEF PollingInv, PollingTypeOK, Put, LoopState, LoopPcs
  <2>5. Generations'
    BY <1>1, <2>2, SameGenerations, Ranges DEF PollingInv, Put, ladders
  <2>6. Bounds'
    BY <1>1, <2>1, Ranges DEF PollingInv, Bounds, client, ladders
  <2>7. Moves
    BY <1>1, <2>2, MovesNow
  <2>8. \A u \in Update : Handled(u) => Handled(u)'
    BY <1>1, <2>2, NothingInHand DEF intake
  <2>9. \A u \in Update : Settled(u) => Settled(u)'
    BY <1>1 DEF history, Settled
  <2>10. \A u \in Update : Reached(u)' => Reached(u)
    BY <1>1, <2>3 DEF Reached, client
  <2>11. Keeps
    BY <2>8, <2>9, <2>10 DEF Keeps
  <2> QED BY <1>1, <2>3, <2>4, <2>5, <2>6, <2>7, <2>11, MovesKeeps, Ranges DEF PollingInv
<1> QED BY <1>2, <1>3

\* The batch of an answer is what follows the offset of its poll.
LEMMA AnswersStep == ASSUME PollingInv, NEW g \in Generation, Answers(g) PROVE PollingInv'
<1> DEFINE s == [loop[g] EXCEPT !.pc = "answered",
                                !.batch = [i \in 1..sent - acked |-> acked + i]]
<1>1. /\ loop[g].pc = "polling" /\ loop' = [loop EXCEPT ![g] = s]
      /\ UNCHANGED <<server, client, gen, intake, ladders, faults, history>>
  BY DEF Answers
<1> DEFINE fetched == [i \in 1..sent - acked |-> acked + i]
<1>2. fetched \in Seq(Update) /\ sent - acked \in Nat
  <2>1. sent - acked \in Nat
    BY Ranges DEF PollingInv
  <2>2. \A i \in 1..sent - acked : acked + i \in Update
    BY Ranges DEF PollingInv, Update
  <2> QED BY <2>1, <2>2
<1> HIDE DEF fetched
<1>3. s \in LoopState /\ s.pc = "answered" /\ s.batch = fetched
  BY <1>2, LoopFields DEF PollingInv, LoopState, LoopPcs, fetched
<1> HIDE DEF s
<1>4. Put(g, "answered", fetched)
  BY <1>1, <1>3, Puts DEF PollingInv
<1>5. PollingTypeOK'
  BY <1>1, <1>4 DEF PollingInv, PollingTypeOK, Put, LoopState, LoopPcs,
         server, client, intake, ladders, history
<1>6. Generations'
  BY <1>1, <1>4, SameGenerations, Ranges DEF PollingInv, Put, ladders
<1>7. Bounds'
  BY <1>1 DEF PollingInv, Bounds, server, client, ladders
<1>8. ASSUME NEW h \in Generation PROVE BatchFits(h)' /\ NotYet(h)'
  <2>1. CASE h # g
    <3>1. loop'[h] = loop[h] /\ gen' = gen /\ sent' = sent /\ acked' = acked
      BY <1>1, <1>4, <2>1 DEF Put, server
    <3>2. BatchFits(h) /\ NotYet(h)
      BY DEF PollingInv
    <3>3. BatchFits(h)'
      BY <3>1, <3>2, Zenon DEF BatchFits
    <3>4. NotYet(h)'
      BY <3>1, <3>2 DEF NotYet
    <3> QED BY <3>3, <3>4
  <2>2. CASE h = g
    <3>1. /\ sent' = sent /\ acked' = acked /\ gen' = gen
          /\ loop'[g].batch = [i \in 1..sent - acked |-> acked + i]
      BY <1>1, <1>4 DEF Put, server, fetched
    <3>2. acked \in 0..acked /\ acked + (sent - acked) <= sent
      BY Ranges DEF PollingInv
    <3>3. BatchFits(g)'
      BY <1>2, <3>1, <3>2 DEF BatchFits
    <3>4. ~ g > gen
      BY <1>1, Begun, Ranges DEF PollingInv, Generation
    <3> QED BY <2>2, <3>1, <3>3, <3>4 DEF NotYet
  <2> QED BY <2>1, <2>2
<1>9. ASSUME NEW u \in Update PROVE Covered(u)'
  <2>1. Handled(u) => Handled(u)'
    BY <1>1, <1>4, NothingInHand DEF intake
  <2>2. (Settled(u) => Settled(u)') /\ (Reached(u)' => Reached(u))
    BY <1>1 DEF history, server, client, Settled, Reached
  <2>3. Covered(u)
    BY DEF PollingInv
  <2> QED BY <2>1, <2>2, <2>3, Zenon DEF Covered
<1> QED BY <1>5, <1>6, <1>7, <1>8, <1>9 DEF PollingInv

\* The last update of an uncommitted batch is its greatest, and none that it
\* leaves out is beyond the offset it was fetched with.
LEMMA FetchedBatch ==
  ASSUME PollingInv, NEW g \in Generation, loop[g].pc = "answered"
  PROVE  /\ NextFloor(loop[g].batch) \in 1..N + 1 /\ NextFloor(loop[g].batch) <= sent + 1
         /\ \A u \in Update : u < NextFloor(loop[g].batch) =>
                u < floor \/ u <= acked \/ u \in ToSet(loop[g].batch)
<1> DEFINE b == loop[g].batch
           top == NextFloor(b)
<1>1. PICK lo \in 0..acked, n \in Nat : lo + n <= sent /\ b = [i \in 1..n |-> lo + i]
  BY DEF PollingInv, BatchFits
<1>2. b \in Seq(Update) /\ sent \in Nat /\ sent <= N /\ floor \in 1..N + 1 /\ floor <= sent + 1
  BY LoopFields, Ranges DEF PollingInv, Bounds
<1>3. Len(b) = n /\ \A i \in 1..n : b[i] = lo + i
  <2>1. [i \in 1..n |-> lo + i] \in Seq(Int)
    BY <1>1
  <2> QED BY <1>1, <2>1
<1> HIDE DEF b
<1>4. ToSet(b) = {b[i] : i \in 1..n}
  BY <1>2, <1>3, UpdatesOf
<1>5. CASE n = 0
  <2>1. b = <<>>
    BY <1>2, <1>3, <1>5
  <2>2. top = floor
    BY <2>1 DEF NextFloor
  <2> QED BY <1>2, <2>2 DEF b
<1>6. CASE n > 0
  <2>1. b # <<>> /\ Last(b) = lo + n
    BY <1>2, <1>3, <1>6 DEF Last
  <2>2. top = IF lo + n < floor THEN floor ELSE lo + n + 1
    BY <2>1 DEF NextFloor
  <2> HIDE DEF top
  <2>3. top \in 1..N + 1 /\ top <= sent + 1
    BY <1>1, <1>2, <2>2
  <2>4. ASSUME NEW u \in Update, u < top PROVE u < floor \/ u <= acked \/ u \in ToSet(b)
    <3>1. u \in Nat /\ acked \in Nat
      BY Ranges DEF PollingInv, Update
    <3>2. CASE u <= lo
      BY <1>1, <3>1, <3>2
    <3>3. CASE u > lo /\ u <= lo + n
      <4>1. u - lo \in 1..n /\ b[u - lo] = u
        BY <1>1, <1>3, <3>1, <3>3
      <4> QED BY <4>1, <1>4
    <3>4. CASE u > lo + n
      BY <1>1, <1>2, <2>2, <2>4, <3>1, <3>4
    <3> QED BY <1>1, <3>1, <3>2, <3>3, <3>4
  <2> QED BY <2>3, <2>4 DEF top, b
<1> QED BY <1>1, <1>5, <1>6

\* An answer resets the conflicts of the current generation only.
LEMMA ProgressEffect ==
  ASSUME PollingInv, NEW g, Progress(g)
  PROVE  /\ conflicts' \in 0..MaxConflicts + 1 /\ (~ fatal' => conflicts' <= MaxConflicts)
         /\ UNCHANGED <<recovering, fatal, reborn>>
  BY DEF Progress, PollingInv, PollingTypeOK, Bounds

\* The registry keeps updates and nothing else.
LEMMA AboveEffect ==
  ASSUME PollingInv, NEW n, NEW q \in Seq(Update)
  PROVE  Above(n, raw \cup ToSet(q)) \subseteq Update
<1>1. raw \subseteq Update /\ ToSet(q) \subseteq Update
  BY UpdatesOf DEF PollingInv, PollingTypeOK
<1> QED BY <1>1 DEF Above

\* What a connection drops it gives up on purpose.
LEMMA DropsStep == ASSUME PollingInv, NEW g \in Generation, Drops(g) PROVE PollingInv'
<1> DEFINE b == loop[g].batch
<1>1. /\ loop[g].pc = "answered" /\ floor' = NextFloor(b)
      /\ raw' = Above(floor', raw \cup ToSet(b))
      /\ discarded' = discarded \cup ToSet(b)
      /\ loop' = [loop EXCEPT ![g] = Starts(FALSE)]
      /\ Progress(g)
      /\ UNCHANGED <<server, gen, intake, faults, times, turned, failed>>
  BY DEF Drops
<1>2. b \in Seq(Update) /\ ToSet(b) \subseteq Update
  BY LoopFields, UpdatesOf DEF PollingInv
<1>3. /\ floor' \in 1..N + 1 /\ floor' <= sent + 1
      /\ \A u \in Update : u < floor' => u < floor \/ u <= acked \/ u \in ToSet(b)
  BY <1>1, FetchedBatch
<1> HIDE DEF b
<1>4. Starts(FALSE) \in LoopState /\ Starts(FALSE).pc = "top" /\ Starts(FALSE).batch = <<>>
  BY DEF Starts, LoopState, LoopPcs
<1>5. Put(g, "top", <<>>)
  BY <1>1, <1>4, Puts DEF PollingInv
<1>6. raw' \subseteq Update
  BY <1>1, <1>2, AboveEffect
<1>7. /\ conflicts' \in 0..MaxConflicts + 1 /\ (~ fatal' => conflicts' <= MaxConflicts)
      /\ UNCHANGED <<recovering, fatal, reborn>>
  BY <1>1, ProgressEffect
<1>8. PollingTypeOK'
  BY <1>1, <1>2, <1>3, <1>5, <1>6, <1>7 DEF PollingInv, PollingTypeOK, Put, LoopState, LoopPcs,
         server, intake
<1>9. Generations'
  <2>1. \A h \in Generation : loop'[h].pc = "sleep" => loop[h].pc = "sleep"
    BY <1>5 DEF Put
  <2>2. UNCHANGED <<gen, recovering, reborn>> /\ faults' \in Nat /\ faults <= faults'
    BY <1>1, <1>7, Ranges DEF PollingInv
  <2> QED BY <2>1, <2>2, SameGenerations
<1>10. Bounds'
  BY <1>1, <1>3, <1>7 DEF Bounds, server
<1>11. Moves
  BY <1>1, <1>5, MovesNow
<1>12. \A u \in Update : Handled(u) => Handled(u)'
  BY <1>1, <1>5, NothingInHand DEF intake
<1>13. \A u \in Update : Settled(u) => Settled(u)'
  BY <1>1 DEF Settled
<1>14. \A u \in Update : Reached(u)' => Reached(u) \/ Settled(u)'
  BY <1>1, <1>3 DEF Reached, Settled, server
<1>15. Keeps
  BY <1>12, <1>13, <1>14 DEF Keeps
<1> QED BY <1>1, <1>8, <1>9, <1>10, <1>11, <1>15, MovesKeeps, Ranges DEF PollingInv, server

\* An answer without updates leaves nothing in hand, and no conflict behind.
LEMMA AnswersNothingStep ==
  ASSUME PollingInv, NEW g \in Generation, AnswersNothing(g)
  PROVE  PollingInv'
<1>1. /\ loop[g].pc = "polling" /\ Goto(g, "top") /\ Progress(g)
      /\ UNCHANGED <<server, client, gen, intake, faults, history>>
  BY DEF AnswersNothing
<1>2. Put(g, "top", loop[g].batch)
  BY <1>1, Going DEF PollingInv, LoopPcs
<1>3. /\ conflicts' \in 0..MaxConflicts + 1 /\ (~ fatal' => conflicts' <= MaxConflicts)
      /\ UNCHANGED <<recovering, fatal, reborn>>
  BY <1>1, ProgressEffect
<1>4. PollingTypeOK'
  BY <1>1, <1>2, <1>3 DEF PollingInv, PollingTypeOK, Put, LoopState, LoopPcs,
         server, client, intake, history
<1>5. Generations'
  <2>1. \A h \in Generation : loop'[h].pc = "sleep" => loop[h].pc = "sleep"
    BY <1>2 DEF Put
  <2>2. UNCHANGED <<gen, recovering, reborn>> /\ faults' \in Nat /\ faults <= faults'
    BY <1>1, <1>3, Ranges DEF PollingInv
  <2> QED BY <2>1, <2>2, SameGenerations
<1>6. Bounds'
  BY <1>1, <1>3 DEF PollingInv, Bounds, server, client
<1>7. Moves
  BY <1>1, <1>2, MovesNow
<1>8. \A u \in Update : Handled(u) => Handled(u)'
  BY <1>1, <1>2, NothingInHand DEF intake
<1>9. Keeps
  BY <1>1, <1>8 DEF Keeps, Settled, Reached, server, client, history
<1> QED BY <1>1, <1>4, <1>5, <1>6, <1>7, <1>9, MovesKeeps, Ranges DEF PollingInv, server

\* What a loop commits is in its hands.
LEMMA CommitsStep == ASSUME PollingInv, NEW g \in Generation, Commits(g) PROVE PollingInv'
<1> DEFINE b == loop[g].batch
<1>1. /\ loop[g].pc = "answered" /\ floor' = NextFloor(b)
      /\ raw' = Above(floor', raw \cup ToSet(b))
      /\ Goto(g, "each")
      /\ Progress(g)
      /\ UNCHANGED <<server, gen, intake, faults, history>>
  BY DEF Commits
<1>2. b \in Seq(Update) /\ ToSet(b) \subseteq Update
  BY LoopFields, UpdatesOf DEF PollingInv
<1>3. /\ floor' \in 1..N + 1 /\ floor' <= sent + 1
      /\ \A u \in Update : u < floor' => u < floor \/ u <= acked \/ u \in ToSet(b)
  BY <1>1, FetchedBatch
<1>5. Put(g, "each", b)
  BY <1>1, Going DEF PollingInv, LoopPcs
<1> HIDE DEF b
<1>6. raw' \subseteq Update
  BY <1>1, <1>2, AboveEffect
<1>7. /\ conflicts' \in 0..MaxConflicts + 1 /\ (~ fatal' => conflicts' <= MaxConflicts)
      /\ UNCHANGED <<recovering, fatal, reborn>>
  BY <1>1, ProgressEffect
<1>8. PollingTypeOK'
  BY <1>1, <1>2, <1>3, <1>5, <1>6, <1>7 DEF PollingInv, PollingTypeOK, Put, LoopState, LoopPcs,
         server, intake, history
<1>9. Generations'
  <2>1. \A h \in Generation : loop'[h].pc = "sleep" => loop[h].pc = "sleep"
    BY <1>5 DEF Put
  <2>2. UNCHANGED <<gen, recovering, reborn>> /\ faults' \in Nat /\ faults <= faults'
    BY <1>1, <1>7, Ranges DEF PollingInv
  <2> QED BY <2>1, <2>2, SameGenerations
<1>10. Bounds'
  BY <1>1, <1>3, <1>7 DEF Bounds, server
<1>11. Moves
  BY <1>1, <1>5, MovesNow
<1>12. \A u \in Update : Handled(u) => Handled(u)'
  BY <1>1, <1>5, NothingInHand DEF intake
<1>13. \A u \in Update : Settled(u) => Settled(u)'
  BY <1>1 DEF Settled, history
<1>14. \A u \in ToSet(b) : Handled(u)'
  BY <1>5, Here DEF Handled, InLoops
<1>15. \A u \in Update : Reached(u)' => Reached(u) \/ Handled(u)'
  BY <1>1, <1>3, <1>14 DEF Reached, server
<1>16. Keeps
  BY <1>12, <1>13, <1>15 DEF Keeps
<1> QED BY <1>1, <1>8, <1>9, <1>10, <1>11, <1>16, MovesKeeps, Ranges DEF PollingInv, server

\* The update that leaves a batch is dispatched.
LEMMA EachStep == ASSUME PollingInv, NEW g \in Generation, Each(g) PROVE PollingInv'
<1> DEFINE b == loop[g].batch
<1>1. /\ loop[g].pc = "each" /\ b # <<>>
      /\ loop' = [loop EXCEPT ![g].batch = Tail(b)]
      /\ Dispatched(Head(b))
      /\ UNCHANGED <<server, client, gen, intake, ladders, faults, discarded, failed>>
  BY DEF Each
<1>2. /\ b \in Seq(Update) /\ Head(b) \in Update /\ Tail(b) \in Seq(Update)
      /\ ToSet(b) = {Head(b)} \cup ToSet(Tail(b))
  BY <1>1, LoopFields, HeadAndTail DEF PollingInv
<1>3. Put(g, "each", Tail(b))
  BY <1>1, <1>2, NewBatch DEF PollingInv
<1> HIDE DEF b
<1>4. /\ times' \in [Update -> Nat] /\ times'[Head(b)] > 0
      /\ \A v \in Update : times[v] > 0 => times'[v] > 0
      /\ turned' \subseteq Update
  BY <1>1, <1>2, DispatchEffect DEF PollingInv
<1>5. PollingTypeOK'
  BY <1>1, <1>3, <1>4 DEF PollingInv, PollingTypeOK, Put, LoopState, LoopPcs,
         server, client, intake, ladders
<1>6. Generations'
  BY <1>1, <1>3, SameGenerations, Ranges DEF PollingInv, Put, ladders
<1>7. Bounds'
  BY <1>1 DEF PollingInv, Bounds, server, client, ladders
<1>8. Moves
  BY <1>1, <1>3, MovesNow
<1>9. \A u \in Update : Settled(u) => Settled(u)'
  BY <1>1, <1>4 DEF Settled
<1>10. ASSUME NEW u \in Update, Handled(u) PROVE Handled(u)' \/ Settled(u)'
  <2>1. CASE InLoops(u)
    <3>1. CASE u \in ToSet(b)
      <4>1. CASE u = Head(b)
        BY <1>4, <4>1 DEF Settled
      <4>2. CASE u \in ToSet(Tail(b))
        BY <1>3, <4>2, Here DEF Handled, InLoops
      <4> QED BY <1>2, <3>1, <4>1, <4>2
    <3>2. CASE u \notin ToSet(b)
      <4>1. InLoops(u)'
        BY <1>3, <2>1, <3>2, Elsewhere DEF b
      <4> QED BY <4>1 DEF Handled, InLoops
    <3> QED BY <3>1, <3>2
  <2>2. CASE u \in ToSet(held) \/ u \in ToSet(drain.events)
    BY <1>1, <2>2 DEF Handled, intake
  <2> QED BY <1>10, <2>1, <2>2, HandsAre
<1>11. Keeps
  BY <1>1, <1>9, <1>10, SameOffsets DEF server, client
<1> QED BY <1>1, <1>5, <1>6, <1>7, <1>8, <1>11, MovesKeeps, Ranges DEF PollingInv, server

\* The steps in which a loop hands a batch, or the first of it, to the queue.
LEMMA HandsOver ==
  ASSUME PollingInv, NEW g \in Generation, NEW us \in Seq(Update), NEW rest \in Seq(Update),
         loop[g].pc = "each", ToSet(loop[g].batch) = ToSet(us) \cup ToSet(rest),
         Put(g, "each", rest), Holds(us, drain),
         faults' \in faults..MaxFaults, failed' \in BOOLEAN,
         UNCHANGED <<server, client, gen, ladders, times, turned>>
  PROVE  PollingInv'
<1>1. drain \in [on : BOOLEAN, events : Seq(Update)]
  BY Ranges DEF PollingInv
<1>2. /\ held' \in Seq(Update) /\ Len(held') <= HeldMax
      /\ drain' \in [on : BOOLEAN, events : Seq(Update)] /\ drain'.events = drain.events
      /\ discarded' \subseteq Update /\ discarded \subseteq discarded'
      /\ \A u \in ToSet(held) \cup ToSet(us) : u \in discarded' \/ u \in ToSet(held')
  BY <1>1, HoldsEffect DEF PollingInv
<1>3. faults' \in 0..MaxFaults /\ faults' \in Nat /\ faults <= faults'
  BY Ranges DEF PollingInv
<1>4. PollingTypeOK'
  BY <1>2, <1>3 DEF PollingInv, PollingTypeOK, Put, LoopState, LoopPcs,
         server, client, ladders
<1>5. Generations'
  BY <1>3, SameGenerations DEF Put, ladders
<1>6. Bounds'
  BY DEF PollingInv, Bounds, server, client, ladders
<1>7. Moves
  BY MovesNow
<1>8. \A u \in Update : Settled(u) => Settled(u)'
  BY <1>2 DEF Settled
<1>9. ASSUME NEW u \in Update, Handled(u) PROVE Handled(u)' \/ Settled(u)'
  <2>1. CASE InLoops(u)
    <3>1. CASE u \in ToSet(us)
      BY <1>2, <3>1 DEF Handled, Settled
    <3>2. CASE u \in ToSet(rest)
      BY <3>2, Here DEF Handled, InLoops
    <3>3. CASE u \notin ToSet(loop[g].batch)
      <4>1. InLoops(u)'
        BY <2>1, <3>3, Elsewhere
      <4> QED BY <4>1 DEF Handled, InLoops
    <3> QED BY <3>1, <3>2, <3>3
  <2>2. CASE u \in ToSet(held)
    BY <1>2, <2>2 DEF Handled, Settled
  <2>3. CASE u \in ToSet(drain.events)
    BY <1>2, <2>3 DEF Handled
  <2> QED BY <1>9, <2>1, <2>2, <2>3, HandsAre
<1>10. Keeps
  BY <1>8, <1>9, SameOffsets DEF server, client
<1> QED BY <1>4, <1>5, <1>6, <1>7, <1>10, MovesKeeps, Ranges DEF PollingInv, server

\* The empty sequence holds nothing.
LEMMA NoUpdates == <<>> \in Seq(Update) /\ ToSet(<<>>) = {}
  BY DEF ToSet

\* The loop of an old generation hands over all that is left.
LEMMA InterruptedStep == ASSUME PollingInv, NEW g \in Generation, Interrupted(g) PROVE PollingInv'
<1>1. /\ loop[g].pc = "each" /\ loop' = [loop EXCEPT ![g].batch = <<>>]
      /\ Holds(loop[g].batch, drain)
      /\ UNCHANGED <<server, client, gen, ladders, faults, times, turned, failed>>
  BY DEF Interrupted
<1>2. Put(g, "each", <<>>)
  BY <1>1, NewBatch, NoUpdates DEF PollingInv
<1>3. loop[g].batch \in Seq(Update)
  BY LoopFields DEF PollingInv
<1>4. ToSet(loop[g].batch) = ToSet(loop[g].batch) \cup ToSet(<<>>)
  BY NoUpdates
<1>5. faults' \in faults..MaxFaults /\ failed' \in BOOLEAN
  BY <1>1, Ranges DEF PollingInv, PollingTypeOK
<1> QED BY <1>1, <1>2, <1>3, <1>4, <1>5, NoUpdates, HandsOver

\* Faults are counted up to their bound.
LEMMA FaultEffect ==
  ASSUME PollingInv, Fault
  PROVE  faults' = faults + 1 /\ faults' \in faults..MaxFaults /\ faults' \in 0..MaxFaults
  BY Ranges DEF PollingInv, Fault

\* An update whose dispatch throws is handed over alone.
LEMMA EachFailsStep == ASSUME PollingInv, NEW g \in Generation, EachFails(g) PROVE PollingInv'
<1> DEFINE b == loop[g].batch
<1>1. /\ loop[g].pc = "each" /\ b # <<>> /\ Fault
      /\ loop' = [loop EXCEPT ![g].batch = Tail(b)]
      /\ Holds(<<Head(b)>>, drain)
      /\ failed' = TRUE
      /\ UNCHANGED <<server, client, gen, ladders, times, turned>>
  BY DEF EachFails
<1>2. /\ Head(b) \in Update /\ Tail(b) \in Seq(Update)
      /\ ToSet(b) = {Head(b)} \cup ToSet(Tail(b))
  BY <1>1, LoopFields, HeadAndTail DEF PollingInv
<1>3. Put(g, "each", Tail(b))
  BY <1>1, <1>2, NewBatch DEF PollingInv
<1>4. <<Head(b)>> \in Seq(Update) /\ ToSet(<<Head(b)>>) = {Head(b)}
  BY <1>2 DEF ToSet
<1>5. faults' \in faults..MaxFaults
  BY <1>1, FaultEffect
<1>6. ToSet(b) = ToSet(<<Head(b)>>) \cup ToSet(Tail(b))
  BY <1>2, <1>4
<1> QED BY <1>1, <1>2, <1>3, <1>4, <1>5, <1>6, HandsOver

\* A heartbeat asks for a generation, and a fault pays for it.
LEMMA HeartbeatStep == ASSUME PollingInv, HeartbeatEscalates PROVE PollingInv'
<1>1. /\ ~ recovering /\ recovering' = TRUE /\ Fault
      /\ UNCHANGED <<server, client, gen, loop, intake, conflicts, fatal, reborn, history>>
  BY DEF HeartbeatEscalates
<1>2. faults' = faults + 1 /\ faults' \in 0..MaxFaults
  BY <1>1, FaultEffect
<1>3. PollingTypeOK'
  BY <1>1, <1>2 DEF PollingInv, PollingTypeOK, server, client, intake, history
<1>4. Generations'
  <2>1. Sleepers' = Sleepers
    BY <1>1 DEF Sleepers
  <2>2. Count(recovering) = 0 /\ Count(recovering)' = 1 /\ Count(reborn)' = Count(reborn)
    BY <1>1 DEF Count
  <2>3. Count(reborn) \in Nat
    BY DEF Count
  <2> QED BY <1>1, <1>2, <2>1, <2>2, <2>3, Budget DEF Generations
<1>5. Bounds'
  BY <1>1 DEF PollingInv, Bounds, server, client
<1>6. Moves
  BY <1>1 DEF Moves
<1>7. Keeps
  BY <1>1, SameOffsets DEF server, client, intake, history, Settled, Handled
<1> QED BY <1>1, <1>3, <1>4, <1>5, <1>6, <1>7, MovesKeeps, Ranges DEF PollingInv, server

\* A lost answer loses what was not committed, which the server still has.
LEMMA NetworkFailsStep == ASSUME PollingInv, NEW g \in Generation, NetworkFails(g) PROVE PollingInv'
<1>1. /\ loop[g].pc \in {"polling", "answered"} /\ Fault
      /\ loop' = [loop EXCEPT ![g] = Ended]
      /\ recovering' = (recovering \/ Alive(g))
      /\ UNCHANGED <<server, client, gen, intake, conflicts, fatal, reborn, history>>
  BY DEF NetworkFails
<1>2. faults' = faults + 1 /\ faults' \in 0..MaxFaults
  BY <1>1, FaultEffect
<1>3. Put(g, "end", <<>>)
  BY <1>1, Ending DEF PollingInv
<1>4. recovering' \in BOOLEAN
  BY <1>1
<1>5. PollingTypeOK'
  BY <1>1, <1>2, <1>3, <1>4 DEF PollingInv, PollingTypeOK, Put, LoopState, LoopPcs,
     server, client, intake, history
<1>6. Generations'
  <2>1. \A h \in Generation : loop'[h].pc = "sleep" => loop[h].pc = "sleep"
    BY <1>3 DEF Put
  <2>2. Cardinality(Sleepers)' \in Nat /\ Cardinality(Sleepers)' <= Cardinality(Sleepers)
    BY <2>1, NoNewSleeper
  <2>3. /\ Count(recovering)' \in Nat /\ Count(recovering)' <= 1
        /\ Count(recovering) \in Nat
        /\ Count(reborn)' = Count(reborn) /\ Count(reborn) \in Nat
    BY <1>1 DEF Count
  <2> QED BY <1>1, <1>2, <2>2, <2>3, Budget DEF Generations
<1>7. Bounds'
  BY <1>1 DEF PollingInv, Bounds, server, client
<1>8. Moves
  BY <1>1, <1>3, MovesNow
<1>9. \A u \in Update : Handled(u) => Handled(u)'
  BY <1>1, <1>3, NothingInHand DEF intake
<1>10. \A u \in Update : Settled(u) => Settled(u)'
  BY <1>1 DEF history, Settled
<1>11. Keeps
  BY <1>1, <1>9, <1>10, SameOffsets DEF server, client
<1> QED BY <1>1, <1>5, <1>6, <1>7, <1>8, <1>11, MovesKeeps, Ranges DEF PollingInv, server

\* A new generation is within the bound: somebody's request for one is used up.
LEMMA GenerationStarts ==
  ASSUME PollingInv, NEW ls \in [Generation -> LoopState], NEW d \in BOOLEAN,
         NewGeneration(ls, d)
  PROVE  /\ gen' = gen + 1 /\ loop' \in [Generation -> LoopState]
         /\ \A h \in Generation : /\ h # gen + 1 => loop'[h] = ls[h]
                                  /\ h = gen + 1 => loop'[h].pc = "top"
<1> DEFINE s == Starts(d)
<1>1. s \in LoopState /\ s.pc = "top"
  BY DEF Starts, LoopState, LoopPcs
<1>2. gen' = gen + 1 /\ loop' = [ls EXCEPT ![gen + 1] = s]
  BY DEF NewGeneration
<1> HIDE DEF s
<1> QED BY <1>1, <1>2

\* The recovery ladder uses up its request for the generation it starts.
LEMMA RecoveryOverStep == ASSUME PollingInv, RecoveryOver PROVE PollingInv'
<1>1. /\ recovering /\ recovering' = FALSE
      /\ UNCHANGED <<server, client, intake, conflicts, fatal, reborn, faults, history>>
  BY DEF RecoveryOver
<1>2. /\ gen' \in gen..gen + 1 /\ loop' \in [Generation -> LoopState]
      /\ \A h \in Generation : \/ loop'[h] = loop[h]
                               \/ h = gen' /\ h = gen + 1 /\ loop'[h].pc = "top"
  <2>1. CASE fatal
    BY <2>1, Ranges DEF RecoveryOver, PollingInv
  <2>2. CASE ~ fatal
    <3>1. NewGeneration(loop, FALSE)
      BY <2>2, Zenon DEF RecoveryOver
    <3>2. loop \in [Generation -> LoopState] /\ gen \in Nat
      BY Ranges DEF PollingInv
    <3>3. /\ gen' = gen + 1 /\ loop' \in [Generation -> LoopState]
          /\ \A h \in Generation : /\ h # gen + 1 => loop'[h] = loop[h]
                                   /\ h = gen + 1 => loop'[h].pc = "top"
      BY <3>1, <3>2, GenerationStarts
    <3> QED BY <3>2, <3>3
  <2> QED BY <2>1, <2>2
<1>3. Generations'
  <2>1. \A h \in Generation : loop'[h].pc = "sleep" => loop[h].pc = "sleep"
    BY <1>2
  <2>2. Cardinality(Sleepers)' \in Nat /\ Cardinality(Sleepers)' <= Cardinality(Sleepers)
    BY <2>1, NoNewSleeper
  <2>3. Count(recovering) = 1 /\ Count(recovering)' = 0 /\ Count(reborn)' = Count(reborn)
    BY <1>1 DEF Count
  <2>4. gen' \in Nat /\ gen' <= gen + 1 /\ faults' = faults
    BY <1>1, <1>2, Budget
  <2> QED BY <2>2, <2>3, <2>4, Budget DEF Generations
<1>4. PollingTypeOK'
  <2>1. gen' \in Generation
    <3>1. Cardinality(Sleepers)' \in Nat /\ Count(recovering)' \in 0..1 /\ Count(reborn)' \in 0..1
      BY SleepersAreFew, NoNewSleeper, <1>2 DEF Count
    <3>2. gen' <= 1 + faults + 1
      BY <1>1, <1>2, <1>3, <3>1, Budget DEF Generations
    <3> QED BY <1>2, <3>2, Ranges DEF PollingInv, Generation
  <2> QED BY <1>1, <1>2, <2>1 DEF PollingInv, PollingTypeOK, LoopState, LoopPcs,
          server, client, intake, history
<1>5. Bounds'
  BY <1>1 DEF PollingInv, Bounds, server, client
<1>6. Moves
  BY <1>2, Ranges DEF Moves, PollingInv
<1>7. ASSUME NEW u \in Update, Handled(u) PROVE Handled(u)'
  <2>1. CASE InLoops(u)
    <3>1. PICK g \in Generation : loop[g].pc = "each" /\ u \in ToSet(loop[g].batch)
      BY <2>1 DEF InLoops
    <3>2. g # gen + 1
      <4>1. g <= gen /\ gen \in Nat
        BY <3>1, Begun, Budget
      <4> QED BY <4>1
    <3>3. loop'[g] = loop[g]
      BY <1>2, <3>2
    <3> QED BY <3>1, <3>3 DEF Handled
  <2> QED BY <1>1, <1>7, <2>1, HandsAre DEF Handled, intake
<1>8. Keeps
  BY <1>1, <1>7, SameOffsets DEF server, client, history, Settled
<1> QED BY <1>1, <1>2, <1>3, <1>4, <1>5, <1>6, <1>8, MovesKeeps, Ranges DEF PollingInv, server

\* So does the loop that wakes after a conflict.
LEMMA ConflictOverStep == ASSUME PollingInv, NEW g \in Generation, ConflictOver(g) PROVE PollingInv'
<1>1. /\ loop[g].pc = "sleep"
      /\ UNCHANGED <<server, client, intake, ladders, faults, history>>
  BY DEF ConflictOver
<1> DEFINE ls == [loop EXCEPT ![g] = Ended]
<1>2. CASE fatal
  <2>1. loop' = ls /\ gen' = gen
    BY <1>2, Zenon DEF ConflictOver
  <2>2. Put(g, "end", <<>>)
    BY <2>1, Ending DEF PollingInv
  <2> QED BY <1>1, <2>1, <2>2, LoopMoves
<1>3. CASE ~ fatal
  <2>1. NewGeneration(ls, TRUE)
    BY <1>3, Zenon DEF ConflictOver
  <2>2. /\ ls \in [Generation -> LoopState] /\ ls[g].pc = "end"
        /\ \A h \in Generation \ {g} : ls[h] = loop[h]
    <3>1. Ended \in LoopState /\ Ended.pc = "end" /\ loop \in [Generation -> LoopState]
      BY Ranges DEF PollingInv, Ended, LoopState, LoopPcs
    <3> HIDE DEF Ended
    <3> QED BY <3>1
  <2> HIDE DEF ls
  <2>3. /\ gen' = gen + 1 /\ loop' \in [Generation -> LoopState]
        /\ \A h \in Generation : /\ h # gen + 1 => loop'[h] = ls[h]
                                 /\ h = gen + 1 => loop'[h].pc = "top"
    BY <2>1, <2>2, GenerationStarts
  <2>4. g <= gen /\ gen \in Nat
    BY <1>1, Begun, Budget
  <2>5. \A h \in Generation :
           loop'[h] = loop[h] \/ (h <= gen' /\ loop'[h].pc \in {"top", "end"})
    BY <2>2, <2>3, <2>4 DEF Generation
  <2>6. loop'[g].pc \in {"top", "end"}
    BY <2>2, <2>3
  <2>7. Generations'
    <3>1. \A h \in Generation : loop'[h].pc = "sleep" => h # g /\ loop[h].pc = "sleep"
      BY <2>5, <2>6
    <3>2. /\ Cardinality(Sleepers)' \in Nat
          /\ Cardinality(Sleepers)' + 1 <= Cardinality(Sleepers)
      BY <1>1, <3>1, OneSleeperLess
    <3>3. Count(recovering)' = Count(recovering) /\ Count(reborn)' = Count(reborn)
      BY <1>1 DEF Count, ladders
    <3> QED BY <1>1, <2>3, <3>2, <3>3, Budget DEF Generations
  <2>8. PollingTypeOK'
    <3>1. gen' \in Generation
      <4>1. \A h \in Generation : loop'[h].pc = "sleep" => loop[h].pc = "sleep"
        BY <2>5
      <4>2. Cardinality(Sleepers)' \in Nat /\ Count(recovering)' \in 0..1 /\ Count(reborn)' \in 0..1
        BY <4>1, NoNewSleeper DEF Count
      <4>3. gen' <= 1 + faults + 1
        BY <1>1, <2>3, <2>7, <4>2, Budget DEF Generations
      <4> QED BY <2>3, <4>3, Ranges DEF PollingInv, Generation
    <3> QED BY <1>1, <2>3, <3>1 DEF PollingInv, PollingTypeOK, LoopState, LoopPcs,
            server, client, intake, history, ladders
  <2>9. Bounds'
    BY <1>1 DEF PollingInv, Bounds, server, client, ladders
  <2>10. Moves
    BY <2>5 DEF Moves
  <2>11. ASSUME NEW u \in Update, Handled(u) PROVE Handled(u)'
    <3>1. CASE InLoops(u)
      <4>1. PICK h \in Generation : loop[h].pc = "each" /\ u \in ToSet(loop[h].batch)
        BY <3>1 DEF InLoops
      <4>2. h # g /\ h # gen + 1
        BY <1>1, <4>1, Begun, Budget DEF Generation
      <4>3. loop'[h] = loop[h]
        BY <2>2, <2>3, <4>2
      <4> QED BY <4>1, <4>3 DEF Handled
    <3> QED BY <1>1, <2>11, <3>1, HandsAre DEF Handled, intake
  <2>12. Keeps
    BY <1>1, <2>11, SameOffsets DEF server, client, history, Settled
  <2> QED BY <1>1, <2>3, <2>4, <2>7, <2>8, <2>9, <2>10, <2>12, MovesKeeps, Ranges
          DEF PollingInv, server
<1> QED BY <1>2, <1>3

\* A conflict puts its loop to sleep, or gives up the queue on purpose.
LEMMA ConflictStep == ASSUME PollingInv, NEW g \in Generation, Conflict(g) PROVE PollingInv'
<1>1. /\ loop[g].pc = "polling" /\ Fault
      /\ UNCHANGED <<server, client, gen, drain, recovering, reborn, times, turned, failed>>
  BY DEF Conflict
<1>2. faults' = faults + 1 /\ faults' \in 0..MaxFaults
  BY <1>1, FaultEffect
<1>3. PICK l \in LoopPcs, q \in Seq(Update) : Put(g, l, q) /\ l \in {"end", "sleep"}
  <2>1. CASE loop' = [loop EXCEPT ![g] = Ended]
    BY <2>1, Ending, NoUpdates DEF PollingInv, LoopPcs
  <2>2. CASE Goto(g, "sleep")
    BY <2>2, Going, LoopFields DEF PollingInv, LoopPcs
  <2> QED BY <2>1, <2>2, Zenon DEF Conflict
<1>4. \/ UNCHANGED <<conflicts, fatal, held, discarded>>
      \/ /\ ~ fatal /\ conflicts' = conflicts + 1
         /\ conflicts < MaxConflicts /\ UNCHANGED <<fatal, held, discarded>>
      \/ /\ ~ fatal /\ conflicts' = conflicts + 1 /\ fatal' = TRUE
         /\ held' = <<>> /\ discarded' = discarded \cup ToSet(held)
  BY Zenon DEF Conflict, Alive
<1>5. held \in Seq(Update) /\ ToSet(held) \subseteq Update /\ Len(<<>>) <= HeldMax
  BY UpdatesOf, Ranges DEF PollingInv
<1>6. PollingTypeOK' /\ Bounds'
  <2>1. /\ conflicts' \in 0..MaxConflicts + 1 /\ fatal' \in BOOLEAN
        /\ ~ fatal' => conflicts' <= MaxConflicts
    <3>1. /\ conflicts \in 0..MaxConflicts + 1 /\ fatal \in BOOLEAN /\ MaxConflicts \in Nat
          /\ ~ fatal => conflicts <= MaxConflicts
      BY DEF PollingInv, PollingTypeOK, Bounds
    <3>2. CASE UNCHANGED <<conflicts, fatal>>
      BY <3>1, <3>2
    <3>3. CASE ~ fatal /\ conflicts' = conflicts + 1 /\ conflicts < MaxConflicts /\ fatal' = fatal
      BY <3>1, <3>3
    <3>4. CASE ~ fatal /\ conflicts' = conflicts + 1 /\ fatal' = TRUE
      BY <3>1, <3>4
    <3> QED BY <1>4, <3>2, <3>3, <3>4
  <2>2. /\ held' \in Seq(Update) /\ Len(held') <= HeldMax /\ discarded' \subseteq Update
    BY <1>4, <1>5, NoUpdates DEF PollingInv, PollingTypeOK
  <2>3. PollingTypeOK'
    BY <1>1, <1>2, <1>3, <2>1, <2>2 DEF PollingInv, PollingTypeOK, Put, LoopState, LoopPcs,
       server, client
  <2> QED BY <1>1, <2>1, <2>3 DEF PollingInv, Bounds, server, client
<1>7. Generations'
  <2>1. \A h \in Generation : loop'[h].pc = "sleep" => h = g \/ loop[h].pc = "sleep"
    BY <1>3 DEF Put
  <2>2. Cardinality(Sleepers)' \in Nat /\ Cardinality(Sleepers)' <= Cardinality(Sleepers) + 1
    BY <2>1, OneMoreSleeper
  <2>3. Count(recovering)' = Count(recovering) /\ Count(reborn)' = Count(reborn)
    BY <1>1 DEF Count
  <2> QED BY <1>1, <1>2, <2>2, <2>3, Budget DEF Generations
<1>8. Moves
  BY <1>1, <1>3, MovesNow
<1>9. ASSUME NEW u \in Update, Handled(u) PROVE Handled(u)' \/ Settled(u)'
  <2>1. CASE InLoops(u)
    <3>1. InLoops(u)'
      BY <1>1, <1>3, <2>1, Elsewhere
    <3> QED BY <3>1 DEF Handled, InLoops
  <2>2. CASE u \in ToSet(held)
    <3>1. u \in ToSet(held') \/ u \in discarded'
      BY <1>4, <2>2
    <3> QED BY <3>1 DEF Handled, Settled
  <2>3. CASE u \in ToSet(drain.events)
    BY <1>1, <2>3 DEF Handled
  <2> QED BY <1>9, <2>1, <2>2, <2>3, HandsAre
<1>10. \A u \in Update : Settled(u) => Settled(u)'
  BY <1>1, <1>4 DEF Settled
<1>11. Keeps
  BY <1>1, <1>9, <1>10, SameOffsets DEF server, client
<1> QED BY <1>1, <1>6, <1>7, <1>8, <1>11, MovesKeeps, Ranges DEF PollingInv, server

\* The fresh instance forgets the floor, but the server does not give back
\* what it was told to forget.
LEMMA RebornStep == ASSUME PollingInv, Reborn PROVE PollingInv'
<1> DEFINE ls == [g \in Generation |-> Ended]
<1>1. /\ fatal /\ ~ reborn /\ reborn' = TRUE /\ fatal' = FALSE
      /\ \A g \in Generation : loop[g].pc # "each"
      /\ NewGeneration(ls, FALSE)
      /\ floor' = 1 /\ raw' = {}
      /\ conflicts' = 0 /\ recovering' = FALSE
      /\ UNCHANGED <<server, intake, faults, history>>
  BY DEF Reborn
<1>2. ls \in [Generation -> LoopState] /\ \A h \in Generation : ls[h].pc = "end"
  BY DEF Ended, LoopState, LoopPcs
<1> HIDE DEF ls
<1>3. /\ gen' = gen + 1 /\ loop' \in [Generation -> LoopState]
      /\ \A h \in Generation : /\ h # gen + 1 => loop'[h] = ls[h]
                               /\ h = gen + 1 => loop'[h].pc = "top"
  BY <1>1, <1>2, GenerationStarts
<1>4. \A h \in Generation : h # gen + 1 => loop'[h] = Ended
  BY <1>3 DEF ls
<1>5. \A h \in Generation : loop'[h].pc \in {"top", "end"}
  BY <1>2, <1>3
<1>6. /\ Cardinality(Sleepers)' \in Nat /\ Cardinality(Sleepers)' <= Cardinality(Sleepers)
      /\ Count(recovering)' = 0 /\ Count(reborn)' = 1 /\ Count(reborn) = 0
  BY <1>1, <1>5, NoNewSleeper DEF Count
<1>7. Generations'
  BY <1>1, <1>3, <1>6, Budget DEF Generations
<1>8. gen' \in Generation
  <2>1. gen' <= 1 + faults + 1
    BY <1>1, <1>3, <1>6, <1>7, Budget DEF Generations
  <2> QED BY <1>3, <2>1, Ranges DEF PollingInv, Generation
<1>9. PollingTypeOK' /\ Bounds'
  <2>1. /\ floor' \in 1..N + 1 /\ floor' <= sent' + 1 /\ raw' \subseteq Update
        /\ conflicts' \in 0..MaxConflicts + 1 /\ conflicts' <= MaxConflicts
        /\ fatal' \in BOOLEAN /\ reborn' \in BOOLEAN /\ recovering' \in BOOLEAN
    <3>1. sent' = sent /\ sent \in Nat /\ N \in Nat /\ MaxConflicts \in Nat
      BY <1>1, Ranges DEF PollingInv, server
    <3>2. /\ floor' = 1 /\ raw' = {} /\ conflicts' = 0
          /\ fatal' = FALSE /\ reborn' = TRUE /\ recovering' = FALSE
      BY <1>1
    <3>3. floor' \in 1..N + 1 /\ floor' <= sent' + 1
      BY <3>1, <3>2
    <3>4. conflicts' \in 0..MaxConflicts + 1 /\ conflicts' <= MaxConflicts
      BY <3>1, <3>2
    <3>5. fatal' \in BOOLEAN /\ reborn' \in BOOLEAN /\ recovering' \in BOOLEAN
      BY <3>2, Zenon
    <3>6. raw' \subseteq Update
      BY <3>2
    <3> QED BY <3>3, <3>4, <3>5, <3>6, Zenon
  <2>2. PollingTypeOK'
    BY <1>1, <1>3, <1>8, <2>1 DEF PollingInv, PollingTypeOK, LoopState, LoopPcs,
       server, intake, history
  <2> QED BY <2>1, <2>2 DEF Bounds
<1>10. ASSUME NEW h \in Generation PROVE BatchFits(h)' /\ NotYet(h)'
  <2>1. BatchFits(h)'
    BY <1>5 DEF BatchFits
  <2>2. NotYet(h)'
    BY <1>3, <1>4, Ranges DEF PollingInv, NotYet, Generation
  <2> QED BY <2>1, <2>2
<1>11. ASSUME NEW u \in Update PROVE Covered(u)'
  <2>1. Covered(u) /\ (Settled(u) => Settled(u)')
    BY <1>1 DEF PollingInv, history, Settled
  <2>2. Reached(u)' => Reached(u)
    BY <1>1 DEF Reached, server, Update
  <2>3. Handled(u) => Handled(u)'
    BY <1>1 DEF Handled, intake
  <2> QED BY <2>1, <2>2, <2>3, Zenon DEF Covered
<1> QED BY <1>7, <1>9, <1>10, <1>11 DEF PollingInv

\* The steps of the redispatch pass, which leave the loops alone.
LEMMA PassMoves ==
  ASSUME PollingInv, UNCHANGED <<server, client, gen, loop, ladders>>,
         held' \in Seq(Update), Len(held') <= HeldMax,
         drain' \in [on : BOOLEAN, events : Seq(Update)],
         times' \in [Update -> Nat], turned' \subseteq Update,
         discarded' \subseteq Update, failed' \in BOOLEAN,
         faults' \in 0..MaxFaults, faults <= faults',
         \A u \in Update : Settled(u) => Settled(u)',
         \A u \in ToSet(held) \cup ToSet(drain.events) :
             u \in ToSet(held') \/ u \in ToSet(drain'.events) \/ Settled(u)'
  PROVE  PollingInv'
<1>1. PollingTypeOK'
  BY DEF PollingInv, PollingTypeOK, server, client, ladders
<1>2. Generations'
  BY SameGenerations DEF ladders
<1>3. Bounds'
  BY DEF PollingInv, Bounds, server, client, ladders
<1>4. Moves
  BY DEF Moves
<1>5. ASSUME NEW u \in Update, Handled(u) PROVE Handled(u)' \/ Settled(u)'
  BY <1>5 DEF Handled
<1>6. Keeps
  BY <1>5, SameOffsets DEF server, client
<1> QED BY <1>1, <1>2, <1>3, <1>4, <1>6, MovesKeeps, Ranges DEF PollingInv, server

\* The types of the queue, the pass and the history.
LEMMA QueueTypes ==
  ASSUME PollingInv
  PROVE  /\ held \in Seq(Update) /\ Len(held) <= HeldMax
         /\ drain.on \in BOOLEAN /\ drain.events \in Seq(Update)
         /\ drain \in [on : BOOLEAN, events : Seq(Update)]
         /\ times \in [Update -> Nat] /\ turned \subseteq Update
         /\ discarded \subseteq Update /\ failed \in BOOLEAN
         /\ faults \in 0..MaxFaults /\ faults <= faults
         /\ Off \in [on : BOOLEAN, events : Seq(Update)] /\ Off.events = <<>>
         /\ Len(<<>>) <= HeldMax
  BY DrainFields, Ranges DEF PollingInv, PollingTypeOK, Off

\* The pass takes the queue into its hands.
LEMMA DrainTakesStep == ASSUME PollingInv, DrainTakes PROVE PollingInv'
<1>1. /\ drain.events = <<>> /\ held' = <<>> /\ drain' = [drain EXCEPT !.events = held]
      /\ UNCHANGED <<server, client, gen, loop, ladders, faults, history>>
  BY DEF DrainTakes
<1>2. drain' \in [on : BOOLEAN, events : Seq(Update)] /\ drain'.events = held
  BY <1>1, QueueTypes
<1>3. ToSet(drain.events) = {}
  BY <1>1, NoUpdates
<1>4. \A u \in Update : Settled(u) => Settled(u)'
  BY <1>1 DEF history, Settled
<1>5. UNCHANGED <<times, turned, discarded, failed>>
  BY <1>1 DEF history
<1> QED BY <1>1, <1>2, <1>3, <1>4, <1>5, QueueTypes, NoUpdates, PassMoves

\* The pass dispatches the first event it has.
LEMMA DrainDispatchesStep == ASSUME PollingInv, DrainDispatches PROVE PollingInv'
<1> DEFINE e == drain.events
<1>1. /\ e # <<>> /\ drain' = [drain EXCEPT !.events = Tail(e)]
      /\ Dispatched(Head(e))
      /\ UNCHANGED <<server, client, gen, loop, held, ladders, faults, discarded, failed>>
  BY DEF DrainDispatches
<1>2. /\ Head(e) \in Update /\ Tail(e) \in Seq(Update) /\ ToSet(e) = {Head(e)} \cup ToSet(Tail(e))
  BY <1>1, QueueTypes, HeadAndTail
<1>3. drain' \in [on : BOOLEAN, events : Seq(Update)] /\ drain'.events = Tail(e)
  BY <1>1, <1>2, QueueTypes
<1>4. /\ times' \in [Update -> Nat] /\ times'[Head(e)] > 0
      /\ \A v \in Update : times[v] > 0 => times'[v] > 0
      /\ turned' \subseteq Update
  BY <1>1, <1>2, DispatchEffect DEF PollingInv
<1> HIDE DEF e
<1>5. \A u \in Update : /\ Settled(u) => Settled(u)'
                        /\ u = Head(e) => Settled(u)'
  BY <1>1, <1>4 DEF Settled
<1>6. \A u \in ToSet(held) \cup ToSet(e) :
          u \in ToSet(held') \/ u \in ToSet(drain'.events) \/ Settled(u)'
  BY <1>1, <1>2, <1>3, <1>5
<1> QED BY <1>1, <1>3, <1>4, <1>5, <1>6, QueueTypes, PassMoves DEF e

\* A pass that fails puts back what it has not done.
LEMMA DrainFailsStep == ASSUME PollingInv, DrainFails PROVE PollingInv'
<1>1. /\ Fault /\ drain' = Off /\ failed' = TRUE
      /\ held' = Kept(held \o drain.events)
      /\ discarded' = discarded \cup ToSet(GivenUp(held \o drain.events))
      /\ UNCHANGED <<server, client, gen, loop, ladders, times, turned>>
  BY DEF DrainFails, Kept, GivenUp
<1>2. /\ held' \in Seq(Update) /\ Len(held') <= HeldMax
      /\ discarded' \subseteq Update /\ discarded \subseteq discarded'
      /\ \A u \in ToSet(held) \cup ToSet(drain.events) : u \in discarded' \/ u \in ToSet(held')
  BY <1>1, QueueTypes, GivenUpEffect DEF PollingInv
<1>3. faults' \in 0..MaxFaults /\ faults <= faults'
  BY <1>1, FaultEffect, Ranges DEF PollingInv
<1>4. \A u \in Update : Settled(u) => Settled(u)'
  BY <1>1, <1>2 DEF Settled
<1>5. \A u \in ToSet(held) \cup ToSet(drain.events) :
          u \in ToSet(held') \/ u \in ToSet(drain'.events) \/ Settled(u)'
  BY <1>2 DEF Settled
<1> QED BY <1>1, <1>2, <1>3, <1>4, <1>5, QueueTypes, PassMoves

\* A pass that finds the adapter fatal gives up what it has not done.
LEMMA DrainInterruptedStep == ASSUME PollingInv, DrainInterrupted PROVE PollingInv'
<1>1. /\ Holds(drain.events, Off)
      /\ UNCHANGED <<server, client, gen, loop, ladders, faults, times, turned, failed>>
  BY DEF DrainInterrupted
<1>2. /\ held' \in Seq(Update) /\ Len(held') <= HeldMax
      /\ drain' \in [on : BOOLEAN, events : Seq(Update)]
      /\ discarded' \subseteq Update /\ discarded \subseteq discarded'
      /\ \A u \in ToSet(held) \cup ToSet(drain.events) : u \in discarded' \/ u \in ToSet(held')
  BY <1>1, QueueTypes, HoldsEffect DEF PollingInv
<1>3. \A u \in Update : Settled(u) => Settled(u)'
  BY <1>1, <1>2 DEF Settled
<1>4. \A u \in ToSet(held) \cup ToSet(drain.events) :
          u \in ToSet(held') \/ u \in ToSet(drain'.events) \/ Settled(u)'
  BY <1>2 DEF Settled
<1> QED BY <1>1, <1>2, <1>3, <1>4, QueueTypes, PassMoves

\* A pass ends with nothing in its hands.
LEMMA DrainEndsStep == ASSUME PollingInv, DrainEnds PROVE PollingInv'
<1>1. /\ drain.events = <<>> /\ held = <<>> /\ drain' = Off
      /\ UNCHANGED <<server, client, gen, loop, held, ladders, faults, history>>
  BY DEF DrainEnds
<1>2. ToSet(held) = {} /\ ToSet(drain.events) = {}
  BY <1>1, NoUpdates
<1>3. \A u \in Update : Settled(u) => Settled(u)'
  BY <1>1 DEF history, Settled
<1>4. UNCHANGED <<times, turned, discarded, failed>>
  BY <1>1 DEF history
<1> QED BY <1>1, <1>2, <1>3, <1>4, QueueTypes, PassMoves

----------------------------------------------------------------------------
\* The invariant holds at the start.
LEMMA PollingStart == PollingInit => PollingInv
<1> SUFFICES ASSUME PollingInit PROVE PollingInv
  OBVIOUS
<1>1. /\ Starts(TRUE) \in LoopState /\ Starts(TRUE).pc = "top"
      /\ Ended \in LoopState /\ Ended.pc = "end"
  BY DEF Starts, Ended, LoopState, LoopPcs
<1>2. /\ loop \in [Generation -> LoopState]
      /\ \A g \in Generation : loop[g].pc \in {"top", "end"} /\ (g # 1 => loop[g] = Ended)
  <2> HIDE DEF Starts, Ended
  <2> QED BY <1>1 DEF PollingInit
<1>3. PollingTypeOK /\ Bounds
  <2>1. /\ sent \in 0..N /\ acked \in 0..sent /\ open \in 0..MaxFaults + 2
        /\ floor \in 1..N + 1 /\ floor <= sent + 1 /\ gen \in Generation
        /\ conflicts \in 0..MaxConflicts + 1 /\ conflicts <= MaxConflicts /\ faults \in 0..MaxFaults
    BY DEF PollingInit, Generation
  <2>2. /\ held \in Seq(Update) /\ Len(held) <= HeldMax
        /\ drain \in [on : BOOLEAN, events : Seq(Update)]
        /\ times \in [Update -> Nat]
    BY DEF PollingInit, Off
  <2>3. /\ raw \subseteq Update /\ turned \subseteq Update /\ discarded \subseteq Update
        /\ recovering \in BOOLEAN /\ fatal \in BOOLEAN /\ reborn \in BOOLEAN /\ failed \in BOOLEAN
    BY DEF PollingInit
  <2>4. PollingTypeOK
    BY <1>2, <2>1, <2>2, <2>3, Zenon DEF PollingTypeOK, LoopState, LoopPcs
  <2> QED BY <2>1, <2>4 DEF Bounds
<1>4. Generations
  <2>1. Sleepers = {}
    BY <1>2 DEF Sleepers
  <2>2. Count(recovering) = 0 /\ Count(reborn) = 0
    BY DEF PollingInit, Count
  <2> QED BY <2>1, <2>2, FS_EmptySet DEF PollingInit, Generations
<1>5. ASSUME NEW g \in Generation PROVE BatchFits(g) /\ NotYet(g)
  <2>1. BatchFits(g)
    BY <1>2 DEF BatchFits
  <2>2. g > gen => g # 1
    BY DEF PollingInit, Generation
  <2>3. NotYet(g)
    BY <1>2, <2>2 DEF NotYet
  <2> QED BY <2>1, <2>3
<1>6. \A u \in Update : Covered(u)
  BY DEF PollingInit, Covered, Reached, Update
<1> QED BY <1>3, <1>4, <1>5, <1>6 DEF PollingInv

\* Every step keeps it.
LEMMA PollingStep == PollingInv /\ [PollingNext]_pollingVars => PollingInv'
<1> SUFFICES ASSUME PollingInv, [PollingNext]_pollingVars PROVE PollingInv'
  OBVIOUS
<1>1. CASE Send
  BY <1>1, SendStep
<1>2. ASSUME NEW g \in Generation, Loop(g) PROVE PollingInv'
  BY <1>2, PollsStep, AnswersStep, AnswersNothingStep, SupersededStep, DropsStep, CommitsStep,
     EachStep,
     InterruptedStep, BatchDoneStep, ConflictOverStep, Zenon DEF Loop
<1>3. CASE Drain
  BY <1>3, DrainTakesStep, DrainDispatchesStep, DrainInterruptedStep, DrainEndsStep, Zenon DEF Drain
<1>4. CASE RecoveryOver
  BY <1>4, RecoveryOverStep
<1>5. CASE Reborn
  BY <1>5, RebornStep
<1>6. CASE Faulty
  BY <1>6, NetworkFailsStep, ConflictStep, EachFailsStep, HeartbeatStep, DrainFailsStep, Zenon
     DEF Faulty
<1>7. CASE UNCHANGED pollingVars
  <2>1. /\ UNCHANGED <<server, client, gen, loop, ladders, faults>>
        /\ UNCHANGED <<held, drain, times, turned, discarded, failed>>
    BY <1>7 DEF pollingVars, intake, history
  <2>2. \A u \in Update : Settled(u) => Settled(u)'
    BY <2>1 DEF Settled
  <2> QED BY <2>1, <2>2, QueueTypes, PassMoves
<1> QED BY <1>1, <1>2, <1>3, <1>4, <1>5, <1>6, <1>7, Zenon DEF PollingNext

\* The inductive invariant of the intake.
LEMMA PollingInvHolds == PollingSpec => []PollingInv
<1> QED BY PollingStart, PollingStep, PTL DEF PollingSpec

(* No update whose offset is committed, or that the server was told to       *)
(* forget, is lost: it is dispatched, in somebody's hands, or was given up   *)
(* on purpose, through every conflict, recovery and restart of the adapter.  *)
THEOREM NoneLostHolds == PollingSpec => []NoneLost
<1>1. PollingInv => NoneLost
  <2> SUFFICES ASSUME PollingInv, NEW u \in Update, u <= acked \/ u < floor
               PROVE  Settled(u) \/ InHand(u)
    BY DEF PollingInv, NoneLost
  <2>1. Settled(u) \/ Handled(u)
    BY DEF PollingInv, Covered, Reached
  <2> QED BY <2>1 DEF Handled, InHand
<1> QED BY <1>1, PollingInvHolds, PTL
=============================================================================
