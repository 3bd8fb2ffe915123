-------------------------- MODULE CronFire_proofs --------------------------
(***************************************************************************)
(* Proofs about the cron store and its ticking processes of CronFire, for  *)
(* any number of jobs and processes, any period, grace and time to live    *)
(* with grace below the time to live, and every world: what users edit,    *)
(* how often processes crash, whether they stall and whether writes fail.  *)
(*                                                                         *)
(* OncePerSlot speaks of the history of fired slots only.  What keeps it   *)
(* is in the store and in the list of the tick: the next run of a record   *)
(* is ahead of what was fired (Ahead), a job armed anew after an error     *)
(* remembers its last run (Traced), nothing fires early (Elapsed), and     *)
(* what a tick has listed is not fired yet (TickOK), which needs the lock  *)
(* to admit one tick at a time (OneTick).                                  *)
(***************************************************************************)
EXTENDS CronFire, TLAPS, WellFoundedInduction

----------------------------------------------------------------------------
(* Helpers *)

\* What the proofs use of the constants.
LEMMA Constants ==
    /\ Jobs \subseteq Nat /\ None \notin Nat
    /\ Period \in Nat /\ Period > 0 /\ Grace \in Nat /\ Ttl \in Nat /\ Ttl > 0
    /\ \A w \in Worlds : w.until \in Nat /\ w.crashes \in Nat
  BY CronAssumption DEF None

USE Constants DEF None

\* A nonempty list of due jobs has a first one.
LEMMA FirstIsDue ==
    ASSUME NEW due \in SUBSET Entries, due # {}
    PROVE  First(due) \in due
<1> DEFINE J == {j \in Nat : \E e \in due : e.job = j}
<1>1. \A e \in due : e.job \in J
  BY DEF Entries
<1>2. J # {}
  BY <1>1
<1>3. PICK j \in J : \A k \in J : <<k, j>> \notin OpToRel(<, Nat)
  BY <1>2, WFMin, NatLessThanWellFounded, Zenon
<1>4. \A k \in J : ~ (k < j)
  BY <1>3, Zenon DEF OpToRel
<1>5. PICK e \in due : e.job = j
  BY <1>3
<1>6. \A f \in due : e.job <= f.job
  <2> TAKE f \in due
  <2>1. f.job \in J
    BY <1>1
  <2>2. ~ (f.job < j) /\ f.job \in Nat /\ j \in Nat
    BY <1>3, <1>4, <2>1
  <2> QED  BY <2>2, <1>5
<1> QED  BY <1>6, Zenon DEF First

\* Types only grow with the clock and the history.
LEMMA TypesGrow ==
    ASSUME TypeOK, now' \in Nat, now <= now',
           Len(fired') \in Nat, Len(fired) <= Len(fired')
    PROVE  /\ JobRecords \subseteq JobRecords'
           /\ TickRecords \subseteq TickRecords'
           /\ Tokens \subseteq Tokens'
<1>1. now \in Nat /\ Len(fired) \in Nat
  BY DEF TypeOK
<1>2. 0..now \subseteq 0..now' /\ Tokens \subseteq Tokens'
  BY <1>1 DEF Tokens
<1>3. Claims \subseteq Claims'
  BY <1>2 DEF Claims
<1> QED  BY <1>2, <1>3 DEF JobRecords, TickRecords

\* What getDueJobs makes of a record.
LEMMA SeenFacts ==
    ASSUME TypeOK, NEW j \in Jobs
    PROVE  /\ Seen(j) \in JobRecords
           /\ Seen(j).kind = job[j].kind /\ Seen(j).claim = job[j].claim
           /\ Seen(j).last = job[j].last
           /\ Seen(j).state = "gone" <=> job[j].state = "gone"
           /\ Seen(j).next = IF Listed(j) /\ job[j].kind = "every"
                             THEN SkipMissed(NextSeen(j)) ELSE job[j].next
           /\ Listed(j) \/ j \in Due => NextSeen(j) \in Nat
<1>1. job[j] \in JobRecords /\ now \in Nat
  BY DEF TypeOK
<1>2. NextSeen(j) \in Nat \cup {None} /\ (job[j].next \in Nat => NextSeen(j) \in Nat)
  BY <1>1 DEF NextSeen, JobRecords
<1>3. now + Period \in Nat
  BY <1>1
<1>4. Listed(j) => NextSeen(j) \in Nat
  BY <1>1, <1>2 DEF Listed, JobRecords
<1>5. Listed(j) => SkipMissed(NextSeen(j)) \in Nat /\ job[j].state # "gone"
  BY <1>3, <1>4 DEF SkipMissed, Listed, Runnable
<1> DEFINE st == IF Listed(j) /\ AgedOut(j) THEN "completed" ELSE job[j].state
           nx == IF Listed(j) /\ job[j].kind = "every" THEN SkipMissed(NextSeen(j))
                 ELSE job[j].next
<1>6. Seen(j) = [job[j] EXCEPT !.state = st, !.next = nx]
  BY DEF Seen
<1>7. /\ st \in {"scheduled", "paused", "completed", "gone"}
      /\ nx \in Nat \cup {None}
      /\ st = "gone" <=> job[j].state = "gone"
  BY <1>1, <1>5 DEF JobRecords
<1>8. j \in Due => Listed(j)
  BY DEF Due
<1>9. Seen(j).next = nx
  <2> HIDE DEF st, nx
  <2> QED  BY <1>1, <1>6, <1>7 DEF JobRecords
<1>10. /\ Seen(j) \in JobRecords
       /\ Seen(j).kind = job[j].kind /\ Seen(j).claim = job[j].claim
       /\ Seen(j).last = job[j].last
       /\ Seen(j).state = "gone" <=> job[j].state = "gone"
  <2> HIDE DEF st, nx
  <2> QED  BY <1>1, <1>6, <1>7 DEF JobRecords
<1> QED  BY <1>4, <1>8, <1>9, <1>10

----------------------------------------------------------------------------
(* Types *)

\* What a process does between the claim of a job and the record of its end,
\* and that it has a job and a token then.
AtWork == {"running", "aborted", "settled", "delivered"}
Working ==
    \A p \in Procs : /\ proc[p].job \in Jobs <=> proc[p].pc \in AtWork
                     /\ proc[p].pc \in AtWork => proc[p].token # None

\* The steps that change one job record, or none, and no history.
LEMMA TypesOfEdit ==
    ASSUME TypeOK, NEW j \in Jobs, NEW r \in JobRecords,
           job' = [job EXCEPT ![j] = r],
           UNCHANGED <<world, now, proc, crashes, fired, recorded>>
    PROVE  TypeOK'
  BY DEF TypeOK, Claims, JobRecords, TickRecords, Tokens

\* The steps that only move one process on.
LEMMA TypesOfMove ==
    ASSUME TypeOK, NEW p \in Procs, NEW r \in TickRecords,
           proc' = [proc EXCEPT ![p] = r],
           UNCHANGED <<world, now, job, fired, recorded>>,
           crashes' \in 0..world.crashes
    PROVE  TypeOK'
  BY DEF TypeOK, Claims, JobRecords, TickRecords, Tokens

\* An edit by users, kind by kind.
LEMMA TypesOfUsers == TypeOK /\ UserEdits => TypeOK'
<1> SUFFICES ASSUME TypeOK, UserEdits PROVE TypeOK'
  OBVIOUS
<1>0. now \in Nat /\ now + Period \in Nat /\ \A j \in Jobs : job[j] \in JobRecords
  BY DEF TypeOK
<1>1. \A at \in RunAts : at \in Nat /\ OneShotAt(at) \in Nat \cup {None}
  BY <1>0, CronAssumption DEF OneShotAt
<1>2. PICK j \in Jobs : \/ Pause(j) \/ Resume(j) \/ Remove(j)
                        \/ \E kind \in {"once", "every"}, at \in RunAts : Update(j, kind, at)
  BY DEF UserEdits
<1>3. CASE Pause(j)
  <2> [job[j] EXCEPT !.state = "paused"] \in JobRecords
    BY <1>0 DEF JobRecords
  <2> QED  BY <1>3, TypesOfEdit DEF Pause, Edit
<1>4. CASE Resume(j)
  <2> DEFINE next == IF job[j].kind = "every" THEN now + Period ELSE OneShotAt(job[j].at)
  <2>1. next \in Nat \cup {None}
    BY <1>0 DEF JobRecords, OneShotAt
  <2>2. Edit(j, [job[j] EXCEPT !.state = "scheduled", !.next = next])
    BY <1>4 DEF Resume
  <2> HIDE DEF next
  <2>3. [job[j] EXCEPT !.state = "scheduled", !.next = next] \in JobRecords
    BY <1>0, <2>1 DEF JobRecords
  <2> QED  BY <2>2, <2>3, TypesOfEdit DEF Edit
<1>5. CASE Remove(j)
  <2>1. NoClaim \in Claims
    BY <1>0 DEF NoClaim, Claims
  <2> [job[j] EXCEPT !.state = "gone", !.claim = NoClaim] \in JobRecords
    BY <1>0, <2>1 DEF JobRecords
  <2> QED  BY <1>5, TypesOfEdit DEF Remove, Edit
<1>6. ASSUME NEW kind \in {"once", "every"}, NEW at \in RunAts, Update(j, kind, at)
      PROVE  TypeOK'
  <2> DEFINE next == IF kind = "every" THEN now + Period ELSE OneShotAt(at)
  <2>1. next \in Nat \cup {None}
    BY <1>0, <1>1
  <2>2. Edit(j, [job[j] EXCEPT !.kind = kind, !.at = at, !.next = next])
    BY <1>6 DEF Update
  <2> HIDE DEF next
  <2>3. [job[j] EXCEPT !.kind = kind, !.at = at, !.next = next] \in JobRecords
    BY <1>0, <1>1, <2>1 DEF JobRecords
  <2> QED  BY <2>2, <2>3, TypesOfEdit DEF Edit
<1> QED  BY <1>2, <1>3, <1>4, <1>5, <1>6

\* A step of a tick: the writes of the store keep its records well formed.
LEMMA TypesOfRun ==
    ASSUME TypeOK, Working, NEW p \in Procs, Run(p)
    PROVE  TypeOK'
<1>0. /\ now \in Nat /\ \A j \in Jobs : job[j] \in JobRecords
      /\ proc[p] \in TickRecords /\ crashes \in 0..world.crashes
      /\ 0 \in 0..now /\ Idle \in TickRecords
  BY DEF TypeOK, Idle, TickRecords
<1>1. CASE StartTick(p)
  <2> DEFINE due == {[job |-> j, kind |-> job[j].kind, slot |-> NextSeen(j)] : j \in Due}
  <2>1. due \in SUBSET Entries
    <3>1. \A j \in Due : j \in Jobs /\ NextSeen(j) \in Nat /\ job[j].kind \in {"once", "every"}
      BY <1>0, SeenFacts DEF Due, JobRecords
    <3> QED  BY <3>1 DEF Entries
  <2>2. proc' = [proc EXCEPT ![p] = IF Due = {} THEN @
                  ELSE [Idle EXCEPT !.pc = "listed", !.tick = now, !.due = due]]
    BY <1>1 DEF StartTick
  <2>3. [Idle EXCEPT !.pc = "listed", !.tick = now, !.due = due] \in TickRecords
    <3>1. now \in 0..now
      BY <1>0
    <3> HIDE DEF due
    <3> QED  BY <1>0, <2>1, <3>1 DEF TickRecords
  <2>4. job' \in [Jobs -> JobRecords]
    <3>1. \A j \in Jobs : Seen(j) \in JobRecords
      BY SeenFacts
    <3> QED  BY <1>1, <3>1 DEF StartTick
  <2>5. UNCHANGED <<world, now, crashes, fired, recorded>>
    BY <1>1 DEF StartTick
  <2> HIDE DEF due
  <2>6. proc' \in [Procs -> TickRecords]
    BY <2>2, <2>3 DEF TypeOK
  <2> QED  BY <2>4, <2>5, <2>6 DEF TypeOK, Claims, JobRecords, TickRecords, Tokens
<1>2. CASE AdvanceNextRuns(p)
  <2>1. \A j \in Jobs : [job[j] EXCEPT !.next = NextRun(j, proc[p].tick)] \in JobRecords
    BY <1>0 DEF JobRecords, TickRecords, NextRun
  <2>2. job' \in [Jobs -> JobRecords]
    BY <1>0, <1>2, <2>1 DEF AdvanceNextRuns
  <2>3. proc' \in [Procs -> TickRecords]
    BY <1>0, <1>2 DEF AdvanceNextRuns, TypeOK, TickRecords
  <2> QED  BY <1>2, <2>2, <2>3 DEF AdvanceNextRuns, TypeOK, Claims, JobRecords, TickRecords, Tokens
<1>3. CASE EndTick(p)
  BY <1>0, <1>3, TypesOfMove DEF EndTick
<1>4. CASE ClaimJobForFire(p)
  <2> DEFINE e == First(proc[p].due)
             j == e.job
             t == Len(fired) + 1
  <2>1. e \in Entries /\ j \in Jobs /\ proc[p].due \ {e} \in SUBSET Entries
    BY <1>0, <1>4, FirstIsDue DEF ClaimJobForFire, TickRecords, Entries
  <2>2. [proc[p] EXCEPT !.due = @ \ {e}] \in TickRecords
    BY <1>0, <2>1 DEF TickRecords
  <2>3. CASE ~ Claimable(j)
    <3>1. proc' = [proc EXCEPT ![p] = [proc[p] EXCEPT !.due = @ \ {e}]]
      BY <1>0, <1>4, <2>3 DEF ClaimJobForFire, TickRecords, TypeOK
    <3>2. UNCHANGED <<world, now, job, crashes, fired, recorded>>
      BY <1>4, <2>3 DEF ClaimJobForFire
    <3> HIDE DEF e, j
    <3> QED  BY <1>0, <2>2, <3>1, <3>2, TypesOfMove
  <2>4. CASE Claimable(j)
    <3>1. /\ t <= world.fires /\ fired' = Append(fired, e)
          /\ job' = [job EXCEPT
                       ![j].claim = [by |-> t, at |-> now],
                       ![j].next = IF job[j].kind = "every" THEN NextRun(j, now) ELSE @]
          /\ proc' = [proc EXCEPT ![p].pc = "running", ![p].due = @ \ {e},
                                  ![p].job = j, ![p].token = t]
          /\ UNCHANGED <<world, now, crashes, recorded>>
      BY <1>4, <2>4 DEF ClaimJobForFire
    <3> HIDE DEF e, j
    <3>2. fired' \in Seq(Entries) /\ Len(fired') = t /\ Len(fired) \in Nat /\ t \in Tokens'
      BY <2>1, <3>1 DEF TypeOK, Tokens
    <3> HIDE DEF t
    <3>3. /\ JobRecords \subseteq JobRecords' /\ TickRecords \subseteq TickRecords'
          /\ Tokens \subseteq Tokens'
      BY <1>0, <3>1, <3>2, TypesGrow DEF t
    <3>4. job' \in [Jobs -> JobRecords']
      <4> DEFINE nx == IF job[j].kind = "every" THEN NextRun(j, now) ELSE job[j].next
      <4>1. nx \in Nat \cup {None} /\ job[j] \in JobRecords'
        BY <1>0, <2>1, <3>3 DEF JobRecords, NextRun
      <4>2. job' = [job EXCEPT ![j] = [job[j] EXCEPT !.claim = [by |-> t, at |-> now], !.next = nx]]
        BY <1>0, <2>1, <3>1 DEF JobRecords, TypeOK
      <4> HIDE DEF nx
      <4>3. [by |-> t, at |-> now] \in Claims'
        BY <1>0, <3>1, <3>2 DEF Claims
      <4>4. [job[j] EXCEPT !.claim = [by |-> t, at |-> now], !.next = nx] \in JobRecords'
        BY <4>1, <4>3 DEF JobRecords
      <4> QED  BY <3>3, <4>2, <4>4 DEF TypeOK
    <3>5. proc' \in [Procs -> TickRecords']
      <4>1. proc[p] \in TickRecords'
        BY <1>0, <3>3
      <4>2. [proc[p] EXCEPT !.pc = "running", !.due = @ \ {e}, !.job = j, !.token = t] \in TickRecords'
        BY <4>1, <2>1, <3>2 DEF TickRecords
      <4>3. proc' = [proc EXCEPT ![p] =
                [proc[p] EXCEPT !.pc = "running", !.due = @ \ {e}, !.job = j, !.token = t]]
        BY <1>0, <3>1 DEF TickRecords, TypeOK
      <4> QED  BY <3>3, <4>2, <4>3 DEF TypeOK
    <3> QED  BY <3>1, <3>2, <3>3, <3>4, <3>5 DEF TypeOK
  <2> QED  BY <2>3, <2>4
<1>5. CASE Heartbeat(p)
  <2> DEFINE j == proc[p].job
  <2>0. j \in Jobs
    BY <1>5 DEF Heartbeat, Working, AtWork
  <2>1. CASE Owns(p) /\ Fresh(j)
    <3>1. job' = [job EXCEPT ![j].claim.at = now] /\ UNCHANGED proc
      BY <1>5, <2>1 DEF Heartbeat
    <3> HIDE DEF j
    <3>2. [job[j].claim EXCEPT !.at = now] \in Claims
      BY <1>0, <2>0 DEF Claims, JobRecords
    <3>3. [job[j] EXCEPT !.claim = [job[j].claim EXCEPT !.at = now]] \in JobRecords
      BY <1>0, <2>0, <3>2 DEF JobRecords
    <3>4. job' = [job EXCEPT ![j] = [job[j] EXCEPT !.claim = [job[j].claim EXCEPT !.at = now]]]
      BY <3>1
    <3> QED  BY <1>5, <2>0, <3>1, <3>3, <3>4, TypesOfEdit DEF Heartbeat
  <2>2. CASE ~ (Owns(p) /\ Fresh(j))
    <3>1. proc' = [proc EXCEPT ![p] = [proc[p] EXCEPT !.pc = "aborted"]]
      BY <1>5, <2>2 DEF Heartbeat
    <3>2. [proc[p] EXCEPT !.pc = "aborted"] \in TickRecords
      BY <1>0 DEF TickRecords
    <3> QED  BY <1>0, <1>5, <2>2, <3>1, <3>2, TypesOfMove DEF Heartbeat
  <2> QED  BY <2>1, <2>2
<1>6. [proc[p] EXCEPT !.pc = "claiming", !.job = None, !.token = None, !.ok = FALSE]
         \in TickRecords
  BY <1>0 DEF TickRecords
<1>7. CASE Abandons(p)
  BY <1>0, <1>6, <1>7, TypesOfMove DEF Abandons, NextDue
<1>8. CASE MarkThrows(p)
  BY <1>0, <1>6, <1>8, TypesOfMove DEF MarkThrows, NextDue
<1>9. CASE MarkJobRun(p)
  <2> DEFINE j == proc[p].job
             st == IF proc[p].ok THEN "ok" ELSE "error"
             r == [AfterRun(j) EXCEPT !.last = now, !.claim = NoClaim, !.status = st]
  <2>0. j \in Jobs
    BY <1>9 DEF MarkJobRun, Working, AtWork
  <2>1. proc' \in [Procs -> TickRecords] /\ UNCHANGED <<world, now, crashes, fired>>
    BY <1>6, <1>9 DEF MarkJobRun, NextDue, TypeOK
  <2>2. CASE Owns(p)
    <3>1. job' = [job EXCEPT ![j] = r] /\ recorded' = recorded \cup {proc[p].token}
      BY <1>9, <2>2, Zenon DEF MarkJobRun
    <3>2. proc[p].token \in Tokens
      BY <1>0, <1>9 DEF MarkJobRun, Working, AtWork, TickRecords
    <3>3. r \in JobRecords
      <4>1. NoClaim \in Claims /\ st \in {"ok", "error"}
        BY <1>0 DEF NoClaim, Claims
      <4>2. AfterRun(j) \in JobRecords
        <5> HIDE DEF j
        <5>0. job[j] \in JobRecords
          BY <1>0, <2>0, Zenon
        <5>1. job[j] \in JobRecords /\ now + Period \in Nat
          BY <1>0, <5>0
        <5>2. [job[j] EXCEPT !.next = now + Period] \in JobRecords
          BY <5>1 DEF JobRecords
        <5>3. [job[j] EXCEPT !.next = None, !.state = "completed"] \in JobRecords
          BY <5>1 DEF JobRecords
        <5> QED  BY <5>2, <5>3, Zenon DEF AfterRun
      <4>3. now \in 0..now
        BY <1>0
      <4> HIDE DEF st, j
      <4> QED  BY <4>1, <4>2, <4>3 DEF JobRecords
    <3> HIDE DEF j, r
    <3> QED  BY <2>0, <2>1, <3>1, <3>2, <3>3 DEF TypeOK, Claims, JobRecords, TickRecords, Tokens
  <2>3. CASE ~ Owns(p)
    <3>1. UNCHANGED <<job, recorded>>
      BY <1>9, <2>3 DEF MarkJobRun
    <3> QED  BY <2>1, <3>1 DEF TypeOK, Claims, JobRecords, TickRecords, Tokens
  <2> QED  BY <2>2, <2>3
<1>10. ASSUME NEW ok \in BOOLEAN, Settles(p, ok) \/ Delivers(p, ok)
       PROVE  TypeOK'
  <2>1. PICK c \in {"settled", "delivered"} :
            proc' = [proc EXCEPT ![p] = [proc[p] EXCEPT !.pc = c, !.ok = ok]]
    BY <1>10 DEF Settles, Delivers
  <2>2. [proc[p] EXCEPT !.pc = c, !.ok = ok] \in TickRecords
    BY <1>0 DEF TickRecords
  <2> QED  BY <1>0, <1>10, <2>1, <2>2, TypesOfMove DEF Settles, Delivers
<1> QED
  BY <1>1, <1>2, <1>3, <1>4, <1>5, <1>7, <1>8, <1>9, <1>10 DEF Run

\* Every step keeps the types.
LEMMA TypesOfStep ==
    TypeOK /\ Working /\ [Next]_vars => TypeOK'
<1> SUFFICES ASSUME TypeOK, Working, [Next]_vars PROVE TypeOK'
  OBVIOUS
<1>0. /\ now \in Nat /\ crashes \in Nat /\ world.crashes \in Nat /\ world.until \in Nat
      /\ Idle \in TickRecords /\ [Idle EXCEPT !.pc = "down"] \in TickRecords
  <2>1. now \in Nat /\ crashes \in Nat /\ world.crashes \in Nat /\ world.until \in Nat
    BY DEF TypeOK
  <2>2. Idle \in TickRecords
    BY <2>1 DEF Idle, TickRecords
  <2>3. [Idle EXCEPT !.pc = "down"] \in TickRecords
    BY <2>2 DEF TickRecords
  <2> QED  BY <2>1, <2>2, <2>3
<1>1. ASSUME NEW p \in Procs, Crash(p) PROVE TypeOK'
  <2> crashes' \in 0..world.crashes
    BY <1>0, <1>1 DEF Crash
  <2> QED  BY <1>0, <1>1, TypesOfMove DEF Crash
<1>2. ASSUME NEW p \in Procs, Restart(p) PROVE TypeOK'
  <2> crashes' \in 0..world.crashes
    BY <1>2 DEF Restart, TypeOK
  <2> QED  BY <1>0, <1>2, TypesOfMove DEF Restart
<1>3. CASE Tick
  <2>1. now' \in 0..world.until /\ now <= now'
    BY <1>0, <1>3 DEF Tick
  <2>2. JobRecords \subseteq JobRecords' /\ TickRecords \subseteq TickRecords' /\ Tokens' = Tokens
    BY <1>0, <1>3, <2>1, TypesGrow DEF Tick, TypeOK, Tokens
  <2> QED  BY <1>3, <2>1, <2>2 DEF Tick, TypeOK
<1>4. CASE UNCHANGED vars
  BY <1>4 DEF vars, TypeOK, Claims, JobRecords, TickRecords, Tokens
<1> QED
  BY <1>1, <1>2, <1>3, <1>4, TypesOfRun, TypesOfUsers DEF Next

----------------------------------------------------------------------------
(* What a step does to the processes, field by field *)

\* The other processes, the list of the tick and the run are left alone.
Others(p) == \A q \in Procs \ {p} : proc'[q] = proc[q]
SameTick(p) == proc'[p].due = proc[p].due /\ proc'[p].tick = proc[p].tick
SameRun(p) == proc'[p].job = proc[p].job /\ proc'[p].token = proc[p].token
SameLog == UNCHANGED <<world, now, fired>>

\* A process that is outside its tick, or leaves it, runs nothing.
Out(p) == /\ Others(p) /\ proc'[p].pc \in {"idle", "down"}
          /\ proc'[p].job = None /\ proc'[p].token = None

\* A run is over and the tick goes on.
Over(p) == /\ Others(p) /\ SameTick(p)
           /\ proc[p].pc \in AtWork /\ proc'[p].pc = "claiming"
           /\ proc'[p].job = None /\ proc'[p].token = None

\* A run goes on in another stage.
Stage(p) == /\ Others(p) /\ SameTick(p) /\ SameRun(p)
            /\ proc[p].pc \in AtWork /\ proc'[p].pc \in AtWork

\* A tick that ends, a crash and a restart leave the store alone.
LEMMA OutEffect ==
    ASSUME TypeOK, NEW p \in Procs, EndTick(p) \/ Crash(p) \/ Restart(p)
    PROVE  Out(p) /\ SameLog /\ UNCHANGED job
<1>1. PICK c \in {"idle", "down"} : proc' = [proc EXCEPT ![p] = [Idle EXCEPT !.pc = c]]
  <2>1. Idle = [Idle EXCEPT !.pc = "idle"]
    BY DEF Idle
  <2> QED  BY <2>1, Zenon DEF EndTick, Crash, Restart
<1> QED  BY <1>1 DEF TypeOK, EndTick, Crash, Restart, Out, Others, SameLog, Idle

\* A run ends abandoned, unrecorded or recorded.
LEMMA OverEffect ==
    ASSUME TypeOK, NEW p \in Procs, Abandons(p) \/ MarkThrows(p) \/ MarkJobRun(p)
    PROVE  Over(p) /\ SameLog
<1>1. proc' = [proc EXCEPT ![p] = [proc[p] EXCEPT !.pc = "claiming", !.job = None,
                                                  !.token = None, !.ok = FALSE]]
  BY DEF Abandons, MarkThrows, MarkJobRun, NextDue
<1>2. proc[p].pc \in AtWork /\ SameLog
  BY DEF Abandons, MarkThrows, MarkJobRun, AtWork, SameLog
<1>3. proc[p] \in TickRecords
  BY DEF TypeOK
<1> QED  BY <1>1, <1>2, <1>3 DEF TypeOK, TickRecords, Over, Others, SameTick

\* Settling, delivering and a heartbeat that finds the claim lost write nothing
\* to the store.
LEMMA StageEffect ==
    ASSUME TypeOK, NEW p \in Procs,
           \/ \E ok \in BOOLEAN : Settles(p, ok) \/ Delivers(p, ok)
           \/ Heartbeat(p) /\ ~ (Owns(p) /\ Fresh(proc[p].job))
    PROVE  Stage(p) /\ SameLog /\ UNCHANGED job
<1>1. \E c \in AtWork, ok \in BOOLEAN :
        \/ proc' = [proc EXCEPT ![p] = [proc[p] EXCEPT !.pc = c, !.ok = ok]]
        \/ proc' = [proc EXCEPT ![p] = [proc[p] EXCEPT !.pc = c]]
  BY DEF Settles, Delivers, Heartbeat, AtWork
<1>2. proc[p].pc \in AtWork /\ SameLog /\ UNCHANGED job
  BY DEF Settles, Delivers, Heartbeat, AtWork, SameLog
<1>3. proc[p] \in TickRecords
  BY DEF TypeOK
<1>4. PICK c \in AtWork, ok \in BOOLEAN :
        \/ proc' = [proc EXCEPT ![p] = [proc[p] EXCEPT !.pc = c, !.ok = ok]]
        \/ proc' = [proc EXCEPT ![p] = [proc[p] EXCEPT !.pc = c]]
  BY <1>1
<1>5. /\ Others(p) /\ proc'[p].pc = c /\ SameTick(p) /\ SameRun(p)
  <2>1. CASE proc' = [proc EXCEPT ![p] = [proc[p] EXCEPT !.pc = c, !.ok = ok]]
    BY <1>3, <2>1 DEF TypeOK, TickRecords, Others, SameTick, SameRun
  <2>2. CASE proc' = [proc EXCEPT ![p] = [proc[p] EXCEPT !.pc = c]]
    BY <1>3, <2>2 DEF TypeOK, TickRecords, Others, SameTick, SameRun
  <2> QED  BY <1>4, <2>1, <2>2
<1> QED  BY <1>2, <1>4, <1>5 DEF Stage

\* The heartbeat of a run that owns its fresh claim.
LEMMA BeatEffect ==
    ASSUME TypeOK, Working, NEW p \in Procs, Heartbeat(p), Owns(p), Fresh(proc[p].job)
    PROVE  /\ UNCHANGED proc /\ SameLog /\ proc[p].job \in Jobs
           /\ job' = [job EXCEPT ![proc[p].job].claim.at = now]
  BY DEF Heartbeat, SameLog, Working, AtWork

\* Only a process that finds the lock free lists the due jobs.
LEMMA StartEffect ==
    ASSUME TypeOK, NEW p \in Procs, StartTick(p)
    PROVE  /\ ~InTick(p) /\ LockFree /\ Others(p) /\ SameLog
           /\ job' = [j \in Jobs |-> Seen(j)]
           /\ \/ proc'[p] = proc[p]
              \/ /\ proc'[p].pc = "listed" /\ proc'[p].tick = now
                 /\ proc'[p].job = None /\ proc'[p].token = None
                 /\ proc'[p].due = {[job |-> j, kind |-> job[j].kind, slot |-> NextSeen(j)] : j \in Due}
<1> DEFINE due == {[job |-> j, kind |-> job[j].kind, slot |-> NextSeen(j)] : j \in Due}
<1>1. proc' = [proc EXCEPT ![p] = IF Due = {} THEN @
                  ELSE [Idle EXCEPT !.pc = "listed", !.tick = now, !.due = due]]
  BY DEF StartTick
<1>2. ~InTick(p) /\ LockFree /\ SameLog /\ job' = [j \in Jobs |-> Seen(j)]
  BY DEF StartTick, InTick, SameLog
<1> HIDE DEF due
<1> SUFFICES Others(p) /\ \/ proc'[p] = proc[p]
                          \/ /\ proc'[p].pc = "listed" /\ proc'[p].tick = now
                             /\ proc'[p].job = None /\ proc'[p].token = None
                             /\ proc'[p].due = due
  BY <1>2 DEF due
<1> DEFINE r == [Idle EXCEPT !.pc = "listed", !.tick = now, !.due = due]
<1>3. /\ r.pc = "listed" /\ r.tick = now /\ r.job = None /\ r.token = None
      /\ r.due = due
  BY DEF Idle
<1>4. CASE Due = {}
  BY <1>1, <1>4 DEF TypeOK, Others
<1>5. CASE Due # {}
  <2>1. proc' = [proc EXCEPT ![p] = r]
    BY <1>1, <1>5, Zenon
  <2> HIDE DEF r
  <2> QED  BY <1>3, <2>1 DEF TypeOK, Others
<1> QED  BY <1>4, <1>5

\* Advancing moves the recurring jobs of the list one period on from now.
LEMMA AdvanceEffect ==
    ASSUME TypeOK, NEW p \in Procs, AdvanceNextRuns(p)
    PROVE  /\ proc[p].pc = "listed" /\ proc'[p].pc = "claiming"
           /\ Others(p) /\ SameTick(p) /\ SameRun(p) /\ SameLog
           /\ job' = [j \in Jobs |->
                 IF j \in DueJobs(p) /\ job[j].kind = "every" /\ Exists(j)
                 THEN [job[j] EXCEPT !.next = NextRun(j, proc[p].tick)] ELSE job[j]]
<1>1. proc' = [proc EXCEPT ![p] = [proc[p] EXCEPT !.pc = "claiming"]]
  BY DEF AdvanceNextRuns
<1>2. proc[p] \in TickRecords
  BY DEF TypeOK
<1>3. Others(p) /\ SameTick(p) /\ SameRun(p) /\ proc'[p].pc = "claiming"
  BY <1>1, <1>2 DEF TypeOK, TickRecords, Others, SameTick, SameRun
<1> QED  BY <1>3 DEF AdvanceNextRuns, SameLog

\* An entry that cannot be claimed is passed over.
LEMMA PassEffect ==
    ASSUME TypeOK, NEW p \in Procs, ClaimJobForFire(p),
           ~ Claimable(First(proc[p].due).job)
    PROVE  /\ proc[p].pc = "claiming" /\ proc'[p].pc = "claiming"
           /\ Others(p) /\ SameRun(p) /\ SameLog /\ UNCHANGED job
           /\ proc'[p].tick = proc[p].tick /\ proc'[p].due \subseteq proc[p].due
<1>1. proc' = [proc EXCEPT ![p] = [proc[p] EXCEPT !.due = @ \ {First(proc[p].due)}]]
  BY DEF ClaimJobForFire
<1>2. proc[p] \in TickRecords
  BY DEF TypeOK
<1>3. proc[p].pc = "claiming" /\ SameLog /\ UNCHANGED job
  BY DEF ClaimJobForFire, SameLog
<1> QED  BY <1>1, <1>2, <1>3 DEF TypeOK, TickRecords, Others, SameRun

\* A claim that is won takes the first entry off the list and starts its run.
LEMMA ClaimEffect ==
    ASSUME TypeOK, NEW p \in Procs, ClaimJobForFire(p), NEW e,
           e = First(proc[p].due), Claimable(e.job)
    PROVE  /\ e \in proc[p].due /\ e \in Entries /\ e.job \in Jobs
           /\ fired' = Append(fired, e) /\ UNCHANGED <<world, now>>
           /\ \A j \in Jobs : j # e.job => job'[j] = job[j]
           /\ job'[e.job] = [job[e.job] EXCEPT
                !.claim = [by |-> Len(fired) + 1, at |-> now],
                !.next = IF job[e.job].kind = "every" THEN NextRun(e.job, now) ELSE @]
           /\ Others(p) /\ proc[p].pc = "claiming" /\ proc'[p].pc = "running"
           /\ proc'[p].due = proc[p].due \ {e} /\ proc'[p].tick = proc[p].tick
           /\ proc'[p].job = e.job /\ proc'[p].token = Len(fired) + 1
<1>0. proc[p] \in TickRecords
  BY DEF TypeOK
<1>1. e \in proc[p].due /\ e \in Entries /\ e.job \in Jobs
  <2>1. proc[p].due \in SUBSET Entries /\ proc[p].due # {}
    BY <1>0 DEF TickRecords, ClaimJobForFire
  <2> QED  BY <2>1, FirstIsDue DEF Entries
<1>2. /\ fired' = Append(fired, e) /\ UNCHANGED <<world, now>> /\ proc[p].pc = "claiming"
      /\ job' = [job EXCEPT
                   ![e.job].claim = [by |-> Len(fired) + 1, at |-> now],
                   ![e.job].next = IF job[e.job].kind = "every" THEN NextRun(e.job, now) ELSE @]
      /\ proc' = [proc EXCEPT ![p].pc = "running", ![p].due = @ \ {e},
                              ![p].job = e.job, ![p].token = Len(fired) + 1]
  BY DEF ClaimJobForFire
<1>3. /\ Others(p) /\ proc'[p].pc = "running"
      /\ proc'[p].due = proc[p].due \ {e} /\ proc'[p].tick = proc[p].tick
      /\ proc'[p].job = e.job /\ proc'[p].token = Len(fired) + 1
  BY <1>0, <1>2 DEF TypeOK, TickRecords, Others
<1>4. /\ \A j \in Jobs : j # e.job => job'[j] = job[j]
      /\ job'[e.job] = [job[e.job] EXCEPT
                !.claim = [by |-> Len(fired) + 1, at |-> now],
                !.next = IF job[e.job].kind = "every" THEN NextRun(e.job, now) ELSE @]
  BY <1>1, <1>2 DEF TypeOK, JobRecords
<1> QED  BY <1>1, <1>2, <1>3, <1>4

----------------------------------------------------------------------------
(* The tick lock and the claims *)

\* One process at a time is inside its tick.
OneTick == \A p, q \in Procs : InTick(p) /\ InTick(q) => p = q

\* The record of a job that is running names the run.
Held == \A p \in Procs : proc[p].pc \in AtWork /\ Exists(proc[p].job) => Owns(p)

\* What a step may do to a claim it does not take or give up: the record may
\* go, and otherwise the claim stays, refreshed at most.
KeepsClaim(j) ==
    /\ job[j].state = "gone" => job'[j].state = "gone"
    /\ job'[j].state # "gone" => /\ job'[j].claim.by = job[j].claim.by
                                 /\ job'[j].claim.at \in {job[j].claim.at, now}

\* One edit keeps every claim or removes the job.
LEMMA EditKeepsClaims ==
    ASSUME TypeOK, NEW j \in Jobs, NEW r, Edit(j, r),
           r.state = "gone" \/ r.claim = job[j].claim
    PROVE  \A i \in Jobs : KeepsClaim(i)
  BY DEF Edit, Exists, TypeOK, KeepsClaim

\* So does whatever users do.
LEMMA UsersKeepClaims ==
    ASSUME TypeOK, UserEdits
    PROVE  \A j \in Jobs : KeepsClaim(j)
<1>1. PICK j \in Jobs : \/ Pause(j) \/ Resume(j) \/ Remove(j)
                        \/ \E kind \in {"once", "every"}, at \in RunAts : Update(j, kind, at)
  BY DEF UserEdits
<1>2. job[j] \in JobRecords
  BY DEF TypeOK
<1>3. CASE Pause(j)
  <2>1. [job[j] EXCEPT !.state = "paused"].claim = job[j].claim
    BY <1>2 DEF JobRecords
  <2> QED  BY <1>3, <2>1, EditKeepsClaims DEF Pause
<1>4. CASE Resume(j)
  <2> DEFINE next == IF job[j].kind = "every" THEN now + Period ELSE OneShotAt(job[j].at)
  <2>1. Edit(j, [job[j] EXCEPT !.state = "scheduled", !.next = next])
    BY <1>4 DEF Resume
  <2> HIDE DEF next
  <2>2. [job[j] EXCEPT !.state = "scheduled", !.next = next].claim = job[j].claim
    BY <1>2 DEF JobRecords
  <2> QED  BY <2>1, <2>2, EditKeepsClaims
<1>5. CASE Remove(j)
  <2>1. [job[j] EXCEPT !.state = "gone", !.claim = NoClaim].state = "gone"
    BY <1>2 DEF JobRecords
  <2> QED  BY <1>5, <2>1, EditKeepsClaims DEF Remove
<1>6. ASSUME NEW kind \in {"once", "every"}, NEW at \in RunAts, Update(j, kind, at)
      PROVE  \A i \in Jobs : KeepsClaim(i)
  <2> DEFINE next == IF kind = "every" THEN now + Period ELSE OneShotAt(at)
  <2>1. Edit(j, [job[j] EXCEPT !.kind = kind, !.at = at, !.next = next])
    BY <1>6 DEF Update
  <2> HIDE DEF next
  <2>2. [job[j] EXCEPT !.kind = kind, !.at = at, !.next = next].claim = job[j].claim
    BY <1>2 DEF JobRecords
  <2> QED  BY <2>1, <2>2, EditKeepsClaims
<1> QED  BY <1>1, <1>3, <1>4, <1>5, <1>6

\* The lock admits one tick at a time and a claim stays with its run: every
\* step keeps the three facts together.
LEMMA LockStep ==
    ASSUME TypeOK, Working, OneTick, Held, [Next]_vars
    PROVE  Working' /\ OneTick' /\ Held'
<1> DEFINE Goal == Working' /\ OneTick' /\ Held'
<1>0. ASSUME UNCHANGED proc, \A j \in Jobs : KeepsClaim(j)
      PROVE  Goal
  BY <1>0 DEF Working, OneTick, Held, InTick, Exists, Owns, KeepsClaim, AtWork
<1>1. ASSUME NEW p \in Procs, EndTick(p) \/ Crash(p) \/ Restart(p)
      PROVE  Goal
  BY <1>1, OutEffect DEF Out, Others, Working, OneTick, Held, InTick, Exists, Owns, AtWork
<1>2. ASSUME NEW p \in Procs,
             \/ \E ok \in BOOLEAN : Settles(p, ok) \/ Delivers(p, ok)
             \/ Heartbeat(p) /\ ~ (Owns(p) /\ Fresh(proc[p].job))
      PROVE  Goal
  BY <1>2, StageEffect DEF Stage, Others, SameRun, Working, OneTick, Held, InTick, Exists, Owns,
     AtWork
<1>3. ASSUME NEW p \in Procs, Abandons(p) \/ MarkThrows(p) \/ MarkJobRun(p)
      PROVE  Goal
  <2>1. Over(p)
    BY <1>3, OverEffect
  <2>2. \A q \in Procs : q # p => ~InTick(q)
    BY <2>1 DEF Over, OneTick, InTick, AtWork
  <2> QED  BY <2>1, <2>2 DEF Over, Others, Working, OneTick, Held, InTick, AtWork
<1>4. ASSUME NEW p \in Procs, Heartbeat(p), Owns(p), Fresh(proc[p].job)
      PROVE  Goal
  <2>1. /\ UNCHANGED proc /\ proc[p].job \in Jobs
        /\ job' = [job EXCEPT ![proc[p].job].claim.at = now]
    BY <1>4, BeatEffect
  <2>2. \A j \in Jobs : KeepsClaim(j)
    BY <2>1 DEF KeepsClaim, TypeOK, JobRecords, Claims
  <2> QED  BY <2>1, <2>2, <1>0
<1>5. ASSUME NEW p \in Procs, StartTick(p)
      PROVE  Goal
  <2>1. /\ ~InTick(p) /\ LockFree /\ Others(p)
        /\ \/ proc'[p] = proc[p]
           \/ proc'[p].pc = "listed" /\ proc'[p].job = None
    BY <1>5, StartEffect
  <2> QED  BY <2>1 DEF Others, LockFree, Working, OneTick, Held, InTick, AtWork
<1>6. ASSUME NEW p \in Procs, AdvanceNextRuns(p)
      PROVE  Goal
  <2>1. /\ proc[p].pc = "listed" /\ proc'[p].pc = "claiming" /\ Others(p) /\ SameRun(p)
    BY <1>6, AdvanceEffect
  <2>2. \A q \in Procs : q # p => ~InTick(q)
    BY <2>1 DEF OneTick, InTick
  <2> QED  BY <2>1, <2>2 DEF Others, SameRun, Working, OneTick, Held, InTick, AtWork
<1>7. ASSUME NEW p \in Procs, ClaimJobForFire(p)
      PROVE  Goal
  <2> DEFINE e == First(proc[p].due)
  <2>1. CASE ~ Claimable(e.job)
    BY <1>7, <2>1, PassEffect DEF Others, SameRun, Working, OneTick, Held, InTick, Exists, Owns,
       AtWork
  <2>2. CASE Claimable(e.job)
    <3>1. /\ e.job \in Jobs /\ Others(p) /\ proc[p].pc = "claiming" /\ proc'[p].pc = "running"
          /\ proc'[p].job = e.job /\ proc'[p].token = Len(fired) + 1
          /\ job'[e.job] = [job[e.job] EXCEPT
                !.claim = [by |-> Len(fired) + 1, at |-> now],
                !.next = IF job[e.job].kind = "every" THEN NextRun(e.job, now) ELSE @]
      BY <1>7, <2>2, ClaimEffect
    <3>2. job'[e.job].claim.by = Len(fired) + 1
      BY <3>1 DEF TypeOK, JobRecords
    <3>3. Len(fired) + 1 # None
      BY DEF TypeOK
    <3>4. \A q \in Procs : q # p => ~InTick(q) /\ proc'[q] = proc[q]
      BY <3>1 DEF OneTick, InTick, Others
    <3>5. /\ InTick(p) /\ proc'[p].pc = "running" /\ proc'[p].job \in Jobs
          /\ proc'[p].token = Len(fired) + 1
          /\ job'[proc'[p].job].claim.by = proc'[p].token
      BY <3>1, <3>2 DEF InTick
    <3>6. Working'
      BY <3>3, <3>4, <3>5 DEF Working, AtWork
    <3>7. OneTick'
      BY <3>4, <3>5 DEF OneTick, InTick
    <3>8. Held'
      BY <3>4, <3>5 DEF Held, InTick, AtWork, Owns
    <3> QED  BY <3>6, <3>7, <3>8
  <2> QED  BY <2>1, <2>2
<1>8. CASE Tick
  BY <1>0, <1>8 DEF Tick, KeepsClaim
<1>9. CASE UserEdits
  <2>1. UNCHANGED proc
    BY <1>9 DEF UserEdits, Pause, Resume, Remove, Update, Edit
  <2> QED  BY <1>0, <1>9, <2>1, UsersKeepClaims
<1>10. CASE UNCHANGED vars
  BY <1>0, <1>10 DEF vars, KeepsClaim
<1>11. ASSUME NEW p \in Procs, Run(p) PROVE Goal
  BY <1>11, <1>1, <1>2, <1>3, <1>4, <1>5, <1>6, <1>7 DEF Run
<1> QED
  <2>1. Goal
    BY <1>1, <1>8, <1>9, <1>10, <1>11 DEF Next
  <2> QED  BY <2>1 DEF Goal

----------------------------------------------------------------------------
(* The slots *)

\* What is fired are entries of due lists.
LEMMA FiredEntries ==
    ASSUME TypeOK
    PROVE  \A i \in 1..Len(fired) : fired[i] \in Entries /\ fired[i].slot \in Nat
<1>1. \A i \in 1..Len(fired) : fired[i] \in Entries
  BY DEF TypeOK
<1> QED  BY <1>1 DEF Entries

\* The numbers in a record.
LEMMA RecordTypes ==
    ASSUME TypeOK, NEW j \in Jobs
    PROVE  job[j].claim.at \in Nat /\ job[j].last \in Int /\ job[j].next \in Int
<1>1. job[j] \in JobRecords
  BY DEF TypeOK
<1>2. job[j].claim \in Claims
  BY <1>1 DEF JobRecords
<1> QED  BY <1>1, <1>2 DEF JobRecords, Claims, TypeOK

\* Every slot of the job that was fired as recurring lies before t.
Past(j, t) ==
    \A i \in 1..Len(fired) :
        fired[i].job = j /\ fired[i].kind = "every" => fired[i].slot < t

\* The next run of a recurring job is past every slot that was fired.
Ahead == \A j \in Jobs : Exists(j) /\ job[j].kind = "every" => Past(j, job[j].next)

\* What a tick has listed it may still fire: no slot of the list is behind a
\* fired one, none is after the tick, and no job is listed twice.
TickOK(p) ==
    /\ \A e, f \in proc[p].due : e.job = f.job => e = f
    /\ \A j \in Jobs : Past(j, proc[p].tick + 1)
    /\ \A e \in proc[p].due :
          e.kind = "every" => Past(e.job, e.slot) /\ e.slot <= proc[p].tick

\* No slot is fired before its time.
Elapsed == \A j \in Jobs : Past(j, now + 1)

\* The record remembers every run: under the claim that is still there, or as
\* the last run.
Traced ==
    \A j \in Jobs, i \in 1..Len(fired) :
        Exists(j) /\ fired[i].job = j /\ fired[i].kind = "every"
        => \/ job[j].claim.by # None /\ fired[i].slot <= job[j].claim.at
           \/ fired[i].slot <= job[j].last

Slots == /\ Ahead /\ Elapsed /\ Traced /\ OncePerSlot
         /\ \A p \in Procs : InTick(p) => TickOK(p)

\* A step that fires nothing may rewrite a record like this.
Later(j) ==
    job'[j].state # "gone" =>
        /\ job[j].state # "gone"
        /\ job'[j].kind = "every" => Past(j, job'[j].next)
        /\ \/ /\ job'[j].claim.by = job[j].claim.by
              /\ job[j].claim.at <= job'[j].claim.at
              /\ job[j].last <= job'[j].last
           \/ now <= job'[j].last

\* A step moves a tick on like this, if at all.
Onward(p) ==
    InTick(p)' => InTick(p) /\ proc'[p].due \subseteq proc[p].due
                            /\ proc'[p].tick = proc[p].tick

\* A bound on the fired slots may be moved up.
LEMMA PastLater ==
    ASSUME TypeOK, NEW j, NEW t \in Int, NEW u \in Int, Past(j, t), t <= u
    PROVE  Past(j, u)
<1> QED  BY FiredEntries DEF Past

\* A step that fires nothing keeps the slots in order.
LEMMA NothingFired ==
    ASSUME TypeOK, TypeOK', Slots, fired' = fired, now <= now',
           \A j \in Jobs : Later(j),
           \A p \in Procs : Onward(p) \/ TickOK(p)'
    PROVE  Slots'
<1>0. /\ now \in Nat /\ now' \in Nat
      /\ \A i \in 1..Len(fired) : fired[i].slot \in Nat
      /\ \A j \in Jobs : /\ job[j].claim.at \in Nat /\ job'[j].claim.at \in Nat
                         /\ job[j].last \in Int /\ job'[j].last \in Int
  <2>1. \A i \in 1..Len(fired) : fired[i].slot \in Nat
    BY FiredEntries
  <2>2. \A j \in Jobs : job[j].claim.at \in Nat /\ job[j].last \in Int
    BY RecordTypes
  <2>3. \A j \in Jobs : job'[j].claim.at \in Nat /\ job'[j].last \in Int
    <3>1. job' \in [Jobs -> JobRecords']
      BY DEF TypeOK
    <3>2. \A j \in Jobs : job'[j] \in JobRecords' /\ job'[j].claim \in Claims'
      BY <3>1 DEF JobRecords
    <3> QED  BY <3>2 DEF JobRecords, Claims, TypeOK
  <2> QED  BY <2>1, <2>2, <2>3 DEF TypeOK
<1>1. Ahead'
  BY DEF Slots, Ahead, Later, Exists, Past
<1>2. Elapsed'
  BY <1>0 DEF Slots, Elapsed, Past
<1>3. Traced'
  <2> SUFFICES ASSUME NEW j \in Jobs, NEW i \in 1..Len(fired),
                      job'[j].state # "gone", fired[i].job = j, fired[i].kind = "every"
               PROVE  \/ job'[j].claim.by # None /\ fired[i].slot <= job'[j].claim.at
                      \/ fired[i].slot <= job'[j].last
    BY DEF Traced, Exists
  <2>1. fired[i].slot < now + 1
    BY DEF Slots, Elapsed, Past
  <2>2. \/ job[j].claim.by # None /\ fired[i].slot <= job[j].claim.at
        \/ fired[i].slot <= job[j].last
    BY DEF Slots, Traced, Exists, Later
  <2>3. \/ /\ job'[j].claim.by = job[j].claim.by
           /\ job[j].claim.at <= job'[j].claim.at
           /\ job[j].last <= job'[j].last
        \/ now <= job'[j].last
    BY Zenon DEF Later
  <2>4. /\ now \in Nat /\ fired[i].slot \in Nat
        /\ job[j].claim.at \in Nat /\ job'[j].claim.at \in Nat
        /\ job[j].last \in Int /\ job'[j].last \in Int
    BY <1>0
  <2>5. CASE now <= job'[j].last
    BY <2>1, <2>4, <2>5
  <2>6. CASE /\ job'[j].claim.by = job[j].claim.by
             /\ job[j].claim.at <= job'[j].claim.at
             /\ job[j].last <= job'[j].last
    <3>1. CASE job[j].claim.by # None /\ fired[i].slot <= job[j].claim.at
      BY <2>4, <2>6, <3>1
    <3>2. CASE fired[i].slot <= job[j].last
      BY <2>4, <2>6, <3>2
    <3> QED  BY <2>2, <3>1, <3>2
  <2> QED  BY <2>3, <2>5, <2>6
<1>4. OncePerSlot'
  BY DEF Slots, OncePerSlot
<1>5. ASSUME NEW p \in Procs, InTick(p)' PROVE TickOK(p)'
  BY <1>5 DEF Slots, Onward, TickOK, Past
<1> QED  BY <1>1, <1>2, <1>3, <1>4, <1>5 DEF Slots

\* A record that is left alone,
LEMMA RecordStays ==
    ASSUME TypeOK, Slots, NEW i \in Jobs, job'[i] = job[i]
    PROVE  Later(i)
<1>1. /\ job[i].claim.at \in Nat /\ job[i].last \in Int
      /\ Exists(i) /\ job[i].kind = "every" => Past(i, job[i].next)
  BY RecordTypes DEF Slots, Ahead
<1>2. SUFFICES ASSUME job[i].state # "gone"
               PROVE  /\ job[i].kind = "every" => Past(i, job[i].next)
                      /\ job[i].claim.at <= job[i].claim.at
                      /\ job[i].last <= job[i].last
  BY Zenon DEF Later
<1> QED  BY <1>1, <1>2 DEF Exists

\* one that users edit,
LEMMA UsersLater ==
    ASSUME TypeOK, Slots, UserEdits
    PROVE  \A j \in Jobs : Later(j)
<1>0. now \in Nat
  BY DEF TypeOK
<1>1. \A j \in Jobs : Past(j, now + Period)
  BY <1>0, PastLater DEF Slots, Elapsed
<1>2. ASSUME NEW j \in Jobs, NEW r, Edit(j, r), r.claim = job[j].claim, r.last = job[j].last,
             (r.kind = "every") => (r.next = now + Period \/ (job[j].kind = "every" /\ r.next = job[j].next))
      PROVE  \A i \in Jobs : Later(i)
  <2>1. \A i \in Jobs : /\ job[i].claim.at \in Nat /\ job[i].last \in Int
                        /\ Exists(i) /\ job[i].kind = "every" => Past(i, job[i].next)
    BY RecordTypes DEF Slots, Ahead
  <2>2. \A i \in Jobs : i # j => job'[i] = job[i]
    BY <1>2 DEF Edit, TypeOK
  <2>3. \A i \in Jobs : i # j => Later(i)
    BY <2>2, RecordStays
  <2>4. job'[j] = r /\ Exists(j)
    BY <1>2 DEF Edit, TypeOK
  <2>5. Later(j)
    <3>1. r.kind = "every" => Past(j, r.next)
      <4>1. CASE r.next = now + Period
        BY <1>1, <4>1
      <4>2. CASE job[j].kind = "every" /\ r.next = job[j].next
        BY <2>1, <2>4, <4>2
      <4> QED  BY <1>2, <4>1, <4>2
    <3>2. job[j].claim.at <= r.claim.at /\ job[j].last <= r.last /\ r.claim.by = job[j].claim.by
      BY <1>2, <2>1
    <3> QED  BY <2>4, <3>1, <3>2, Zenon DEF Later, Exists
  <2> QED  BY <2>3, <2>5
<1>3. PICK j \in Jobs : \/ Pause(j) \/ Resume(j) \/ Remove(j)
                        \/ \E kind \in {"once", "every"}, at \in RunAts : Update(j, kind, at)
  BY DEF UserEdits
<1>4. job[j] \in JobRecords
  BY DEF TypeOK
<1>5. CASE Pause(j)
  <2> DEFINE r == [job[j] EXCEPT !.state = "paused"]
  <2>1. r.claim = job[j].claim /\ r.last = job[j].last /\ r.kind = job[j].kind /\ r.next = job[j].next
    BY <1>4 DEF JobRecords
  <2>2. Edit(j, r)
    BY <1>5 DEF Pause
  <2> HIDE DEF r
  <2> QED  BY <2>1, <2>2, <1>2
<1>6. CASE Resume(j)
  <2> DEFINE next == IF job[j].kind = "every" THEN now + Period ELSE OneShotAt(job[j].at)
             r == [job[j] EXCEPT !.state = "scheduled", !.next = next]
  <2>1. job[j].kind = "every" => next = now + Period
    OBVIOUS
  <2>2. Edit(j, r)
    BY <1>6 DEF Resume
  <2> HIDE DEF next
  <2>3. r.claim = job[j].claim /\ r.last = job[j].last /\ r.kind = job[j].kind /\ r.next = next
    BY <1>4 DEF JobRecords
  <2> HIDE DEF r
  <2> QED  BY <2>1, <2>2, <2>3, <1>2
<1>7. CASE Remove(j)
  <2>1. job'[j].state = "gone" /\ \A i \in Jobs : i # j => job'[i] = job[i]
    BY <1>4, <1>7 DEF Remove, Edit, TypeOK, JobRecords
  <2>2. \A i \in Jobs : i # j => Later(i)
    BY <2>1, RecordStays
  <2> QED  BY <2>1, <2>2 DEF Later
<1>8. ASSUME NEW kind \in {"once", "every"}, NEW at \in RunAts, Update(j, kind, at)
      PROVE  \A i \in Jobs : Later(i)
  <2> DEFINE next == IF kind = "every" THEN now + Period ELSE OneShotAt(at)
             r == [job[j] EXCEPT !.kind = kind, !.at = at, !.next = next]
  <2>1. kind = "every" => next = now + Period
    OBVIOUS
  <2>2. Edit(j, r)
    BY <1>8 DEF Update
  <2> HIDE DEF next
  <2>3. r.claim = job[j].claim /\ r.last = job[j].last /\ r.kind = kind /\ r.next = next
    BY <1>4 DEF JobRecords
  <2> HIDE DEF r
  <2> QED  BY <2>1, <2>2, <2>3, <1>2
<1> QED  BY <1>3, <1>5, <1>6, <1>7, <1>8

\* The grace of a catch-up is a number.
LEMMA CatchUpType == CatchUpGrace \in Nat
<1>1. Period \div 2 \in Int
  OBVIOUS
<1>2. MaxGrace \in Nat
  BY CronAssumption
<1> QED  BY <1>1, <1>2 DEF CatchUpGrace

\* A listed recurring job is about to fire a slot that is still ahead, also
\* when it was wedged and is armed now.
LEMMA SeenAhead ==
    ASSUME TypeOK, Slots, NEW j \in Jobs, Listed(j), job[j].kind = "every"
    PROVE  Past(j, NextSeen(j))
<1>0. /\ now \in Nat /\ job[j].claim.at \in Nat /\ job[j].claim.at <= now
      /\ job[j].last \in Int
  <2>1. job[j] \in JobRecords
    BY DEF TypeOK
  <2>2. job[j].claim \in Claims
    BY <2>1 DEF JobRecords
  <2> QED  BY <2>1, <2>2 DEF TypeOK, JobRecords, Claims
<1>1. Past(j, job[j].next)
  BY DEF Listed, Runnable, Exists, Slots, Ahead
<1>2. CASE Wedged(j)
  <2>1. Past(j, now)
    <3> SUFFICES ASSUME NEW i \in 1..Len(fired), fired[i].job = j, fired[i].kind = "every"
                 PROVE  fired[i].slot < now
      BY DEF Past
    <3>0. fired[i].slot \in Nat
      BY FiredEntries
    <3>1. \/ job[j].claim.by # None /\ fired[i].slot <= job[j].claim.at
          \/ fired[i].slot <= job[j].last
      BY DEF Slots, Traced, Listed, Runnable, Exists
    <3>2. CASE job[j].claim.by # None /\ fired[i].slot <= job[j].claim.at
      <4>1. ~ (now - job[j].claim.at \in 0..(Ttl - 1))
        BY <1>2, <3>2 DEF Wedged, Fresh
      <4> QED  BY <1>0, <3>0, <3>2, <4>1
    <3>3. CASE fired[i].slot <= job[j].last
      <4>1. now - job[j].last > Period + CatchUpGrace
        BY <1>2 DEF Wedged
      <4> QED  BY <1>0, <3>0, <3>3, <4>1, CatchUpType
    <3> QED  BY <3>1, <3>2, <3>3
  <2> QED  BY <1>1, <2>1 DEF NextSeen
<1>3. CASE ~Wedged(j)
  BY <1>1, <1>3 DEF NextSeen
<1> QED  BY <1>2, <1>3

\* The list of a new tick holds no fired slot.
LEMMA StartSlots ==
    ASSUME TypeOK, TypeOK', Slots, NEW p \in Procs, StartTick(p)
    PROVE  Slots'
<1>0. /\ ~InTick(p) /\ LockFree /\ Others(p) /\ SameLog
      /\ job' = [j \in Jobs |-> Seen(j)]
      /\ \/ proc'[p] = proc[p]
         \/ /\ proc'[p].pc = "listed" /\ proc'[p].tick = now
            /\ proc'[p].job = None /\ proc'[p].token = None
            /\ proc'[p].due = {[job |-> j, kind |-> job[j].kind, slot |-> NextSeen(j)] : j \in Due}
  BY StartEffect
<1>1. ASSUME NEW j \in Jobs PROVE Later(j)
  <2>1. now \in Nat /\ now + Period \in Nat /\ now + 1 \in Nat /\ now + 1 <= now + Period
    BY DEF TypeOK
  <2>2. /\ job'[j].claim = job[j].claim /\ job'[j].last = job[j].last
        /\ job'[j].kind = job[j].kind
        /\ job'[j].state = "gone" <=> job[j].state = "gone"
        /\ job'[j].next = IF Listed(j) /\ job[j].kind = "every"
                          THEN SkipMissed(NextSeen(j)) ELSE job[j].next
    BY <1>0, SeenFacts, Zenon
  <2>3. job[j].kind = "every" /\ job[j].state # "gone" => Past(j, job'[j].next)
    <3>1. CASE Listed(j)
      <4>1. Past(j, now + Period)
        BY <2>1, PastLater DEF Slots, Elapsed
      <4> QED  BY <2>2, <3>1, <4>1, SeenAhead DEF SkipMissed
    <3>2. CASE ~Listed(j)
      BY <2>2, <3>2 DEF Slots, Ahead, Exists
    <3> QED  BY <3>1, <3>2
  <2>4. job[j].claim.at <= job'[j].claim.at /\ job[j].last <= job'[j].last
    BY <2>2, RecordTypes
  <2> QED  BY <2>2, <2>3, <2>4, Zenon DEF Later
<1>2. ASSUME NEW q \in Procs, q # p PROVE Onward(q)
  BY <1>0, <1>2 DEF Others, Onward, InTick
<1>3. Onward(p) \/ TickOK(p)'
  <2>1. CASE proc'[p] = proc[p]
    BY <1>0, <2>1 DEF Onward, InTick
  <2>2. CASE proc'[p] # proc[p]
    <3>1. proc'[p].tick = now /\ fired' = fired
      BY <1>0, <2>2 DEF SameLog
    <3>2. ASSUME NEW e \in proc'[p].due
          PROVE  \E j \in Due : e.job = j /\ e.kind = job[j].kind /\ e.slot = NextSeen(j)
      BY <1>0, <2>2
    <3>3. \A e, f \in proc'[p].due : e.job = f.job => e = f
      BY <1>0, <2>2
    <3>4. \A j \in Jobs : Past(j, now + 1)
      BY DEF Slots, Elapsed
    <3>5. ASSUME NEW e \in proc'[p].due, e.kind = "every"
          PROVE  Past(e.job, e.slot) /\ e.slot <= now
      <4>1. PICK j \in Due : e.job = j /\ e.kind = job[j].kind /\ e.slot = NextSeen(j)
        BY <3>2
      <4>2. j \in Jobs /\ Listed(j) /\ NextSeen(j) <= now
        BY <3>5, <4>1 DEF Due, DueEvery
      <4> QED  BY <3>5, <4>1, <4>2, SeenAhead
    <3>6. TickOK(p)'
      BY <3>1, <3>3, <3>4, <3>5 DEF TickOK, Past
    <3> QED  BY <3>6
  <2> QED  BY <2>1, <2>2
<1>4. fired' = fired /\ now <= now'
  BY <1>0 DEF SameLog, TypeOK
<1> QED  BY <1>1, <1>2, <1>3, <1>4, NothingFired

\* Advancing moves records ahead of the list, never behind a fired slot.
LEMMA AdvanceSlots ==
    ASSUME TypeOK, TypeOK', Slots, NEW p \in Procs, AdvanceNextRuns(p)
    PROVE  Slots'
<1>0. /\ proc[p].pc = "listed" /\ Others(p) /\ SameTick(p) /\ SameLog
      /\ job' = [j \in Jobs |->
                 IF j \in DueJobs(p) /\ job[j].kind = "every" /\ Exists(j)
                 THEN [job[j] EXCEPT !.next = NextRun(j, proc[p].tick)] ELSE job[j]]
  BY AdvanceEffect
<1>1. ASSUME NEW j \in Jobs PROVE Later(j)
  <2>1. CASE j \in DueJobs(p) /\ job[j].kind = "every" /\ Exists(j)
    <3>1. job'[j] = [job[j] EXCEPT !.next = proc[p].tick + Period]
      BY <1>0, <2>1 DEF NextRun
    <3>2. job[j] \in JobRecords /\ proc[p].tick \in Nat
      BY DEF TypeOK, TickRecords
    <3>3. job'[j].next = proc[p].tick + Period /\ job'[j].claim = job[j].claim
          /\ job'[j].last = job[j].last
      BY <3>1, <3>2 DEF JobRecords
    <3>4. Past(j, proc[p].tick + 1)
      BY <1>0 DEF Slots, TickOK, InTick
    <3>5. Past(j, job'[j].next)
      <4>1. proc[p].tick + 1 \in Int /\ proc[p].tick + Period \in Int
            /\ proc[p].tick + 1 <= proc[p].tick + Period
        BY <3>2
      <4> QED  BY <3>3, <3>4, <4>1, PastLater
    <3>6. job[j].claim.at <= job'[j].claim.at /\ job[j].last <= job'[j].last
      <4>1. job[j].claim.at <= job[j].claim.at /\ job[j].last <= job[j].last
        BY RecordTypes
      <4> QED  BY <3>3, <4>1, Zenon
    <3> QED  BY <2>1, <3>3, <3>5, <3>6, Zenon DEF Later, Exists
  <2>2. CASE ~ (j \in DueJobs(p) /\ job[j].kind = "every" /\ Exists(j))
    <3>1. job'[j] = job[j]
      BY <1>0, <2>2, Zenon
    <3> QED  BY <3>1, RecordStays
  <2> QED  BY <2>1, <2>2
<1>2. \A q \in Procs : Onward(q)
  BY <1>0 DEF Others, SameTick, Onward, InTick
<1>3. fired' = fired /\ now <= now'
  BY <1>0 DEF SameLog, TypeOK
<1> QED  BY <1>1, <1>2, <1>3, NothingFired

\* The end of a run is recorded as the last run before the claim is cleared.
LEMMA OverSlots ==
    ASSUME TypeOK, TypeOK', Working, Slots, NEW p \in Procs,
           Abandons(p) \/ MarkThrows(p) \/ MarkJobRun(p)
    PROVE  Slots'
<1>0. Over(p) /\ SameLog
  BY OverEffect
<1>1. ASSUME NEW j \in Jobs PROVE Later(j)
  <2>1. CASE job'[j] = job[j]
    BY <2>1, RecordStays
  <2>2. CASE job'[j] # job[j]
    <3> DEFINE st == IF proc[p].ok THEN "ok" ELSE "error"
    <3>1. MarkJobRun(p) /\ Owns(p)
      BY <2>2 DEF Abandons, MarkThrows, MarkJobRun
    <3>2. /\ proc[p].job \in Jobs
          /\ job' = [job EXCEPT ![proc[p].job] = [AfterRun(proc[p].job) EXCEPT
                        !.last = now, !.claim = NoClaim, !.status = st]]
      BY <3>1, Zenon DEF MarkJobRun, Over, Working, AtWork
    <3>3. j = proc[p].job /\ Exists(j)
      BY <2>2, <3>1, <3>2 DEF TypeOK, Owns
    <3> HIDE DEF st
    <3>4. job'[j] = [AfterRun(j) EXCEPT !.last = now, !.claim = NoClaim, !.status = st]
      BY <3>2, <3>3 DEF TypeOK
    <3>5. job[j] \in JobRecords /\ now + Period \in Nat /\ now + 1 \in Nat
          /\ now + 1 <= now + Period /\ now <= now
      BY DEF TypeOK
    <3>6. Past(j, now + Period)
      BY <3>5, PastLater DEF Slots, Elapsed
    <3>7. /\ job[j].kind = "every" => AfterRun(j) = [job[j] EXCEPT !.next = now + Period]
          /\ job[j].kind # "every" => AfterRun(j) = [job[j] EXCEPT !.next = None, !.state = "completed"]
      BY Zenon DEF AfterRun
    <3>8. /\ job'[j].last = now
          /\ job'[j].kind = "every" => job'[j].next = now + Period
      BY <3>4, <3>5, <3>7 DEF JobRecords
    <3> QED  BY <3>3, <3>5, <3>6, <3>8, Zenon DEF Later, Exists
  <2> QED  BY <2>1, <2>2
<1>2. \A q \in Procs : Onward(q)
  BY <1>0 DEF Over, Others, SameTick, Onward, InTick, AtWork
<1>3. fired' = fired /\ now <= now'
  BY <1>0 DEF SameLog, TypeOK
<1> QED  BY <1>1, <1>2, <1>3, NothingFired

\* A heartbeat only makes the claim younger.
LEMMA BeatSlots ==
    ASSUME TypeOK, TypeOK', Working, Slots, NEW p \in Procs,
           Heartbeat(p), Owns(p), Fresh(proc[p].job)
    PROVE  Slots'
<1> DEFINE k == proc[p].job
<1>0. UNCHANGED proc /\ SameLog /\ k \in Jobs /\ job' = [job EXCEPT ![k].claim.at = now]
  BY BeatEffect
<1> HIDE DEF k
<1>1. ASSUME NEW j \in Jobs PROVE Later(j)
  <2>1. CASE j # k
    <3>1. job'[j] = job[j]
      BY <1>0, <2>1 DEF TypeOK
    <3> QED  BY <3>1, RecordStays
  <2>2. CASE j = k
    <3>1. job[j] \in JobRecords /\ job[j].claim \in Claims
      BY DEF TypeOK, JobRecords
    <3>2. job'[j] = [job[j] EXCEPT !.claim = [job[j].claim EXCEPT !.at = now]]
      BY <1>0, <2>2 DEF TypeOK
    <3>3. /\ job'[j].kind = job[j].kind /\ job'[j].next = job[j].next
          /\ job'[j].state = job[j].state /\ job'[j].last = job[j].last
          /\ job'[j].claim = [job[j].claim EXCEPT !.at = now]
      BY <3>1, <3>2 DEF JobRecords
    <3>4. job'[j].claim.by = job[j].claim.by /\ job'[j].claim.at = now
      BY <3>1, <3>3 DEF Claims
    <3>5. job[j].claim.at <= now
      BY <3>1 DEF Claims, TypeOK
    <3>6. job[j].last <= job[j].last
      BY RecordTypes
    <3>7. job[j].kind = "every" /\ job[j].state # "gone" => Past(j, job[j].next)
      BY DEF Slots, Ahead, Exists
    <3> QED  BY <3>3, <3>4, <3>5, <3>6, <3>7, Zenon DEF Later
  <2> QED  BY <2>1, <2>2
<1>2. \A q \in Procs : Onward(q)
  BY <1>0 DEF Onward, InTick
<1>3. fired' = fired /\ now <= now'
  BY <1>0 DEF SameLog, TypeOK
<1> QED  BY <1>1, <1>2, <1>3, NothingFired

\* The slot that is fired lies past every slot fired before.
LEMMA ClaimSlots ==
    ASSUME TypeOK, TypeOK', OneTick, Slots, NEW p \in Procs,
           ClaimJobForFire(p), Claimable(First(proc[p].due).job)
    PROVE  Slots'
<1> DEFINE n == Len(fired)
           e == First(proc[p].due)
<1>0. /\ e \in proc[p].due /\ e \in Entries /\ e.job \in Jobs
      /\ fired' = Append(fired, e) /\ UNCHANGED <<world, now>>
      /\ \A j \in Jobs : j # e.job => job'[j] = job[j]
      /\ job'[e.job] = [job[e.job] EXCEPT
           !.claim = [by |-> Len(fired) + 1, at |-> now],
           !.next = IF job[e.job].kind = "every" THEN NextRun(e.job, now) ELSE @]
      /\ Others(p) /\ proc[p].pc = "claiming" /\ proc'[p].pc = "running"
      /\ proc'[p].due = proc[p].due \ {e} /\ proc'[p].tick = proc[p].tick
  BY ClaimEffect
<1> HIDE DEF e
<1>1. /\ n \in Nat /\ Len(fired') = n + 1 /\ fired'[n + 1] = e
      /\ \A i \in 1..n : fired'[i] = fired[i] /\ fired[i].slot \in Nat
      /\ e.slot \in Nat /\ now \in Nat
      /\ 1..(n + 1) = 1..n \cup {n + 1}
  <2>1. \A i \in 1..n : fired[i].slot \in Nat
    BY FiredEntries
  <2>2. n \in Nat /\ now \in Nat /\ 1..(n + 1) = 1..n \cup {n + 1}
    BY DEF TypeOK
  <2>3. Len(fired') = n + 1 /\ fired'[n + 1] = e /\ \A i \in 1..n : fired'[i] = fired[i]
    BY <1>0 DEF TypeOK
  <2>4. e.slot \in Nat
    BY <1>0 DEF Entries
  <2> QED  BY <2>1, <2>2, <2>3, <2>4
<1> HIDE DEF n
<1>2. ASSUME NEW j, NEW t, Past(j, t), e.job = j /\ e.kind = "every" => e.slot < t
      PROVE  Past(j, t)'
  BY <1>1, <1>2 DEF Past, n
<1>3. /\ proc[p].tick \in Nat /\ proc[p].tick <= now
      /\ e.kind = "every" => Past(e.job, e.slot) /\ e.slot <= proc[p].tick
      /\ \A j \in Jobs : Past(j, proc[p].tick + 1)
      /\ \A f, g \in proc[p].due : f.job = g.job => f = g
      /\ \A f \in proc[p].due :
            f.kind = "every" => Past(f.job, f.slot) /\ f.slot <= proc[p].tick
  <2>1. TickOK(p)
    BY <1>0 DEF Slots, InTick
  <2>2. proc[p].tick \in Nat /\ proc[p].tick <= now
    BY DEF TypeOK, TickRecords
  <2> QED  BY <1>0, <2>1, <2>2 DEF TickOK
<1>4. \A j \in Jobs : Past(j, now + 1)
  BY DEF Slots, Elapsed
<1>5. Elapsed'
  <2>1. ASSUME NEW j \in Jobs PROVE Past(j, now + 1)'
    <3>1. e.kind = "every" => e.slot < now + 1
      BY <1>1, <1>3
    <3> QED  BY <1>0, <1>2, <1>4, <3>1
  <2> QED  BY <1>0, <2>1 DEF Elapsed
<1>6. /\ job'[e.job].claim = [by |-> n + 1, at |-> now]
      /\ job'[e.job].kind = job[e.job].kind
      /\ job[e.job].kind = "every" => job'[e.job].next = now + Period
  <2>1. job[e.job] \in JobRecords
    BY <1>0 DEF TypeOK
  <2> DEFINE nx == IF job[e.job].kind = "every" THEN NextRun(e.job, now) ELSE job[e.job].next
             c == [by |-> Len(fired) + 1, at |-> now]
  <2>2. job'[e.job] = [job[e.job] EXCEPT !.claim = c, !.next = nx]
    BY <1>0
  <2>3. job[e.job].kind = "every" => nx = now + Period
    BY DEF NextRun
  <2>4. c = [by |-> n + 1, at |-> now]
    BY DEF n
  <2> HIDE DEF nx, c
  <2> QED  BY <2>1, <2>2, <2>3, <2>4 DEF JobRecords
<1>7. Ahead'
  <2> SUFFICES ASSUME NEW j \in Jobs, Exists(j)', job'[j].kind = "every"
               PROVE  Past(j, job[j].next)'
    BY DEF Ahead
  <2>1. CASE j # e.job
    <3>1. job'[j] = job[j]
      BY <1>0, <2>1
    <3>2. Past(j, job[j].next)
      BY <3>1 DEF Slots, Ahead, Exists
    <3> DEFINE t == job[j].next
    <3>3. job'[j].next = t /\ Past(j, t)
      BY <3>1, <3>2
    <3> HIDE DEF t
    <3> QED  BY <1>1, <2>1, <3>3 DEF Past, n
  <2>2. CASE j = e.job
    <3>1. job'[j].next = now + Period
      BY <1>6, <2>2
    <3>2. Past(j, now + Period)
      BY <1>1, <1>4, PastLater
    <3>3. e.kind = "every" => e.slot < now + Period
      BY <1>1, <1>3
    <3> QED  BY <1>1, <3>1, <3>2, <3>3 DEF Past, n
  <2> QED  BY <2>1, <2>2
<1>8. Traced'
  <2> SUFFICES ASSUME NEW j \in Jobs, NEW i \in 1..(n + 1),
                      Exists(j)', fired'[i].job = j, fired'[i].kind = "every"
               PROVE  \/ job'[j].claim.by # None /\ fired'[i].slot <= job'[j].claim.at
                      \/ fired'[i].slot <= job'[j].last
    BY <1>1 DEF Traced
  <2>1. CASE j # e.job
    <3>1. job'[j] = job[j]
      BY <1>0, <2>1
    <3>2. i \in 1..n /\ fired'[i] = fired[i]
      BY <1>1, <2>1
    <3> QED  BY <3>1, <3>2 DEF Slots, Traced, Exists, n
  <2>2. CASE j = e.job
    <3>1. fired'[i].slot < now + 1 /\ fired'[i].slot \in Nat
      <4>1. CASE i \in 1..n
        <5>1. fired'[i] = fired[i] /\ fired[i].slot \in Nat
          BY <1>1, <4>1
        <5>2. fired[i].slot < now + 1
          BY <1>4, <4>1, <5>1 DEF Past, n
        <5> QED  BY <5>1, <5>2
      <4>2. CASE i = n + 1
        <5>1. fired'[i] = e
          BY <1>1, <4>2
        <5> QED  BY <1>1, <1>3, <5>1
      <4> QED  BY <1>1, <4>1, <4>2
    <3>2. job'[j].claim.by = n + 1 /\ job'[j].claim.at = now
      BY <1>6, <2>2
    <3> QED  BY <1>1, <3>1, <3>2
  <2> QED  BY <2>1, <2>2
<1>9. OncePerSlot'
  <2> SUFFICES ASSUME NEW i \in 1..(n + 1), NEW k \in 1..(n + 1), i < k,
                      fired'[i].job = fired'[k].job,
                      fired'[i].kind = "every", fired'[k].kind = "every"
               PROVE  fired'[i].slot < fired'[k].slot
    BY <1>1 DEF OncePerSlot
  <2>1. i \in 1..n
    BY <1>1
  <2>2. CASE k \in 1..n
    BY <1>1, <2>1, <2>2 DEF Slots, OncePerSlot, n
  <2>3. CASE k = n + 1
    BY <1>1, <1>3, <2>1, <2>3 DEF Past, n
  <2> QED  BY <1>1, <2>2, <2>3
<1>10. ASSUME NEW q \in Procs, InTick(q)' PROVE TickOK(q)'
  <2>1. q = p
    BY <1>0, <1>10 DEF Others, OneTick, InTick
  <2>2. \A f, g \in proc'[p].due : f.job = g.job => f = g
    BY <1>0, <1>3
  <2>3. ASSUME NEW j \in Jobs PROVE Past(j, proc[p].tick + 1)'
    <3>1. e.kind = "every" => e.slot < proc[p].tick + 1
      BY <1>1, <1>3
    <3>2. proc'[p].tick = proc[p].tick
      BY <1>0
    <3>3. Past(j, proc[p].tick + 1)
      BY <1>3
    <3> QED  BY <1>1, <3>1, <3>2, <3>3 DEF Past, n
  <2>4. ASSUME NEW f \in proc'[p].due, f.kind = "every"
        PROVE  Past(f.job, f.slot)' /\ f.slot <= proc'[p].tick
    <3>1. f \in proc[p].due /\ f # e
      BY <1>0, <2>4
    <3>2. f.job # e.job /\ Past(f.job, f.slot) /\ f.slot <= proc[p].tick
      BY <1>0, <1>3, <2>4, <3>1
    <3> QED  BY <1>0, <1>2, <3>2
  <2>5. \A f \in proc'[p].due : f.kind = "every" => Past(f.job, f.slot)' /\ f.slot <= proc'[p].tick
    BY <2>4
  <2> QED  BY <2>1, <2>2, <2>3, <2>5 DEF TickOK
<1> QED  BY <1>5, <1>7, <1>8, <1>9, <1>10 DEF Slots

\* Every step keeps the slots in order.
LEMMA SlotStep ==
    ASSUME TypeOK, TypeOK', Working, OneTick, Slots, [Next]_vars
    PROVE  Slots'
<1>1. ASSUME UNCHANGED <<job, proc, fired>>, now <= now' PROVE Slots'
  BY <1>1, RecordStays, NothingFired DEF Onward, InTick
<1>2. ASSUME NEW p \in Procs, UNCHANGED job, SameLog, Out(p) \/ Stage(p)
      PROVE  Slots'
  <2>1. \A q \in Procs : Onward(q)
    BY <1>2 DEF Out, Stage, Others, SameTick, Onward, InTick, AtWork
  <2>2. now <= now' /\ fired' = fired
    BY <1>2 DEF SameLog, TypeOK
  <2> QED  BY <1>2, <2>1, <2>2, RecordStays, NothingFired
<1>3. ASSUME NEW p \in Procs, ClaimJobForFire(p), ~ Claimable(First(proc[p].due).job)
      PROVE  Slots'
  <2>1. UNCHANGED job /\ SameLog /\ \A q \in Procs : Onward(q)
    BY <1>3, PassEffect DEF Others, Onward, InTick
  <2>2. now <= now' /\ fired' = fired
    BY <2>1 DEF SameLog, TypeOK
  <2> QED  BY <2>1, <2>2, RecordStays, NothingFired
<1>4. ASSUME NEW p \in Procs, Run(p) PROVE Slots'
  BY <1>4, <1>2, <1>3, OutEffect, StageEffect, StartSlots, AdvanceSlots, ClaimSlots,
     BeatSlots, OverSlots DEF Run
<1>5. ASSUME NEW p \in Procs, Crash(p) \/ Restart(p) PROVE Slots'
  BY <1>5, <1>2, OutEffect
<1>6. CASE UserEdits
  <2>1. UNCHANGED <<world, now, proc, fired>>
    BY <1>6 DEF UserEdits, Pause, Resume, Remove, Update, Edit
  <2>2. now <= now' /\ \A q \in Procs : Onward(q)
    BY <2>1 DEF TypeOK, Onward, InTick
  <2> QED  BY <1>6, <2>1, <2>2, UsersLater, NothingFired
<1>7. CASE Tick
  BY <1>1, <1>7 DEF Tick, TypeOK
<1>8. CASE UNCHANGED vars
  BY <1>1, <1>8 DEF vars, TypeOK
<1> QED  BY <1>4, <1>5, <1>6, <1>7, <1>8 DEF Next

----------------------------------------------------------------------------
(* Results *)

\* Without stalls a running job's claim is fresh, and no run is interrupted
\* unless its job was removed.
Prompt ==
    ~world.stalls =>
    \A p \in Procs : proc[p].pc \in AtWork /\ Exists(proc[p].job) =>
        /\ proc[p].pc # "aborted"
        /\ proc[p].pc = "running" => now - job[proc[p].job].claim.at < Ttl

\* A tick of the clock waits for the heartbeat that is due, so no claim expires
\* under a running job.
LEMMA PromptStep ==
    ASSUME TypeOK, Working, OneTick, Held, Prompt, [Next]_vars
    PROVE  Prompt'
<1>0. now \in Nat /\ now - now < Ttl
  BY DEF TypeOK
<1>1. ASSUME UNCHANGED <<world, now, proc>>, \A j \in Jobs : KeepsClaim(j)
      PROVE  Prompt'
  <2> SUFFICES ASSUME ~world.stalls, NEW p \in Procs, proc[p].pc \in AtWork,
                      job'[proc[p].job].state # "gone"
               PROVE  /\ proc[p].pc # "aborted"
                      /\ proc[p].pc = "running" => now - job'[proc[p].job].claim.at < Ttl
    BY <1>1 DEF Prompt, Exists
  <2>1. proc[p].job \in Jobs
    BY DEF Working
  <2>2. Exists(proc[p].job) /\ job'[proc[p].job].claim.at \in {job[proc[p].job].claim.at, now}
    BY <1>1, <2>1 DEF KeepsClaim, Exists
  <2>3. /\ proc[p].pc # "aborted"
        /\ proc[p].pc = "running" => now - job[proc[p].job].claim.at < Ttl
    BY <2>2 DEF Prompt
  <2> QED  BY <1>0, <2>2, <2>3
<1>2. ASSUME NEW p \in Procs, Others(p), InTick(p) \/ LockFree,
             proc'[p].pc \notin AtWork
      PROVE  Prompt'
  BY <1>2 DEF Others, OneTick, LockFree, InTick, Prompt, AtWork
<1>3. ASSUME NEW p \in Procs, Crash(p) \/ Restart(p) \/ EndTick(p)
      PROVE  Prompt'
  <2>1. Out(p) /\ SameLog /\ UNCHANGED job
    BY <1>3, OutEffect
  <2> QED  BY <2>1 DEF Out, Others, SameLog, Prompt, AtWork, Exists
<1>4. ASSUME NEW p \in Procs, Abandons(p) \/ MarkThrows(p) \/ MarkJobRun(p)
      PROVE  Prompt'
  <2>1. Over(p)
    BY <1>4, OverEffect
  <2> QED  BY <1>2, <2>1 DEF Over, AtWork, InTick
<1>5. ASSUME NEW p \in Procs, NEW ok \in BOOLEAN, Settles(p, ok) \/ Delivers(p, ok)
      PROVE  Prompt'
  <2>1. Stage(p) /\ SameLog /\ UNCHANGED job
    BY <1>5, StageEffect
  <2>2. proc'[p].pc \in {"settled", "delivered"}
    BY <1>5 DEF Settles, Delivers, TypeOK, TickRecords
  <2> QED  BY <2>1, <2>2 DEF Stage, Others, SameRun, SameLog, Prompt, AtWork, Exists
<1>6. ASSUME NEW p \in Procs, Heartbeat(p), ~ (Owns(p) /\ Fresh(proc[p].job))
      PROVE  Prompt'
  <2>1. Stage(p) /\ SameLog /\ UNCHANGED job
    BY <1>6, StageEffect
  <2>2. proc[p].pc = "running"
    BY <1>6 DEF Heartbeat
  <2>3. world.stalls \/ ~Exists(proc[p].job)
    <3> SUFFICES ASSUME ~world.stalls, Exists(proc[p].job) PROVE FALSE
      OBVIOUS
    <3>1. Owns(p) /\ now - job[proc[p].job].claim.at < Ttl
      BY <2>2 DEF Held, AtWork, Prompt
    <3>2. job[proc[p].job].claim.by # None
      BY <2>2, <3>1 DEF Owns, Working, AtWork
    <3>3. proc[p].job \in Jobs
      BY <2>2 DEF Working, AtWork
    <3>4. job[proc[p].job].claim.at \in Nat /\ job[proc[p].job].claim.at <= now
      <4>1. job[proc[p].job].claim \in Claims
        BY <3>3 DEF TypeOK, JobRecords
      <4> QED  BY <4>1 DEF Claims, TypeOK
    <3>5. now - job[proc[p].job].claim.at \in 0..(Ttl - 1)
      BY <1>0, <3>1, <3>4
    <3> QED  BY <1>6, <3>1, <3>2, <3>5 DEF Fresh
  <2> QED  BY <2>1, <2>2, <2>3 DEF Stage, Others, SameRun, SameLog, Prompt, AtWork, Exists
<1>7. ASSUME NEW p \in Procs, Heartbeat(p), Owns(p), Fresh(proc[p].job)
      PROVE  Prompt'
  <2>1. /\ UNCHANGED proc /\ SameLog /\ proc[p].job \in Jobs
        /\ job' = [job EXCEPT ![proc[p].job].claim.at = now]
    BY <1>7, BeatEffect
  <2>2. \A j \in Jobs : KeepsClaim(j)
    BY <2>1 DEF KeepsClaim, TypeOK, JobRecords, Claims
  <2> QED  BY <1>1, <2>1, <2>2 DEF SameLog
<1>8. ASSUME NEW p \in Procs, StartTick(p) PROVE Prompt'
  <2>1. /\ ~InTick(p) /\ LockFree /\ Others(p)
        /\ \/ proc'[p] = proc[p]
           \/ proc'[p].pc = "listed" /\ proc'[p].job = None
    BY <1>8, StartEffect
  <2> QED  BY <1>2, <2>1 DEF InTick, AtWork
<1>9. ASSUME NEW p \in Procs, AdvanceNextRuns(p) PROVE Prompt'
  <2>1. proc[p].pc = "listed" /\ proc'[p].pc = "claiming" /\ Others(p)
    BY <1>9, AdvanceEffect
  <2> QED  BY <1>2, <2>1 DEF InTick, AtWork
<1>10. ASSUME NEW p \in Procs, ClaimJobForFire(p) PROVE Prompt'
  <2> DEFINE e == First(proc[p].due)
  <2>1. CASE ~ Claimable(e.job)
    <3>1. proc[p].pc = "claiming" /\ proc'[p].pc = "claiming" /\ Others(p)
      BY <1>10, <2>1, PassEffect
    <3> QED  BY <1>2, <3>1 DEF InTick, AtWork
  <2>2. CASE Claimable(e.job)
    <3>1. /\ e.job \in Jobs /\ Others(p) /\ proc[p].pc = "claiming" /\ proc'[p].pc = "running"
          /\ proc'[p].job = e.job /\ UNCHANGED <<world, now>>
          /\ job'[e.job] = [job[e.job] EXCEPT
                !.claim = [by |-> Len(fired) + 1, at |-> now],
                !.next = IF job[e.job].kind = "every" THEN NextRun(e.job, now) ELSE @]
      BY <1>10, <2>2, ClaimEffect
    <3>2. job'[e.job].claim.at = now
      BY <3>1 DEF TypeOK, JobRecords
    <3>3. \A q \in Procs : q # p => proc'[q].pc \notin AtWork
      BY <3>1 DEF OneTick, InTick, Others, AtWork
    <3>4. job'[proc'[p].job].claim.at = now /\ proc'[p].pc = "running" /\ now' = now
      BY <3>1, <3>2
    <3> QED  BY <1>0, <3>3, <3>4 DEF Prompt
  <2> QED  BY <2>1, <2>2
<1>11. CASE Tick
  <2>1. now' = now + 1 /\ UNCHANGED <<world, job, proc>>
    BY <1>11 DEF Tick
  \* The clock after the step, named to state the goal without a prime.
  <2> DEFINE t == now'
  <2>2. UNCHANGED <<world, job, proc>> /\ now' = t
    BY <2>1
  <2> HIDE DEF t
  <2> SUFFICES ASSUME ~world.stalls, NEW p \in Procs, proc[p].pc \in AtWork,
                      job'[proc[p].job].state # "gone"
               PROVE  /\ proc[p].pc # "aborted"
                      /\ proc[p].pc = "running" => t - job'[proc[p].job].claim.at < Ttl
    BY <2>2 DEF Prompt, Exists
  <2>3. proc[p].pc = "running" => now + 1 - job[proc[p].job].claim.at < Ttl
    BY <1>11 DEF Tick
  <2>4. t = now + 1 /\ job' = job
    BY <2>1, <2>2
  <2>5. proc[p].pc # "aborted"
    BY <2>4 DEF Prompt, Exists
  <2>6. /\ job'[proc[p].job].claim.at = job[proc[p].job].claim.at
        /\ job[proc[p].job].claim.at \in Nat
    <3>1. job[proc[p].job].claim \in Claims
      BY DEF Working, TypeOK, JobRecords
    <3> QED  BY <2>4, <3>1 DEF Claims
  <2> QED  BY <1>0, <2>3, <2>4, <2>5, <2>6
<1>12. CASE UserEdits
  <2>1. UNCHANGED <<world, now, proc>>
    BY <1>12 DEF UserEdits, Pause, Resume, Remove, Update, Edit
  <2> QED  BY <1>1, <1>12, <2>1, UsersKeepClaims
<1>13. CASE UNCHANGED vars
  BY <1>1, <1>13 DEF vars, KeepsClaim
<1> QED
  BY <1>3, <1>4, <1>5, <1>6, <1>7, <1>8, <1>9, <1>10, <1>11, <1>12, <1>13 DEF Next, Run

\* The inductive invariant.
Inv == TypeOK /\ Working /\ OneTick /\ Held /\ Slots /\ Prompt

\* The invariant holds at first
LEMMA InvInit == Init => Inv
<1> SUFFICES ASSUME Init PROVE Inv
  OBVIOUS
<1>1. TypeOK
  <2>0. world \in Worlds /\ now = 0 /\ crashes = 0 /\ fired = <<>> /\ recorded = {}
        /\ proc = [p \in Procs |-> Idle]
    BY DEF Init
  <2>1. NoClaim \in Claims
    BY <2>0 DEF NoClaim, Claims
  <2>2. \A kind \in {"once", "every"}, at \in Nat : Created(kind, at) \in JobRecords
    BY <2>0, <2>1 DEF Created, JobRecords
  <2>3. Absent \in JobRecords
    <3>1. Created("every", 0) \in JobRecords
      BY <2>2
    <3> QED  BY <3>1 DEF Absent, JobRecords
  <2>4. job \in [Jobs -> JobRecords]
    <3>1. PICK kind \in [world.jobs -> {"once", "every"}], at \in [world.jobs -> RunAts] :
            job = [j \in Jobs |-> IF j \in world.jobs THEN Created(kind[j], at[j]) ELSE Absent]
      BY DEF Init
    <3>2. \A j \in world.jobs : kind[j] \in {"once", "every"} /\ at[j] \in Nat
      BY <3>1, CronAssumption
    <3> QED  BY <2>2, <2>3, <3>1, <3>2
  <2>5. Idle \in TickRecords
    BY <2>0 DEF Idle, TickRecords
  <2>6. world.until \in Nat /\ world.crashes \in Nat /\ world.fires \in Nat
    BY <2>0, CronAssumption
  <2> QED  BY <2>0, <2>4, <2>5, <2>6 DEF TypeOK
<1>2. \A p \in Procs : proc[p].pc = "idle" /\ proc[p].job = None
  BY DEF Init, Idle
<1>3. Len(fired) = 0
  BY DEF Init
<1>4. Slots
  BY <1>2, <1>3 DEF Slots, Ahead, Elapsed, Traced, OncePerSlot, Past, InTick
<1> QED
  BY <1>1, <1>2, <1>4 DEF Inv, Working, OneTick, Held, InTick, AtWork, Prompt

\* and every step keeps it.
LEMMA InvStep == Inv /\ [Next]_vars => Inv'
  BY TypesOfStep, LockStep, SlotStep, PromptStep DEF Inv

\* Records and processes are well formed, one process ticks at a time, a run
\* owns its claim, and the slots are in order, in every reachable state.
THEOREM InvHolds == Spec => []Inv
  BY InvInit, InvStep, PTL DEF Spec

\* A slot of a recurring job is fired at most once and in order, whichever
\* process ticks, crashes or stalls and whatever users edit.
THEOREM OncePerSlotHolds == Spec => []OncePerSlot
<1>1. Inv => OncePerSlot
  BY DEF Inv, Slots
<1> QED  BY <1>1, InvHolds, PTL

\* A run that goes on owns the claim of its job until the job is removed.
THEOREM NeverStolenHolds == Spec => []NeverStolen
<1>1. Inv => NeverStolen
  <2> SUFFICES ASSUME Inv, NEW p \in Procs, proc[p].job # None, Exists(proc[p].job)
               PROVE  Owns(p)
    BY DEF Inv, NeverStolen
  <2>1. proc[p].job \in Jobs
    BY DEF Inv, TypeOK, TickRecords
  <2> QED  BY <2>1 DEF Inv, Working, Held
<1> QED  BY <1>1, InvHolds, PTL

\* Without stalls and store faults the result of every run is recorded, unless
\* its job was removed.
THEOREM RunsAreRecordedHolds == Spec => RunsAreRecorded
<1>1. Inv /\ [Next]_vars =>
        [\A p \in Procs : ~world.stalls /\ ~world.faults
             /\ proc[p].pc \in {"delivered", "aborted"}
             /\ proc'[p].pc = "claiming" /\ Exists(proc[p].job)
          => proc[p].token \in recorded']_vars
  <2> SUFFICES ASSUME Inv, Next, NEW p \in Procs, ~world.stalls, ~world.faults,
                      proc[p].pc \in {"delivered", "aborted"},
                      proc'[p].pc = "claiming", Exists(proc[p].job)
               PROVE  proc[p].token \in recorded'
    OBVIOUS
  <2>1. proc[p].pc = "delivered" /\ Owns(p) /\ TypeOK
    BY DEF Inv, Prompt, Held, AtWork
  <2>2. ASSUME NEW q \in Procs, Others(q), q # p PROVE FALSE
    BY <2>1, <2>2 DEF Others
  <2>3. CASE MarkJobRun(p)
    BY <2>1, <2>3 DEF MarkJobRun
  <2>4. ASSUME NEW q \in Procs, Run(q) \/ Crash(q) \/ Restart(q)
        PROVE  MarkJobRun(p)
    <3>1. CASE EndTick(q) \/ Crash(q) \/ Restart(q)
      BY <2>1, <2>2, <3>1, OutEffect DEF Out
    <3>2. CASE \/ \E ok \in BOOLEAN : Settles(q, ok) \/ Delivers(q, ok)
               \/ Heartbeat(q) /\ ~ (Owns(q) /\ Fresh(proc[q].job))
      BY <2>1, <2>2, <3>2, StageEffect DEF Stage, AtWork
    <3>3. CASE Heartbeat(q) /\ Owns(q) /\ Fresh(proc[q].job)
      <4>1. UNCHANGED proc
        BY <3>3 DEF Heartbeat
      <4> QED  BY <2>1, <4>1
    <3>4. CASE Abandons(q) \/ MarkThrows(q) \/ MarkJobRun(q)
      <4>1. q = p
        BY <2>1, <2>2, <3>4, OverEffect DEF Over
      <4> QED  BY <2>1, <3>4, <4>1 DEF Abandons, MarkThrows
    <3>5. CASE StartTick(q)
      <4>1. Others(q) /\ (proc'[q] = proc[q] \/ proc'[q].pc = "listed")
        BY <2>1, <3>5, StartEffect
      <4> QED  BY <2>1, <2>2, <4>1
    <3>6. CASE AdvanceNextRuns(q)
      BY <2>1, <2>2, <3>6, AdvanceEffect
    <3>7. CASE ClaimJobForFire(q)
      <4>1. Others(q) /\ proc[q].pc = "claiming"
        BY <2>1, <3>7, PassEffect, ClaimEffect
      <4> QED  BY <2>1, <2>2, <4>1
    <3> QED  BY <2>4, <3>1, <3>2, <3>3, <3>4, <3>5, <3>6, <3>7 DEF Run
  <2> QED  BY <2>1, <2>3, <2>4 DEF Next, Tick, UserEdits, Pause, Resume, Remove, Update, Edit
<1>2. Spec => [][Next]_vars
  BY PTL DEF Spec
<1> QED  BY <1>1, <1>2, InvHolds, PTL DEF RunsAreRecorded
=============================================================================
