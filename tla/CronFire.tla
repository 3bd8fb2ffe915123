------------------------------ MODULE CronFire ------------------------------
(* The embedded cron service: the job store in jobs.json                     *)
(* (pi_embedded/cron/store.ts), the tick that fires due jobs under a tick    *)
(* lock (scheduler.ts tickOnce, tick-lock.ts), and the run of one job under  *)
(* a fire claim that is heartbeated while the job runs and checked again     *)
(* when its result is recorded (scheduler.ts runDueJob, claim-heartbeat.ts). *)
(* Every store call is one critical section under the jobs lock and so one   *)
(* action; users edit jobs, time passes and processes crash between them.    *)
EXTENDS Integers, Sequences, FiniteSets

CONSTANTS
    Jobs,       \* jobs, numbered in file order
    Procs,      \* gateway processes sharing the cron directory
    Period,     \* period of a recurring job
    Grace,      \* one-shot grace and catch-up floor (120 s in the code)
    MaxGrace,   \* the greatest grace of a catch-up (7200 s in the code)
    Ttl,        \* FIRE_CLAIM_TTL_SECONDS (300 s in the code)
    RunAts,     \* when one-shots are due
    Worlds      \* what a behaviour may be made of:
                \*   jobs: those that are created, at time 0
                \*   edits: which of "pause", "resume", "update", "remove" users make
                \*   stalls: a process may miss its heartbeats for a whole Ttl
                \*   faults: a store call may throw (jobs lock timeout, disk)
                \*   fires, crashes, until: bounds on the runs, the crashes and the clock

ASSUME CronAssumption ==
    /\ Jobs \subseteq Nat /\ RunAts \subseteq Nat
    /\ Period \in Nat \ {0} /\ Grace \in Nat \ {0} /\ Ttl \in Nat \ {0}
    /\ Grace < Ttl
    /\ MaxGrace \in Nat /\ MaxGrace >= Grace
    /\ Worlds \subseteq
         [jobs : SUBSET Jobs, edits : SUBSET {"pause", "resume", "update", "remove"},
          stalls : BOOLEAN, faults : BOOLEAN,
          fires : Nat, crashes : Nat, until : Nat]

VARIABLES
    world,    \* the world of this behaviour; it never changes
    now,      \* the clock
    job,      \* the job records
    proc,     \* the tick of every process
    crashes,  \* crashes so far
    fired,    \* history: what was fired, in the order it was claimed
    recorded  \* history: claims whose result was recorded

vars == <<world, now, job, proc, crashes, fired, recorded>>

None == -1
NoClaim == [by |-> None, at |-> 0]

\* The claim of a run is its position in the history: fresh for every
\* acquisition, like the token pid:uuid of the code.
Entries == [job : Jobs, kind : {"once", "every"}, slot : Nat]

Tokens == 1..Len(fired)

Claims == [by : Tokens \cup {None}, at : 0..now]

JobRecords ==
    [kind : {"once", "every"},
     state : {"scheduled", "paused", "completed", "gone"},
     at : Nat, next : Nat \cup {None}, last : 0..now \cup {None},
     status : {"none", "ok", "error"},
     claim : Claims]

TickRecords ==
    [pc : {"down", "idle", "listed", "claiming", "running", "aborted",
           "settled", "delivered"},
     due : SUBSET Entries, tick : 0..now, job : Jobs \cup {None},
     token : Tokens \cup {None}, ok : BOOLEAN]

TypeOK ==
    /\ world \in Worlds
    /\ now \in 0..world.until
    /\ job \in [Jobs -> JobRecords]
    /\ proc \in [Procs -> TickRecords]
    /\ crashes \in 0..world.crashes
    /\ fired \in Seq(Entries) /\ Len(fired) <= world.fires
    /\ recorded \subseteq Tokens

Runnable(j) == job[j].state = "scheduled"
Exists(j) == job[j].state # "gone"

\* recoverableOneshotRunAt, and computeNextRun for an interval: run_at while it
\* is within the grace window, or one period from the anchor.
OneShotAt(at) == IF at >= now - Grace THEN at ELSE None

Idle == [pc |-> "idle", due |-> {}, tick |-> 0, job |-> None, token |-> None,
         ok |-> FALSE]

\* createJob at time 0.
Created(kind, at) ==
    [kind |-> kind, state |-> "scheduled", at |-> at,
     next |-> IF kind = "once" THEN at ELSE Period,
     last |-> None, status |-> "none", claim |-> NoClaim]

Absent == [Created("every", 0) EXCEPT !.state = "gone"]

Init ==
    /\ world \in Worlds
    /\ now = 0
    /\ \E kind \in [world.jobs -> {"once", "every"}], at \in [world.jobs -> RunAts] :
          job = [j \in Jobs |-> IF j \in world.jobs THEN Created(kind[j], at[j])
                                ELSE Absent]
    /\ proc = [p \in Procs |-> Idle]
    /\ crashes = 0 /\ fired = <<>> /\ recorded = {}

----------------------------------------------------------------------------
(* The tick *)

Fresh(j) == /\ job[j].claim.by # None
            /\ now - job[j].claim.at \in 0..(Ttl - 1)

\* catchupGraceSeconds: half the period, within its bounds.
CatchUpGrace ==
    LET half == Period \div 2
    IN  IF half < Grace THEN Grace ELSE IF half < MaxGrace THEN half ELSE MaxGrace

\* isStaleErrorRecurring: errored, not running, and silent for a full cadence.
Wedged(j) == /\ job[j].status = "error" /\ ~Fresh(j)
             /\ job[j].last # None /\ now - job[j].last > Period + CatchUpGrace

\* What getDueJobs makes of one record: a one-shot out of grace becomes
\* terminal, a wedged job is armed now, a slot missed by more than the
\* catch-up grace is skipped.
AgedOut(j) == job[j].kind = "once" /\ job[j].last = None
              /\ job[j].at < now - Grace /\ job[j].next <= now
NextSeen(j) == IF job[j].next > now /\ Wedged(j) THEN now ELSE job[j].next
Listed(j) == Runnable(j) /\ job[j].next # None

\* One-shots that never ran are due whatever their time; see NotBeforeDue.
DueOnce(j) == job[j].last = None /\ ~AgedOut(j)
DueEvery(j) == NextSeen(j) <= now
Due == {j \in Jobs : Listed(j) /\ IF job[j].kind = "once" THEN DueOnce(j) ELSE DueEvery(j)}

SkipMissed(t) == IF now - t > CatchUpGrace THEN now + Period ELSE t

Seen(j) ==
    [job[j] EXCEPT
       !.state = IF Listed(j) /\ AgedOut(j) THEN "completed" ELSE @,
       !.next = IF Listed(j) /\ job[j].kind = "every" THEN SkipMissed(NextSeen(j))
                ELSE @]

InTick(p) == proc[p].pc \notin {"down", "idle"}

\* Mutant: contention on the tick lock is not noticed.
LockIgnored == TRUE
LockFree == \A p \in Procs : ~InTick(p)

\* tickOnce: the tick lock, then getDueJobs.  A tick that finds nothing due, or
\* the emergency stop, ends at once; getDueJobs has still rewritten the file.
StartTick(p) ==
    /\ proc[p].pc = "idle" /\ LockFree
    /\ job' = [j \in Jobs |-> Seen(j)]
    /\ Due # {} \/ job' # job
    /\ proc' = [proc EXCEPT ![p] = IF Due = {} THEN @
                  ELSE [Idle EXCEPT !.pc = "listed", !.tick = now, !.due =
                    {[job |-> j, kind |-> job[j].kind, slot |-> NextSeen(j)] : j \in Due}]]
    /\ UNCHANGED <<world, now, crashes, fired, recorded>>

\* Mutant: the next run is the slot itself.
SameSlot(j, t) == job[j].next

NextRun(j, t) == t + Period

DueJobs(p) == {e.job : e \in proc[p].due}

\* advanceNextRuns at the instant of the tick, before anything runs.
AdvanceNextRuns(p) ==
    /\ proc[p].pc = "listed"
    /\ job' = [j \in Jobs |->
                 IF j \in DueJobs(p) /\ job[j].kind = "every" /\ Exists(j)
                 THEN [job[j] EXCEPT !.next = NextRun(j, proc[p].tick)] ELSE job[j]]
    /\ proc' = [proc EXCEPT ![p].pc = "claiming"]
    /\ UNCHANGED <<world, now, crashes, fired, recorded>>

\* The tick ends and releases its lock; a throw of getDueJobs' follow-up or of
\* a claim ends it too, the remaining due jobs unserved.
EndTick(p) ==
    /\ \/ proc[p].pc = "claiming" /\ (proc[p].due = {} \/ world.faults)
       \/ proc[p].pc = "listed" /\ world.faults
    /\ proc' = [proc EXCEPT ![p] = Idle]
    /\ UNCHANGED <<world, now, job, crashes, fired, recorded>>

----------------------------------------------------------------------------
(* One due job *)

First(due) == CHOOSE e \in due : \A f \in due : e.job <= f.job

Claimable(j) == Runnable(j) /\ ~Fresh(j)

\* claimJobForFire: refused for a job that is gone, not runnable or freshly
\* claimed; otherwise a new token, and the next run is bumped once more.
ClaimJobForFire(p) ==
    /\ proc[p].pc = "claiming" /\ proc[p].due # {}
    /\ LET e == First(proc[p].due)
           j == e.job
           t == Len(fired) + 1 IN
         IF Claimable(j)
         THEN /\ t <= world.fires
              /\ fired' = Append(fired, e)
              /\ job' = [job EXCEPT
                           ![j].claim = [by |-> t, at |-> now],
                           ![j].next = IF job[j].kind = "every" THEN NextRun(j, now) ELSE @]
              /\ proc' = [proc EXCEPT ![p].pc = "running", ![p].due = @ \ {e},
                                      ![p].job = j, ![p].token = t]
         ELSE /\ proc' = [proc EXCEPT ![p].due = @ \ {e}]
              /\ UNCHANGED <<job, fired>>
    /\ UNCHANGED <<world, now, crashes, recorded>>

\* Mutant: the token counts only while the claim is fresh.
OwnsFresh(p) == LET j == proc[p].job IN
    Exists(j) /\ job[j].claim.by = proc[p].token /\ Fresh(j)

Owns(p) == LET j == proc[p].job IN Exists(j) /\ job[j].claim.by = proc[p].token

\* A poll of the heartbeat watch: the claim is refreshed, or it is gone or
\* expired and the run is interrupted.
Heartbeat(p) ==
    /\ proc[p].pc = "running"
    /\ LET j == proc[p].job IN
         IF Owns(p) /\ Fresh(j)
         THEN /\ job[j].claim.at # now
              /\ job' = [job EXCEPT ![j].claim.at = now]
              /\ UNCHANGED proc
         ELSE /\ proc' = [proc EXCEPT ![p].pc = "aborted"]
              /\ UNCHANGED job
    /\ UNCHANGED <<world, now, crashes, fired, recorded>>

\* The job body ends between two polls.  If it throws, interrupted or not, the
\* catch branch is about to mark the run as failed.
Settles(p, ok) ==
    /\ proc[p].pc = "running" \/ (proc[p].pc = "aborted" /\ ~ok)
    /\ proc' = [proc EXCEPT ![p].pc = IF ok THEN "settled" ELSE "delivered",
                            ![p].ok = ok]
    /\ UNCHANGED <<world, now, job, crashes, fired, recorded>>

NextDue(p) == proc' = [proc EXCEPT ![p] = [@ EXCEPT !.pc = "claiming", !.job = None,
                                                    !.token = None, !.ok = FALSE]]

\* An interrupted body has settled without throwing: nothing is written.
Abandons(p) ==
    /\ proc[p].pc = "aborted"
    /\ NextDue(p)
    /\ UNCHANGED <<world, now, job, crashes, fired, recorded>>

\* The output is delivered before the claim is looked at again; a throw of the
\* delivery turns the run into an errored one.
Delivers(p, ok) ==
    /\ proc[p].pc = "settled"
    /\ proc' = [proc EXCEPT ![p].pc = "delivered", ![p].ok = ok]
    /\ UNCHANGED <<world, now, job, crashes, fired, recorded>>

\* Mutant: a one-shot loses its next run but stays scheduled.
AfterRunOpen(j) == [job[j] EXCEPT !.next = IF job[j].kind = "every" THEN now + Period
                                           ELSE None]

\* The record after a run: a recurring job is re-anchored from completion and
\* stays paused if it was paused meanwhile, a one-shot is terminal.
AfterRun(j) == IF job[j].kind = "every" THEN [job[j] EXCEPT !.next = now + Period]
               ELSE [job[j] EXCEPT !.next = None, !.state = "completed"]

\* markJobRun with the run's token: discarded if the claim changed hands.
MarkJobRun(p) ==
    /\ proc[p].pc = "delivered"
    /\ LET j == proc[p].job IN
         IF Owns(p)
         THEN /\ job' = [job EXCEPT ![j] =
                           [AfterRun(j) EXCEPT !.last = now, !.claim = NoClaim,
                               !.status = IF proc[p].ok THEN "ok" ELSE "error"]]
              /\ recorded' = recorded \cup {proc[p].token}
         ELSE UNCHANGED <<job, recorded>>
    /\ NextDue(p)
    /\ UNCHANGED <<world, now, crashes, fired>>

\* markJobRun threw, and so did the best-effort one of the catch branch.
MarkThrows(p) ==
    /\ world.faults /\ proc[p].pc = "delivered"
    /\ NextDue(p)
    /\ UNCHANGED <<world, now, job, crashes, fired, recorded>>

----------------------------------------------------------------------------
(* Users, time and crashes *)

Edit(j, r) == /\ Exists(j) /\ job' = [job EXCEPT ![j] = r]
              /\ UNCHANGED <<world, now, proc, crashes, fired, recorded>>

Pause(j) == /\ "pause" \in world.edits /\ job[j].state # "paused"
            /\ Edit(j, [job[j] EXCEPT !.state = "paused"])

\* resumeJob takes a job in any state; it refuses a one-shot out of grace.
Resume(j) ==
    /\ "resume" \in world.edits
    /\ LET next == IF job[j].kind = "every" THEN now + Period ELSE OneShotAt(job[j].at) IN
         /\ next # None
         /\ Edit(j, [job[j] EXCEPT !.state = "scheduled", !.next = next])

\* updateJob with a new schedule; the state and the last run stay.
Update(j, kind, at) ==
    /\ "update" \in world.edits
    /\ LET next == IF kind = "every" THEN now + Period ELSE OneShotAt(at) IN
         /\ next # None \/ job[j].state = "paused"
         /\ Edit(j, [job[j] EXCEPT !.kind = kind, !.at = at, !.next = next])

Remove(j) == /\ "remove" \in world.edits
             /\ Edit(j, [job[j] EXCEPT !.state = "gone", !.claim = NoClaim])

\* Time passes.  Unless stalls are allowed, a running process has polled its
\* claim within the Ttl.
Tick ==
    /\ now < world.until
    /\ world.stalls \/ \A p \in Procs : proc[p].pc = "running" =>
                    now + 1 - job[proc[p].job].claim.at < Ttl
    /\ now' = now + 1
    /\ UNCHANGED <<world, job, proc, crashes, fired, recorded>>

Crash(p) ==
    /\ proc[p].pc # "down" /\ crashes < world.crashes
    /\ crashes' = crashes + 1
    /\ proc' = [proc EXCEPT ![p] = [Idle EXCEPT !.pc = "down"]]
    /\ UNCHANGED <<world, now, job, fired, recorded>>

Restart(p) ==
    /\ proc[p].pc = "down"
    /\ proc' = [proc EXCEPT ![p] = Idle]
    /\ UNCHANGED <<world, now, job, crashes, fired, recorded>>

Run(p) ==
    \/ StartTick(p) \/ AdvanceNextRuns(p) \/ EndTick(p) \/ ClaimJobForFire(p)
    \/ Heartbeat(p) \/ Abandons(p) \/ MarkJobRun(p) \/ MarkThrows(p)
    \/ \E ok \in BOOLEAN : Settles(p, ok) \/ Delivers(p, ok)

UserEdits ==
    \E j \in Jobs : \/ Pause(j) \/ Resume(j) \/ Remove(j)
                    \/ \E kind \in {"once", "every"}, at \in RunAts : Update(j, kind, at)

Next ==
    \/ \E p \in Procs : Run(p) \/ Crash(p) \/ Restart(p)
    \/ UserEdits \/ Tick

Spec == Init /\ [][Next]_vars

\* The ticker loop, restarts and the clock go on; a job body ends.
FairSpec ==
    /\ Spec /\ WF_vars(Tick)
    /\ \A p \in Procs : WF_vars(Run(p)) /\ WF_vars(Restart(p))

----------------------------------------------------------------------------
(* Properties *)

\* A slot of a recurring job is fired at most once and in order, whichever process ticks,
\* crashes or stalls: the record is advanced past the slot before the run
\* starts (store.ts advanceNextRuns, "at-most-once").
OncePerSlot ==
    \A i, k \in 1..Len(fired) :
        i < k /\ fired[i].job = fired[k].job
            /\ fired[i].kind = "every" /\ fired[k].kind = "every"
            => fired[i].slot < fired[k].slot

\* A run never loses its claim to another run: as the tick lock is held to the
\* end of the tick, the record names the token of the process that is running
\* the job for as long as it runs, expired or not.
NeverStolen ==
    /\ TypeOK
    /\ \A p \in Procs : proc[p].job # None /\ Exists(proc[p].job) => Owns(p)

\* Without stalls and store faults a finished run is recorded, unless its job
\* was removed: no run takes place whose result nobody knows.
RunsAreRecorded ==
    [][\A p \in Procs : ~world.stalls /\ ~world.faults
             /\ proc[p].pc \in {"delivered", "aborted"}
             /\ proc'[p].pc = "claiming" /\ Exists(proc[p].job)
          => proc[p].token \in recorded']_vars

\* A one-shot does not linger: it runs, ages out, is paused or removed, also
\* when the process running it crashed (store.ts getDueJobs, "never a ghost").
\* Updates are excepted; see NoGhost.
OneShotsEnd ==
    \A j \in Jobs : "update" \notin world.edits /\ job[j].kind = "once" /\ Runnable(j)
                        ~> ~(job[j].kind = "once" /\ Runnable(j))

\* Documented: a one-shot fires at its time, or late within the grace
\* (schedule.ts computeNextRun, store.ts getDueJobs); it does not fire early.
NotBeforeDue ==
    \A i \in 1..Len(fired) : fired[i].kind = "once" => fired[i].slot <= now

\* Documented: no update leaves a ghost job that is scheduled and never fires
\* (store.ts createJob and updateJob): a scheduled one-shot has not run yet.
NoGhost == \A j \in Jobs : job[j].kind = "once" /\ Runnable(j) => job[j].last = None

\* Documented: a run is interrupted when another one won its claim, and that
\* one persists the results (scheduler.ts runDueJob).
AbortedHasWinner == \A p \in Procs : proc[p].pc = "aborted" => ~Owns(p)
=============================================================================
