------------------------------ MODULE TokenLock ------------------------------
(***************************************************************************)
(* The scoped token lock that lets one gateway per machine use a bot       *)
(* credential (security/tokenlock/token-lock.ts over lock-record.ts): one  *)
(* lock file for one (scope, credential) pair, and the contenders for it.  *)
(* A contender is a logical owner inside a process; two of them with one   *)
(* pid are two worker threads.  It may have several handles: a reacquire   *)
(* returns a new one, and each is released on its own.  Every step is one  *)
(* file system call or one look at the process table, which is where       *)
(* processes interleave.                                                   *)
(*                                                                         *)
(* The record's (pid, start_time, owner) is all that the ladder reads; the *)
(* cmdline rung (6) cannot fire on a record this code wrote, because       *)
(* recordLooksLikeTokenLockHolder holds of every such record.  The looks   *)
(* at /proc that classify one record are one step, and the tombstone       *)
(* rename and its unlink are one step: nothing reads the tombstone.        *)
(***************************************************************************)
EXTENDS Naturals

CONSTANTS
  Contenders,   \* logical owners, each a thread of one process
  Pids,         \* process ids of the machine
  PidOf,        \* [Contenders -> Pids]
  MaxStart,     \* bound: a pid is reused at most this many times
  MaxHandles,   \* bound: unreleased handles of one contender
  MaxRaces,     \* rounds of the create loop after the first (3 in the code)
  Planted,      \* the lock files there may be at the start: {"none", "garbage", "corpse"}
  MayDie,       \* processes may die, and their pid may go to a stranger
  MayReturn,    \* a gateway may come back under the pid of a dead one
  MayStop,      \* processes may be stopped and continued
  MayReplace    \* tryAcquire may be called with replace: true

ASSUME PidAssumption == PidOf \in [Contenders -> Pids]
ASSUME BoundAssumption == MaxStart \in Nat /\ MaxHandles \in Nat /\ MaxRaces \in Nat
ASSUME FlagAssumption == {MayDie, MayReturn, MayStop, MayReplace} \subseteq BOOLEAN

VARIABLES
  file,     \* the lock file: NoFile, Garbage, or a record
  proc,     \* process table: pid -> its start time and what it is doing
  call,     \* contender -> the tryAcquire or release it is in
  handles,  \* contender -> how many handles it has not released
  holds,    \* history: contender -> it has released none since its last acquire
  quiet     \* history: no stale file, no fault, no replace so far

machine == <<proc, quiet>>
claims == <<handles, holds>>
vars == <<file, machine, call, claims>>

NoFile  == [kind |-> "none"]
Garbage == [kind |-> "garbage"]
Record(p, s, c) == [kind |-> "record", pid |-> p, start |-> s, owner |-> c]
Files == {NoFile, Garbage}
           \cup {Record(p, s, c) : p \in Pids, s \in 0..MaxStart, c \in Contenders}

CallPcs == {"idle", "clear", "read", "classify", "refresh", "stale", "create",
            "winner", "remove"}
ProcStates == {"gateway", "stopped", "stranger", "dead"}

Idle == [pc |-> "idle", seen |-> NoFile, replace |-> FALSE, races |-> 0]

-----------------------------------------------------------------------------

Corpse(p) == proc[p].is = "dead"

\* a record written by this very process: its pid and its start time
Mine(c) == Record(PidOf[c], proc[PidOf[c]].start, c)

Init ==
  /\ handles = [c \in Contenders |-> 0]
  /\ holds = [c \in Contenders |-> FALSE]
  /\ call = [c \in Contenders |-> Idle]
  /\ proc \in [Pids -> [start : {0}, is : {"gateway", "dead"}]]
  /\ \/ "none" \in Planted /\ file = NoFile
     \/ "garbage" \in Planted /\ file = Garbage
     \/ /\ "corpse" \in Planted
        /\ \E c \in Contenders : Corpse(PidOf[c]) /\ file = Record(PidOf[c], 0, c)
  /\ quiet = (file = NoFile)

Running(c) == proc[PidOf[c]].is = "gateway"

At(c, pc) == Running(c) /\ call[c].pc = pc

Goto(c, pc) == call' = [call EXCEPT ![c].pc = pc]

\* the call returns or throws
Return(c) == call' = [call EXCEPT ![c] = Idle]

\* makeHandle: one more handle, and the caller believes the credential its own
Win(c) == /\ handles' = [handles EXCEPT ![c] = @ + 1]
          /\ holds' = [holds EXCEPT ![c] = TRUE]
          /\ Return(c)

\* tryAcquire begins: rung 0, isCorruptLockFile
TryAcquire(c) ==
  /\ At(c, "idle") /\ handles[c] < MaxHandles
  /\ \E r \in {FALSE, MayReplace} :
       /\ call' = [call EXCEPT ![c] =
                  [pc |-> IF file = Garbage THEN "clear" ELSE "read",
                   seen |-> NoFile, replace |-> r, races |-> 0]]
       /\ IF r THEN quiet' = FALSE ELSE UNCHANGED quiet
  /\ UNCHANGED <<file, proc, claims>>

\* removeTombstoning: rename whatever is at the path, then unlink it
Tombstone(c) == file' = NoFile

ClearGarbage(c) ==
  /\ At(c, "clear")
  /\ Tombstone(c)
  /\ Goto(c, "read")
  /\ UNCHANGED <<machine, claims>>

\* readLockRecord: an unreadable file counts as no record
ReadLock(c) ==
  /\ At(c, "read")
  /\ call' = [call EXCEPT ![c].seen = file,
                          ![c].pc = IF file.kind = "record" THEN "classify" ELSE "create"]
  /\ UNCHANGED <<file, machine, claims>>

\* rung 2, same pid and same owner; the start time is never asked for
SelfReacquire(c, r) == r.pid = PidOf[c] /\ r.owner = c

\* rung 2, same pid and another owner, with the replace authority
StealInProcess(c, r) == r.pid = PidOf[c] /\ r.owner # c /\ call[c].replace

\* Mutant: the pid-reuse rung is dropped.
StaleIfDeadOnly(c, r) == r.pid # PidOf[c] /\ Corpse(r.pid)

\* rungs 3 to 5: a dead pid, a reused pid, a stopped process
StaleRecord(c, r) ==
  /\ r.pid # PidOf[c]
  /\ \/ Corpse(r.pid)
     \/ proc[r.pid].start # r.start
     \/ proc[r.pid].is = "stopped"

Refused(c, r) == ~SelfReacquire(c, r) /\ ~StealInProcess(c, r) /\ ~StaleRecord(c, r)

\* classifyExistingRecord and the switch over its verdict
Classify(c) ==
  LET r == call[c].seen IN
  /\ At(c, "classify")
  /\ \/ (SelfReacquire(c, r) \/ StealInProcess(c, r)) /\ Goto(c, "refresh")
     \/ StaleRecord(c, r) /\ Goto(c, "stale")
     \/ Refused(c, r) /\ Return(c)
  /\ UNCHANGED <<file, machine, claims>>

\* replaceLockFile: rename a fresh record over the path
Refresh(c) ==
  /\ At(c, "refresh")
  /\ file' = Mine(c)
  /\ Win(c)
  /\ UNCHANGED machine

RemoveStale(c) ==
  /\ At(c, "stale")
  /\ Tombstone(c)
  /\ Goto(c, "create")
  /\ UNCHANGED <<machine, claims>>

\* Mutant: the create overwrites, as a rename or an open without O_EXCL would.
CreateOverwrites(c) ==
  /\ At(c, "create")
  /\ file' = Mine(c) /\ Win(c)
  /\ UNCHANGED machine

\* createLockFile: link(2) succeeds only where there is no file
Create(c) ==
  /\ At(c, "create")
  /\ \/ file = NoFile /\ file' = Mine(c) /\ Win(c)
     \/ file # NoFile /\ call[c].races < MaxRaces /\ Goto(c, "winner") /\ UNCHANGED <<file, claims>>
     \/ file # NoFile /\ call[c].races = MaxRaces /\ Return(c) /\ UNCHANGED <<file, claims>>
  /\ UNCHANGED machine

\* the create loop: a winner with a readable record refuses us, else try again
ReadWinner(c) ==
  /\ At(c, "winner")
  /\ \/ file.kind = "record" /\ Return(c)
     \/ /\ file.kind # "record"
        /\ call' = [call EXCEPT ![c].pc = "create", ![c].races = @ + 1]
  /\ UNCHANGED <<file, machine, claims>>

\* releaseScopedLock's checks: our pid and our owner, no start time
OwnedByUs(c, r) == r.kind = "record" /\ r.pid = PidOf[c] /\ r.owner = c

\* release() of one of the handles, the first or the last: it is spent; the
\* record, which does not tell one handle of its owner from another, is read
\* and checked ...
Release(c) ==
  /\ At(c, "idle") /\ handles[c] > 0
  /\ handles' = [handles EXCEPT ![c] = @ - 1]
  /\ holds' = [holds EXCEPT ![c] = FALSE]
  /\ IF OwnedByUs(c, file) THEN Goto(c, "remove") ELSE UNCHANGED call
  /\ UNCHANGED <<file, machine>>

\* ... and the file is unlinked, whatever it has become
Remove(c) ==
  /\ At(c, "remove")
  /\ file' = NoFile
  /\ Return(c)
  /\ UNCHANGED <<machine, claims>>

-----------------------------------------------------------------------------
(* The machine: processes die, are stopped and continued, and pids recur.  *)

Becomes(p, s, is) ==
  /\ proc' = [proc EXCEPT ![p] = [start |-> s, is |-> is]]
  /\ quiet' = FALSE

Die(p) ==
  /\ MayDie /\ ~Corpse(p)
  /\ Becomes(p, proc[p].start, "dead")
  /\ call' = [c \in Contenders |-> IF PidOf[c] = p THEN Idle ELSE call[c]]
  /\ handles' = [c \in Contenders |-> IF PidOf[c] = p THEN 0 ELSE handles[c]]
  /\ holds' = [c \in Contenders |-> holds[c] /\ PidOf[c] # p]
  /\ UNCHANGED file

Reuse(p) ==
  /\ Corpse(p) /\ proc[p].start < MaxStart
  /\ \/ MayDie /\ Becomes(p, proc[p].start + 1, "stranger")
     \/ MayReturn /\ Becomes(p, proc[p].start + 1, "gateway")
  /\ UNCHANGED <<file, call, claims>>

StopOrContinue(p) ==
  /\ MayStop
  /\ \/ proc[p].is = "gateway" /\ Becomes(p, proc[p].start, "stopped")
     \/ proc[p].is = "stopped" /\ Becomes(p, proc[p].start, "gateway")
  /\ UNCHANGED <<file, call, claims>>

Contend(c) ==
  \/ TryAcquire(c) \/ ClearGarbage(c) \/ ReadLock(c) \/ Classify(c) \/ Refresh(c)
  \/ RemoveStale(c) \/ Create(c) \/ ReadWinner(c) \/ Release(c) \/ Remove(c)

Machine == \E p \in Pids : Die(p) \/ Reuse(p) \/ StopOrContinue(p)

Next == Machine \/ \E c \in Contenders : Contend(c)

Spec == Init /\ [][Next]_vars

\* tryAcquire and release are synchronous: what they begin they end while the
\* process runs.  Nothing obliges anyone to ask, or a holder to release.
Finish(c) ==
  \/ ClearGarbage(c) \/ ReadLock(c) \/ Classify(c) \/ Refresh(c)
  \/ RemoveStale(c) \/ Create(c) \/ ReadWinner(c) \/ Remove(c)

FairSpec == Spec /\ \A c \in Contenders : WF_vars(Finish(c))

-----------------------------------------------------------------------------

\* Every variable has its type, only a call that read a record classifies one, and
\* the create loop looks at the winner at most MaxRaces times.
TypeOK ==
  /\ file \in Files
  /\ proc \in [Pids -> [start : 0..MaxStart, is : ProcStates]]
  /\ handles \in [Contenders -> 0..MaxHandles]
  /\ holds \in [Contenders -> BOOLEAN]
  /\ quiet \in BOOLEAN
  /\ call \in [Contenders -> [pc : CallPcs, seen : Files, replace : BOOLEAN,
                              races : 0..MaxRaces]]
  /\ \A c \in Contenders : /\ holds[c] => handles[c] > 0
                           /\ call[c].pc \notin {"idle", "remove"} => handles[c] < MaxHandles
                           /\ call[c].pc = "classify" => call[c].seen.kind = "record"
                           /\ call[c].pc = "winner" => call[c].races < MaxRaces

\* As long as no process dies, returns or is stopped, no stale file was there and
\* nobody asks to replace, two contenders never both hold the credential: a second
\* gateway that polled with the same bot token would steal the first one's updates.
\* A contender holds it from an acquire, or a reacquire, to the first release of any
\* of its handles; that release unlinks the file under the others (HandlesExclude).
OneHolder == quiet => \A c, d \in Contenders : holds[c] /\ holds[d] => c = d

\* Documented: a handle stands for the credential until it is released itself.
HandlesExclude ==
  quiet => \A c, d \in Contenders : handles[c] > 0 /\ handles[d] > 0 => c = d

\* Documented: never two holders, also when a dead one's lock is taken over.
OneHolderAlways == \A c, d \in Contenders : holds[c] /\ holds[d] => c = d

\* Under the same conditions a holder's record is at the path for as long as it
\* holds, so whoever asks is refused and told its name: nobody else's create,
\* refresh, cleanup or release takes the file away.
HolderRecorded == quiet => \A c \in Contenders : holds[c] => file = Mine(c)

\* release() takes away no lock but the caller's own, however late its unlink.
ReleasesItsOwn ==
  [][\A c \in Contenders :
       call[c].pc = "remove" /\ call'[c].pc = "idle" /\ file' = NoFile
         => file = NoFile \/ (file.kind = "record" /\ file.owner = c)]_vars

\* Liveness is the staleness test: when nobody else holds the lock or is asking
\* for it, whatever a crash or a hand left at the path, a gateway that goes on
\* trying gets it.
Alone(c) == Running(c) /\ \A d \in Contenders \ {c} : ~holds[d] /\ call[d] = Idle
FreeLockYields ==
  \A c \in Contenders :
    <>[]Alone(c) /\ []<><<TryAcquire(c)>>_vars => []<>holds[c]
=============================================================================
