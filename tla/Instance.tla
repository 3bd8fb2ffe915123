------------------------------ MODULE Instance ------------------------------
(* Which of the gateway processes of one home serves: the PID file and the   *)
(* runtime lock (lifecycle/instance-guard.ts), the --replace handshake with  *)
(* its marker (takeover.ts, markers.ts), the two startup stages that claim   *)
(* the home and the signal handler that gives it up (lifecycle.ts).          *)
(* A process is one incarnation: a PID with its start time.  It is killed    *)
(* between any two of its system calls, but handles a signal of its own only *)
(* where its code awaits.                                                    *)
EXTENDS Naturals

CONSTANTS
    Procs,      \* the gateway processes that may be started
    Replacers,  \* those started with --replace
    Ghost,      \* an incarnation that died before this history begins
    MaxFaults   \* bound on crashes, operator signals and other faults

ASSUME InstanceAssumption ==
    /\ Replacers \subseteq Procs
    /\ Ghost \notin Procs
    /\ MaxFaults \in Nat

VARIABLES
    pc,       \* the next system call of every process
    stage,    \* the "check" of the command line before the startup, the startup
              \* stages "guard" (4) and "lock" (5), or the "report" of the
              \* command line about a startup that has failed
    seen,     \* the process its record of the PID file names
    pidfile,  \* the PID file: absent, created but empty, or a process
    lock,     \* who holds the SQLite write lock of gateway.lock.db
    marker,   \* the process the takeover marker names
    due,      \* SIGTERMs sent and not yet handled
    signals,  \* signals handled
    code,     \* the exit code its signals have earned it: "clean" is 0
    drain,    \* the graceful shutdown: "no", "on" or "done"
    doomed,   \* processes that SIGKILL was sent to
    faults,   \* faults injected so far
    misled    \* history: the probe of a report has turned a starter away

vars == <<pc, stage, seen, pidfile, lock, marker, due, signals, code, drain,
          doomed, faults, misled>>

None == "none"
Empty == "empty"
ASSUME NobodyAssumption == {None, Empty} \cap (Procs \cup {Ghost}) = {}
Alive(p) == p \in Procs /\ pc[p] \notin {"off", "dead"}
Goto(p, l) == pc' = [pc EXCEPT ![p] = l]

(* The places where the code of a process awaits. *)
Awaits(p) ==
    \/ pc[p] \in {"wait", "confirm", "boot", "serving"}
    \/ pc[p] = "read" /\ stage[p] = "guard"

(* Adapters accept traffic. *)
Serves(p) == pc[p] = "serving"

Init ==
    /\ pc = [p \in Procs |-> "off"]
    /\ stage = [p \in Procs |-> IF p \in Replacers THEN "guard" ELSE "check"]
    /\ seen = [p \in Procs |-> None]
    /\ pidfile \in {None, Ghost}
    /\ lock = None /\ marker = None
    /\ due = [p \in Procs |-> 0]
    /\ signals = [p \in Procs |-> 0]
    /\ code = [p \in Procs |-> None]
    /\ drain = [p \in Procs |-> "no"]
    /\ doomed = {} /\ faults = 0 /\ misled = FALSE

----------------------------------------------------------------------------
(* getRunningPid, once in each of the two stages; before, for the check of   *)
(* who does not replace, and after, for the report, it cleans nothing *)

Launch(p) ==
    /\ pc[p] = "off"
    /\ Goto(p, "read")
    /\ UNCHANGED <<stage, seen, pidfile, lock, marker, due, signals, code,
                   drain, doomed, faults, misled>>

(* Nobody is running: the check lets the startup begin, stage 4 hands over   *)
(* to stage 5, stage 5 claims, and the report asks for the lock alone.       *)
Vacant(p) ==
    /\ stage' = [stage EXCEPT ![p] = CASE @ = "check" -> "guard"
                                       [] @ = "guard" -> "lock"
                                       [] OTHER -> @]
    /\ Goto(p, CASE stage[p] \in {"check", "guard"} -> "read"
                 [] stage[p] = "lock" -> "acquire"
                 [] stage[p] = "report" -> "last")

(* The record is stale. *)
Stale(p) ==
    \/ stage[p] \in {"guard", "lock"} /\ Goto(p, "clean") /\ UNCHANGED stage
    \/ stage[p] \in {"check", "report"} /\ Vacant(p)

Read(p) ==
    /\ pc[p] = "read"
    /\ IF pidfile \in {None, Empty}
       THEN Vacant(p) /\ UNCHANGED seen
       ELSE /\ Goto(p, "probe")
            /\ seen' = [seen EXCEPT ![p] = pidfile]
            /\ UNCHANGED stage
    /\ UNCHANGED <<pidfile, lock, marker, due, signals, code, drain, doomed,
                   faults, misled>>

(* BEGIN IMMEDIATE on a throwaway connection: while it is open, the probe    *)
(* holds the lock it asks about.                                             *)
Probe(p) ==
    /\ pc[p] = "probe"
    /\ IF lock = None
       THEN lock' = p /\ Goto(p, "rollback")
       ELSE Goto(p, "vet") /\ UNCHANGED lock
    /\ UNCHANGED <<stage, seen, pidfile, marker, due, signals, code, drain,
                   doomed, faults, misled>>

Rollback(p) ==
    /\ pc[p] = "rollback"
    /\ lock' = None
    /\ Stale(p)
    /\ UNCHANGED <<seen, pidfile, marker, due, signals, code, drain, doomed,
                   faults, misled>>

(* The lock is active: is the process of the record alive?  Only then is an  *)
(* instance running, and it is replaced or respected.                        *)
Vet(p) ==
    /\ pc[p] = "vet"
    /\ IF Alive(seen[p]) /\ (stage[p] = "report" => seen[p] # p)
       THEN /\ Goto(p, CASE stage[p] = "guard" /\ p \in Replacers -> "mark"
                         [] stage[p] \in {"check", "report"} -> "dead"
                         [] OTHER -> "abort")
            /\ UNCHANGED stage
       ELSE Stale(p)
    /\ UNCHANGED <<seen, pidfile, lock, marker, due, signals, code, drain,
                   doomed, faults, misled>>

(* Mutant: only a record of one's own is cleaned. *)
CleanOwn(p) ==
    /\ pc[p] = "clean"
    /\ pidfile' = IF pidfile = p THEN None ELSE pidfile
    /\ Vacant(p)
    /\ UNCHANGED <<seen, lock, marker, due, signals, code, drain, doomed,
                   faults, misled>>

(* A stale record is cleaned: whatever the file holds by now. *)
Clean(p) ==
    /\ pc[p] = "clean"
    /\ pidfile' = None
    /\ Vacant(p)
    /\ UNCHANGED <<seen, lock, marker, due, signals, code, drain, doomed,
                   faults, misled>>

----------------------------------------------------------------------------
(* performTakeover *)

(* Mutant: the signal goes out before the marker. *)
MarkAfterSignal(p) ==
    /\ pc[p] = "mark"
    /\ due' = IF Alive(seen[p]) THEN [due EXCEPT ![seen[p]] = @ + 1] ELSE due
    /\ Goto(p, "term")
    /\ UNCHANGED <<stage, seen, pidfile, lock, marker, signals, code, drain,
                   doomed, faults, misled>>

Mark(p) ==
    /\ pc[p] = "mark"
    /\ marker' = seen[p]
    /\ Goto(p, "term")
    /\ UNCHANGED <<stage, seen, pidfile, lock, due, signals, code, drain,
                   doomed, faults, misled>>

Term(p) ==
    /\ pc[p] = "term"
    /\ \/ /\ Alive(seen[p])
          /\ due' = [due EXCEPT ![seen[p]] = @ + 1]
          /\ Goto(p, "wait")
          /\ UNCHANGED <<stage, marker>>
       \/ /\ ~Alive(seen[p])
          /\ marker' = None
          /\ Vacant(p)
          /\ UNCHANGED due
    /\ UNCHANGED <<seen, pidfile, lock, signals, code, drain, doomed, faults,
                   misled>>

Exited(p) ==
    /\ pc[p] \in {"wait", "confirm"} /\ ~Alive(seen[p])
    /\ Goto(p, "sweep")
    /\ UNCHANGED <<stage, seen, pidfile, lock, marker, due, signals, code,
                   drain, doomed, faults, misled>>

(* The grace of the SIGTERM has run out. *)
Kill(p) ==
    /\ pc[p] = "wait" /\ Alive(seen[p])
    /\ doomed' = doomed \cup {seen[p]}
    /\ Goto(p, "confirm")
    /\ UNCHANGED <<stage, seen, pidfile, lock, marker, due, signals, code,
                   drain, faults, misled>>

(* The victim outlives the time to confirm its death. *)
GiveUp(p) ==
    /\ pc[p] = "confirm" /\ Alive(seen[p])
    /\ faults < MaxFaults /\ faults' = faults + 1
    /\ marker' = None
    /\ Goto(p, "abort")
    /\ UNCHANGED <<stage, seen, pidfile, lock, due, signals, code, drain,
                   doomed, misled>>

Sweep(p) ==
    /\ pc[p] = "sweep"
    /\ pidfile' = None /\ marker' = None
    /\ Vacant(p)
    /\ UNCHANGED <<seen, lock, due, signals, code, drain, doomed, faults,
                   misled>>

----------------------------------------------------------------------------
(* The claim, and the rest of the startup *)

(* Mutant: the lock is taken for held whoever has it. *)
AcquireBlindly(p) ==
    /\ pc[p] = "acquire"
    /\ lock' = p /\ Goto(p, "create")
    /\ UNCHANGED <<stage, seen, pidfile, marker, due, signals, code, drain,
                   doomed, faults, misled>>

Acquire(p) ==
    /\ pc[p] = "acquire"
    /\ IF lock = None
       THEN lock' = p /\ Goto(p, "create") /\ UNCHANGED misled
       ELSE /\ Goto(p, "abort")
            /\ misled' = (misled \/ stage[lock] = "report")
            /\ UNCHANGED lock
    /\ UNCHANGED <<stage, seen, pidfile, marker, due, signals, code, drain,
                   doomed, faults>>

(* O_CREAT | O_EXCL; the record is written by the next call. *)
Create(p) ==
    /\ pc[p] = "create"
    /\ IF pidfile = None
       THEN pidfile' = Empty /\ Goto(p, "write") /\ UNCHANGED lock
       ELSE lock' = None /\ Goto(p, "abort") /\ UNCHANGED pidfile
    /\ UNCHANGED <<stage, seen, marker, due, signals, code, drain, doomed,
                   faults, misled>>

(* The write goes to the open descriptor: lost if the file was unlinked. *)
Write(p) ==
    /\ pc[p] = "write"
    /\ pidfile' = IF pidfile = Empty THEN p ELSE pidfile
    /\ Goto(p, "boot")
    /\ UNCHANGED <<stage, seen, lock, marker, due, signals, code, drain,
                   doomed, faults, misled>>

(* Stages 6 to 10: the adapters are connected. *)
Boot(p) ==
    /\ pc[p] = "boot"
    /\ Goto(p, "serving")
    /\ UNCHANGED <<stage, seen, pidfile, lock, marker, due, signals, code,
                   drain, doomed, faults, misled>>

BootFails(p) ==
    /\ pc[p] = "boot"
    /\ faults < MaxFaults /\ faults' = faults + 1
    /\ Goto(p, "abort")
    /\ UNCHANGED <<stage, seen, pidfile, lock, marker, due, signals, code,
                   drain, doomed, misled>>

(* releaseOwnership: the PID file if it names p, or nobody; then the lock. *)
Release(p) ==
    /\ pidfile' = IF pidfile \in {p, Empty} THEN None ELSE pidfile
    /\ lock' = IF lock = p THEN None ELSE lock

(* A failed startup releases what it owns, and the command line asks once    *)
(* more who is running: it reports that, or the failure.                     *)
Abort(p) ==
    /\ pc[p] = "abort"
    /\ Release(p)
    /\ stage' = [stage EXCEPT ![p] = "report"]
    /\ Goto(p, "read")
    /\ UNCHANGED <<seen, marker, due, signals, code, drain, doomed, faults,
                   misled>>

(* isRuntimeLockActive, if no other process is known to run: whatever it     *)
(* says, the process ends.                                                   *)
LastProbe(p) ==
    /\ pc[p] = "last"
    /\ IF lock = None
       THEN lock' = p /\ Goto(p, "end")
       ELSE Goto(p, "dead") /\ UNCHANGED lock
    /\ UNCHANGED <<stage, seen, pidfile, marker, due, signals, code, drain,
                   doomed, faults, misled>>

LastRollback(p) ==
    /\ pc[p] = "end"
    /\ lock' = None
    /\ Goto(p, "dead")
    /\ UNCHANGED <<stage, seen, pidfile, marker, due, signals, code, drain,
                   doomed, faults, misled>>

----------------------------------------------------------------------------
(* Signals *)

(* The first signal is classified and starts the drain; the marker is gone   *)
(* afterwards, whomever it names.                                            *)
Drain(p) ==
    /\ Awaits(p) /\ due[p] > 0 /\ signals[p] = 0
    /\ due' = [due EXCEPT ![p] = @ - 1]
    /\ signals' = [signals EXCEPT ![p] = 1]
    /\ code' = [code EXCEPT ![p] = IF marker = p THEN "clean" ELSE "failed"]
    /\ marker' = None
    /\ drain' = [drain EXCEPT ![p] = "on"]
    /\ UNCHANGED <<pc, stage, seen, pidfile, lock, doomed, faults, misled>>

Drained(p) ==
    /\ Awaits(p) /\ drain[p] = "on"
    /\ drain' = [drain EXCEPT ![p] = "done"]
    /\ Release(p)
    /\ UNCHANGED <<pc, stage, seen, marker, due, signals, code, doomed, faults,
                   misled>>

(* The startup has finished, and so has the drain: the process exits. *)
Exit(p) ==
    /\ pc[p] = "serving" /\ drain[p] = "done"
    /\ Goto(p, "dead")
    /\ lock' = IF lock = p THEN None ELSE lock
    /\ UNCHANGED <<stage, seen, pidfile, marker, due, signals, code, drain,
                   doomed, faults, misled>>

(* A second signal releases and exits at once, never with code 0. *)
FastExit(p) ==
    /\ Awaits(p) /\ due[p] > 0 /\ signals[p] > 0
    /\ due' = [due EXCEPT ![p] = @ - 1]
    /\ signals' = [signals EXCEPT ![p] = @ + 1]
    /\ code' = [code EXCEPT ![p] = "failed"]
    /\ Release(p)
    /\ Goto(p, "dead")
    /\ UNCHANGED <<stage, seen, marker, drain, doomed, faults, misled>>

(* SIGKILL, or a crash: the kernel closes the lock's connection. *)
Dies(p) ==
    /\ Alive(p)
    /\ Goto(p, "dead")
    /\ lock' = IF lock = p THEN None ELSE lock
    /\ UNCHANGED <<stage, seen, pidfile, marker, due, signals, code, drain,
                   doomed, misled>>

Killed(p) == p \in doomed /\ Dies(p) /\ UNCHANGED faults

Crash(p) == faults < MaxFaults /\ Dies(p) /\ faults' = faults + 1

(* A signal before the startup has its handlers is a crash. *)
OperatorSignal(p) ==
    /\ Alive(p) /\ stage[p] # "check"
    /\ faults < MaxFaults /\ faults' = faults + 1
    /\ due' = [due EXCEPT ![p] = @ + 1]
    /\ UNCHANGED <<pc, stage, seen, pidfile, lock, marker, signals, code,
                   drain, doomed, misled>>

(* Everybody is dead, or serves and is left alone. *)
AtRest ==
    /\ \A p \in Procs : pc[p] = "dead" \/ (Serves(p) /\ drain[p] = "no" /\ due[p] = 0)
    /\ UNCHANGED vars

Progress(p) ==
    \/ Read(p) \/ Probe(p) \/ Rollback(p) \/ Vet(p) \/ Clean(p)
    \/ Mark(p) \/ Term(p) \/ Exited(p) \/ Kill(p) \/ Sweep(p)
    \/ Acquire(p) \/ Create(p) \/ Write(p) \/ Boot(p) \/ Abort(p)
    \/ LastProbe(p) \/ LastRollback(p)
    \/ Drain(p) \/ Drained(p) \/ Exit(p) \/ FastExit(p) \/ Killed(p)

Next ==
    \/ \E p \in Procs :
        \/ Launch(p) \/ Progress(p)
        \/ GiveUp(p) \/ BootFails(p) \/ Crash(p) \/ OperatorSignal(p)
    \/ AtRest

Spec == Init /\ [][Next]_vars

----------------------------------------------------------------------------
TypeOK ==
    /\ pc \in [Procs -> {"off", "read", "probe", "rollback", "vet", "clean",
                         "mark", "term", "wait", "confirm", "sweep", "acquire",
                         "create", "write", "boot", "serving", "abort", "last", "end",
                         "dead"}]
    /\ stage \in [Procs -> {"check", "guard", "lock", "report"}]
    /\ seen \in [Procs -> Procs \cup {Ghost, None}]
    /\ pidfile \in Procs \cup {Ghost, None, Empty}
    /\ lock \in Procs \cup {None}
    /\ marker \in Procs \cup {Ghost, None}
    /\ due \in [Procs -> Nat] /\ signals \in [Procs -> Nat]
    /\ code \in [Procs -> {"clean", "failed", None}]
    /\ drain \in [Procs -> {"no", "on", "done"}]
    /\ doomed \subseteq Procs
    /\ faults \in 0..MaxFaults
    /\ misled \in BOOLEAN

(* Every process that has claimed the home and has not begun to give it up   *)
(* holds the runtime lock (and so there is one): no probe, no abort of a     *)
(* loser and no exit of another process takes it away.                       *)
Exclusive ==
    /\ TypeOK
    /\ \A p \in Procs :
        /\ pc[p] \in {"rollback", "end", "create", "write"} => lock = p
        /\ pc[p] \in {"boot", "serving"} /\ drain[p] = "no" => lock = p

(* Concurrent starters turn each other away, at the PID file, at the lock    *)
(* and by the moment a probe of a starter holds the lock; without a fault    *)
(* they never all do: while nobody is left on the way, somebody serves.  (It *)
(* takes the probe of one who has already given up, for a report, to turn    *)
(* away the last one.)  And a gateway that is replaced, and that nobody else *)
(* signals, exits as a planned takeover (code 0) and not as a death to be    *)
(* revived from.  (A second replacer may be such a somebody else, and may    *)
(* overwrite or clear the marker.)                                           *)
OneReplacer == \A r, s \in Replacers : r = s
GivenUp(p) == pc[p] \in {"off", "dead"} \/ stage[p] = "report"
OrderlyHandover ==
    faults = 0 =>
        /\ ~misled /\ (\A p \in Procs : GivenUp(p))
              => \A p \in Procs : pc[p] = "off"
        /\ OneReplacer => \A p \in Procs : code[p] # "failed"

(* "claim the runtime lock + PID file BEFORE adapters accept traffic"        *)
(* (lifecycle.ts:682-683): a gateway whose adapters are connected holds the  *)
(* lock at that moment.  A startup that its own drain has overtaken does not.*)
ConnectsAsHolder ==
    [][\A p \in Procs : pc[p] = "boot" /\ pc'[p] = "serving" => lock = p]_vars

(* A gateway that holds the home is named by the PID file. *)
Named ==
    \A p \in Procs : Serves(p) /\ drain[p] = "no" => pidfile = p

(* "gateway already running" (entrypoints/pi-gateway.ts:37, 240-253):       *)
(* whoever gives way to another gateway leaves one that is on its way or     *)
(* serves, as OrderlyHandover has it but for the report's own probe.         *)
SomebodyStays ==
    faults = 0 /\ (\A p \in Procs : pc[p] \in {"off", "dead"})
        => \A p \in Procs : pc[p] = "off"
=============================================================================
