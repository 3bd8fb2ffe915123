-------------------------------- MODULE Drain --------------------------------
(* The stop of a gateway and the boot after it: the ordered drain, which      *)
(* saves what only memory holds and leaves a receipt, and the recovery, which *)
(* reads both. Processes follow one another in one home. A signal may hit a   *)
(* boot, whose stages then go on beside the drain.                            *)
EXTENDS Integers, FiniteSets

CONSTANTS
    Messages,   \* what the host registers as pending
    Unbound,    \* those without a session: saved in a file, never replayed
    MaxBoots,   \* how many processes are started
    MaxFaults   \* how many writes, deletions, inserts, stops and hooks fail

ASSUME DrainAssumption ==
    /\ Unbound \subseteq Messages /\ "none" \notin Messages
    /\ MaxBoots \in Nat /\ MaxFaults \in Nat

VARIABLES
    proc,       \* the memory of the process
    files,      \* the messages in recovery files
    rows,       \* how often each message is in the database
    receipt,    \* .clean_shutdown
    unfinished, \* a run was cut, and no boot has recovered from it since
    blind,      \* ... in a way that the receipt cannot show
    known,      \* the messages that were registered
    gone,       \* messages that died with a process or could not be written
    boots, faults

disk == <<files, rows, receipt>>
vars == <<proc, disk, unfinished, blind, known, gone, boots, faults>>

None == "none"

Proc ==
    [boot : {"none", "lock", "database", "replay", "unlink", "adapters", "read",
             "clean", "unclean", "identity", "done", "aborted"},
     drain : {"idle", "ingress", "wait", "flush", "close", "receipt", "join",
              "release", "over"},
     holds : BOOLEAN,      \* the runtime lock and the pid file are its own
     open : BOOLEAN,       \* the state database is open
     up : BOOLEAN,         \* the adapters are connected
     ticker : BOOLEAN,     \* the cron ticker is running
     run : {"none", "counted", "late"}, \* "late": the drain did not wait for it
     timedOut : BOOLEAN,   \* the drain gave up waiting for the run
     stale : BOOLEAN,      \* the receipt could not be deleted
     slots : SUBSET Messages, \* pendingSlots
     todo : SUBSET Messages,  \* the recovery files this boot has listed
     now : Messages \cup {None}, \* replayed, its file not yet deleted
     signals : {0, 1, 2}]

Nobody ==
    [boot |-> "none", drain |-> "idle", holds |-> FALSE, open |-> FALSE,
     up |-> FALSE, ticker |-> FALSE, run |-> "none", timedOut |-> FALSE,
     stale |-> FALSE, slots |-> {}, todo |-> {}, now |-> None,
     signals |-> 0]

(* The variables keep their types.                                            *)
TypeOK ==
    /\ proc \in Proc
    /\ files \subseteq Messages /\ known \subseteq Messages /\ gone \subseteq Messages
    /\ rows \in [Messages -> Nat]
    /\ receipt \in BOOLEAN /\ unfinished \in BOOLEAN /\ blind \in BOOLEAN
    /\ boots \in 0..MaxBoots /\ faults \in 0..MaxFaults

Init ==
    /\ proc = Nobody
    /\ files = {} /\ rows = [m \in Messages |-> 0] /\ receipt = FALSE
    /\ unfinished = FALSE /\ blind = FALSE /\ known = {} /\ gone = {}
    /\ boots = 0 /\ faults = 0

Alive == proc.boot # "none"
Fault == faults < MaxFaults /\ faults' = faults + 1
NoFault == UNCHANGED faults
History == <<unfinished, blind, known, gone, boots>>

-----------------------------------------------------------------------------
(* The startup. It does not look at a drain that has begun meanwhile.         *)

Started ==
    /\ ~ Alive /\ boots < MaxBoots
    /\ boots' = boots + 1
    /\ proc' = [Nobody EXCEPT !.boot = "lock"]
    /\ UNCHANGED <<disk, unfinished, blind, known, gone, faults>>

HomeClaimed ==
    /\ proc.boot = "lock"
    /\ proc' = [proc EXCEPT !.boot = "database", !.holds = TRUE]
    /\ NoFault /\ UNCHANGED <<disk, History>>

DatabaseOpened ==
    /\ proc.boot = "database"
    /\ proc' = [proc EXCEPT !.boot = "replay", !.open = TRUE, !.todo = files]
    /\ NoFault /\ UNCHANGED <<disk, History>>

(* Mutant: the file goes, whatever came of the insert.                        *)
NeverKept(m) ==
    /\ proc.boot = "replay" /\ m \in proc.todo
    /\ IF m \in Unbound \/ ~ proc.open THEN NoFault ELSE Fault
    /\ proc' = [proc EXCEPT !.todo = @ \ {m}]
    /\ files' = files \ {m} /\ UNCHANGED <<rows, receipt, History>>

(* A file is kept when it names no session or when the insert fails, as it    *)
(* does once the drain has closed the database.                               *)
Kept(m) ==
    /\ proc.boot = "replay" /\ m \in proc.todo
    /\ IF m \in Unbound \/ ~ proc.open THEN NoFault ELSE Fault
    /\ proc' = [proc EXCEPT !.todo = @ \ {m}]
    /\ UNCHANGED <<disk, History>>

Replayed(m) ==
    /\ proc.boot = "replay" /\ m \in proc.todo \ Unbound /\ proc.open
    /\ rows' = [rows EXCEPT ![m] = @ + 1]
    /\ proc' = [proc EXCEPT !.boot = "unlink", !.todo = @ \ {m}, !.now = m]
    /\ NoFault /\ UNCHANGED <<files, receipt, History>>

Unlinked ==
    /\ proc.boot = "unlink"
    /\ \/ files' = files \ {proc.now} /\ NoFault
       \/ UNCHANGED files /\ Fault
    /\ proc' = [proc EXCEPT !.boot = "replay", !.now = None]
    /\ UNCHANGED <<rows, receipt, History>>

TickerStarted ==
    /\ proc.boot = "replay" /\ proc.todo = {}
    /\ proc' = [proc EXCEPT !.boot = "adapters", !.ticker = TRUE]
    /\ NoFault /\ UNCHANGED <<disk, History>>

AdaptersConnected ==
    /\ proc.boot = "adapters"
    /\ proc' = [proc EXCEPT !.boot = "read", !.up = TRUE]
    /\ NoFault /\ UNCHANGED <<disk, History>>

(* runBootChoreography is given whether there is a receipt, then runs hooks.  *)
ReceiptRead ==
    /\ proc.boot = "read"
    /\ proc' = [proc EXCEPT !.boot = IF receipt THEN "clean" ELSE "unclean"]
    /\ NoFault /\ UNCHANGED <<disk, History>>

ReceiptConsumed ==
    /\ proc.boot = "clean"
    /\ \/ receipt' = FALSE /\ proc' = [proc EXCEPT !.boot = "identity"] /\ NoFault
       \/ UNCHANGED receipt /\ Fault
          /\ proc' = [proc EXCEPT !.boot = "identity", !.stale = TRUE]
    /\ UNCHANGED <<files, rows, History>>

(* Without a receipt the recovery hooks are tried; that one of them fails is  *)
(* only logged.                                                               *)
Recovered ==
    /\ proc.boot = "unclean"
    /\ proc' = [proc EXCEPT !.boot = "identity"]
    /\ unfinished' = FALSE /\ blind' = FALSE
    /\ NoFault /\ UNCHANGED <<disk, known, gone, boots>>

(* stageRuntimeIdentity: the status file says that the gateway runs.          *)
IdentityStamped ==
    /\ proc.boot = "identity"
    /\ proc' = [proc EXCEPT !.boot = "done"]
    /\ NoFault /\ UNCHANGED <<disk, History>>

(* The home is taken, the database does not open, the cleanup throws, or the  *)
(* status cannot be written: ownership is released, and what earlier stages   *)
(* have started goes on.                                                      *)
StartupAborted ==
    /\ proc.boot \in {"lock", "database", "clean", "identity"}
    /\ proc' = [proc EXCEPT !.boot = "aborted", !.holds = FALSE, !.open = FALSE]
    /\ Fault /\ UNCHANGED <<disk, History>>

-----------------------------------------------------------------------------
(* What goes on beside startup and drain.                                     *)

Waiting == proc.drain \in {"idle", "ingress", "wait"}

(* What is registered after the flush has taken the slots dies with them.     *)
Registers(m) ==
    /\ Alive /\ m \notin known
    /\ known' = known \cup {m}
    /\ proc' = [proc EXCEPT !.slots = @ \cup {m}]
    /\ gone' = IF Waiting \/ proc.drain = "flush" THEN gone ELSE gone \cup {m}
    /\ NoFault /\ UNCHANGED <<disk, unfinished, blind, boots>>

RunStarts ==
    /\ proc.ticker /\ proc.run = "none"
    /\ proc' = [proc EXCEPT !.run = IF Waiting THEN "counted" ELSE "late"]
    /\ NoFault /\ UNCHANGED <<disk, History>>

RunEnds ==
    /\ proc.run # "none"
    /\ proc' = [proc EXCEPT !.run = "none"]
    /\ NoFault /\ UNCHANGED <<disk, History>>

(* A process that dies takes its memory with it and cuts its run. The next    *)
(* boot is told so, unless a receipt lies there which this process could not  *)
(* delete, had not come to delete, or has written before the run began.       *)
PastRecovery == proc.boot \in {"identity", "done"}
Unseen == proc.run = "late" \/ proc.stale \/ ~ PastRecovery
Dies ==
    /\ proc' = Nobody
    /\ gone' = gone \cup proc.slots
    /\ unfinished' = (unfinished \/ proc.run # "none")
    /\ blind' = (blind \/ (proc.run # "none" /\ receipt /\ Unseen))
    /\ NoFault /\ UNCHANGED <<disk, known, boots>>

Crashes == Alive /\ Dies

-----------------------------------------------------------------------------
(* The drain.                                                                 *)

Signalled ==
    /\ Alive /\ proc.signals = 0
    /\ proc' = [proc EXCEPT !.signals = 1, !.drain = "ingress"]
    /\ NoFault /\ UNCHANGED <<disk, History>>

(* The second signal releases the locks and exits at once.                    *)
Escalated == proc.signals = 1 /\ Dies

(* Mutant: the watchdog is armed after the adapters have been stopped.        *)
WatchdogArmedLate ==
    /\ proc.drain \notin {"idle", "ingress", "join", "release", "over"}
    /\ Dies

(* The watchdog does the same when the drain takes too long.                  *)
WatchdogFires ==
    /\ proc.drain \notin {"idle", "join", "release", "over"}
    /\ Dies

IngressStopped ==
    /\ proc.drain = "ingress"
    /\ \/ NoFault /\ proc' = [proc EXCEPT !.drain = "wait", !.up = FALSE]
       \/ Fault /\ proc' = [proc EXCEPT !.drain = "wait"]
    /\ UNCHANGED <<disk, History>>

(* The wait ends when no run is in flight, or when its budget is spent.       *)
WaitEnds ==
    /\ proc.drain = "wait"
    /\ proc' = [proc EXCEPT !.drain = "flush", !.timedOut = proc.run # "none"]
    /\ NoFault /\ UNCHANGED <<disk, History>>

(* pendingSlots is taken and written in one go, one file per message.  A file *)
(* that cannot be written is skipped; a payload that cannot be read ends the  *)
(* flush, and the messages after it fail with it.                             *)
PendingFlushed ==
    /\ proc.drain = "flush"
    /\ \E failed \in SUBSET proc.slots :
          /\ IF failed = {} THEN NoFault ELSE Fault
          /\ files' = files \cup (proc.slots \ failed)
          /\ gone' = gone \cup failed
    /\ proc' = [proc EXCEPT !.drain = "close", !.slots = {}]
    /\ UNCHANGED <<rows, receipt, unfinished, blind, known, boots>>

(* The stop of the ticker begins the bounded join.                            *)
Join(p) == [p EXCEPT !.drain = "join", !.ticker = FALSE]

(* Mutant: a drain that has timed out writes the receipt as well.             *)
ReceiptAnyway ==
    /\ proc.drain = "close"
    /\ proc' = [proc EXCEPT !.open = FALSE, !.drain = "receipt"]
    /\ NoFault /\ UNCHANGED <<disk, History>>

DatabaseClosed ==
    /\ proc.drain = "close"
    /\ LET closed == [proc EXCEPT !.open = FALSE]
       IN  proc' = IF proc.timedOut THEN Join(closed)
                   ELSE [closed EXCEPT !.drain = "receipt"]
    /\ NoFault /\ UNCHANGED <<disk, History>>

(* A drain that overtakes the startup covers what an earlier process cut.     *)
ReceiptWritten ==
    /\ proc.drain = "receipt"
    /\ proc' = Join(proc)
    /\ \/ NoFault /\ receipt' = TRUE
       \/ Fault /\ UNCHANGED receipt
    /\ blind' = (blind \/ (unfinished /\ ~ PastRecovery))
    /\ UNCHANGED <<files, rows, unfinished, gone, known, boots>>

(* The run in flight has ended, or the bound of the join has passed.          *)
Joined ==
    /\ proc.drain = "join"
    /\ proc' = [proc EXCEPT !.drain = "release"]
    /\ NoFault /\ UNCHANGED <<disk, History>>

Released ==
    /\ proc.drain = "release"
    /\ proc' = [proc EXCEPT !.drain = "over", !.holds = FALSE]
    /\ NoFault /\ UNCHANGED <<disk, History>>

(* The process exits when nothing keeps its event loop alive. A startup that  *)
(* aborts flushes nothing.                                                    *)
Exits ==
    /\ \/ proc.boot = "done" /\ proc.drain = "over" /\ UNCHANGED gone
       \/ proc.boot = "aborted" /\ proc.drain = "idle" /\ gone' = gone \cup proc.slots
       \/ proc.boot = "aborted" /\ proc.drain = "over" /\ UNCHANGED gone
    /\ ~ proc.up /\ ~ proc.ticker /\ proc.run = "none"
    /\ proc' = Nobody
    /\ NoFault /\ UNCHANGED <<disk, unfinished, blind, known, boots>>

-----------------------------------------------------------------------------
Boots ==
    \/ Started \/ HomeClaimed \/ DatabaseOpened
    \/ \E m \in Messages : Kept(m) \/ Replayed(m)
    \/ Unlinked \/ TickerStarted \/ AdaptersConnected
    \/ ReceiptRead \/ ReceiptConsumed \/ Recovered \/ IdentityStamped
    \/ StartupAborted

(* The steps that the drain cannot be kept waiting for.                       *)
Drains ==
    WaitEnds \/ PendingFlushed \/ ReceiptWritten \/ Joined \/ Released

Next ==
    \/ Boots \/ Drains \/ IngressStopped \/ DatabaseClosed
    \/ RunStarts \/ RunEnds \/ \E m \in Messages : Registers(m)
    \/ Crashes \/ Signalled \/ Escalated \/ WatchdogFires \/ Exits

Spec == Init /\ [][Next]_vars

(* Timers fire and synchronous steps happen. An adapter that never answers    *)
(* its stop, or a database that never closes, is the watchdog's business.     *)
FairSpec == Spec /\ WF_vars(Drains) /\ WF_vars(WatchdogFires)

-----------------------------------------------------------------------------
(* What the host has registered is in memory, in a recovery file or in the    *)
(* database, through any number of stops, failed replays and boots, unless it *)
(* died with its process or its own file could not be written.                *)
Saved ==
    \A m \in known : \/ m \in proc.slots \cup files \cup gone
                     \/ rows[m] > 0

(* A boot that finds the receipt has nothing to recover from: no run was cut  *)
(* since the last recovery, but for a run begun behind the drain's back, a    *)
(* receipt that outlived its boot, or a drain that overtook a startup.        *)
CleanMeansFinished == proc.boot = "clean" /\ unfinished => blind

(* A process that drains gives up the home in the end, even if its adapters   *)
(* or its database hang and its run never ends.                               *)
StopGivesUpTheHome ==
    proc.holds /\ proc.drain \notin {"idle", "over"} ~> ~ proc.holds

-----------------------------------------------------------------------------
(* "startup must abort so the old receipt can never mask a later unclean      *)
(* exit" (boot-recovery.ts:130-131): no receipt hides a run that was cut. It  *)
(* is read after the ticker and the adapters have started, may not be         *)
(* deletable, and a drain that overtakes a startup writes it.                 *)
ReceiptNeverMasks == ~ (proc.boot = "clean" /\ unfinished)

(* "replayed exactly once" (shutdown.ts:655): no message is inserted twice. A *)
(* crash between insert and deletion, or a failed deletion, repeats it.       *)
ReplayedOnce == \A m \in Messages : rows[m] <= 1

(* "locks never stranded on ANY exit path" (lifecycle.ts:1166), and released  *)
(* after the teardown (1481): when the drain is over the process holds and    *)
(* serves nothing. A startup that the drain overtakes goes on and does both.  *)
OverIsOver == proc.drain = "over" => ~ (proc.holds \/ proc.up \/ proc.open)
=============================================================================
