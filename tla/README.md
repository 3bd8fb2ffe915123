# Pi Gateway in TLA+

Specifications of the coordination core of Pi Gateway, checked with TLC, their
safety proved with TLAPS. Paths are relative to the repository's
`src/`; the lines of each definition are in `PROJECT.json` under `map`.

## 1. The system

One gateway process connects chat platforms to agent turns. A message goes

    platform adapter -> L1 adapter guard -> turn (agent child process)
                     -> stream consumer / egress -> delivery obligations

under a lock for the bot credential; beside it run cron jobs and session
handoffs, and around it the life of the process: boot, reconnection of platforms,
drain, replacement by another instance. Several gateway processes may share one
machine, one `state.db` and one home. They meet in SQLite rows, lock files, marker
files and the jobs file.

| Component | State it keeps | Operations | What is hard | What makes it correct |
|---|---|---|---|---|
| Turn leases `pi_state/leases.ts` | one lease row per conversation | tryAcquire, acquireWait, refresh, releaseHolder, the write guard | crash, expiry, unproven holders, session rotation | one writer per conversation; a superseded turn writes nothing; waits end |
| L1 adapter guard `pi_gateway/guards` | lock, owner task, one pending slot, debounce buffer per session | handleMessage, turn frame with three drains, session commands, healing | awaits between every two steps; cancel against late drain | one turn at a time; order; nothing lost, nothing twice |
| Obligations `pi_gateway/obligations` | one row per owed message | record, inline send, sweep, retry claim, settle, prune | crash between send and settle, two engines, failing writes | at least once, bounded, marked, one sender, settled in the end |
| Handoff `pi_embedded/handoff` | handoff columns of a session row | request, poll, time out, list, claim, dispatch, complete, fail | timeout against late completion, stale listings, crashes | one dispatch per request; truthful answers; retryable |
| Cron `pi_embedded/cron` | jobs file, tick lock, fire claims | tick, claim, heartbeat, run, mark, user edits | stalls, crashes, edits during a run | a slot fires once; results recorded; one-shots end |
| Token lock `pi_gateway/security/tokenlock` | one lock file per credential | acquire, replace, release | files only: every call is a step of its own; dead, stopped, reused pids | one holder until a handle is released; a free lock can be had |
| Approvals `pi_embedded/approvals` | queue of pending entries, parked gate calls | ask, coalesce, notify, answer, time out, interrupt, unregister | an answer during the notification; leaders and followers | a command runs only under an answer; no call hangs |
| Agent hosts, pickers `pi_agent_core`, `pi_gateway/pickers` | table of child processes, FIFO of turns, dialogs | spawn, take, give back, probe, stop; ask, tap, type, expire | awaits around a table entry; three ways to settle a dialog | one turn per child; a dialog settles once and honestly |
| Instance guard, takeover `pi_gateway/lifecycle` | pid file, runtime lock, takeover marker | start, probe, clean, replace, claim, abort, exit | two processes over three files | the claimant has the lock; someone serves |
| Reconnection `reconnect-watcher.ts`, `lifecycle.ts` | queue of failed platforms, adapters | boot, die, requeue, retry, stop | passes that overlap; the drain beside a pass | one consumer per platform; queued ones come back |
| Boot and drain `lifecycle.ts`, `shutdown.ts`, `boot-recovery.ts`, `watchdog.ts` | pending slots, recovery files, clean-shutdown receipt | boot stages, drain phases, signals, watchdog | crash between two phases; a drain beside a startup | nothing registered is lost; a receipt is true; the home is given up |
| Polling intake `pi_platforms/polling`, `telegram` | offset floor, held queue, poll generations | poll, commit, dispatch, hold, redispatch, 409 ladder, recovery | loops of several generations asleep at once | no committed update is lost; every update settles |
| Runner guard, streaming, resolution, authorization, outbound, state store, other adapters, setup | see `PROJECT.json` | | | |

The hazards are listed, each at its line, in `PROJECT.json` under `hazards`.

## 2. Modules

| Module | Role |
|---|---|
| `FencedTranscript` | abstract: a conversation has one owner, and only it writes |
| `TurnLease`, `MCTurnLease` | the lease store; its TLC values |
| `SerialTurns` | abstract: the messages of one session are answered in turns, in order |
| `L1Guard`, `MCL1Guard`, `L1Guard_proofs` | the adapter guard for one session key |
| `Obligations`, `MCObligations`, `Obligations_proofs` | the ledger, the scheduler and the inline send |
| `Handoff` | sessions table, CLI clients, watchers |
| `CronFire`, `MCCronFire`, `CronFire_proofs` | jobs file, tick, fire claim, user edits |
| `TokenLock`, `MCTokenLock` | the lock file protocol |
| `Consent` | abstract: a dangerous command runs only under an answer of the user |
| `Approvals`, `MCApprovals` | gate, queue, bridge and surfaces of one session |
| `ChatTurns`, `MCChatTurns` | turn runner, child processes and dialogs of one chat |
| `Instance`, `MCInstance`, `Instance_proofs` | who owns the home |
| `Reconnect` | which adapters are connected |
| `Polling` | the intake of a long-polling adapter |
| `Drain` | the stop of a gateway and the boot after it |
| `Claims_proofs` | theorems of `TokenLock` and `Handoff` |
| `Permission_proofs` | theorems of `TurnLease` and `Approvals` |
| `Lifecycle_proofs` | theorems of `Drain` and `ChatTurns` |
| `Adapter_proofs` | theorems of `Reconnect` and `Polling` |

A module of theorems EXTENDS the components it is about. Where it is about two, the
second one's specification has a prefix of its own (`HandoffInit`, `ApprovalsNext`,
`ChatSpec`, `PollingTypeOK`), so that the two can stand side by side; they share no
variable.

**TurnLease.** A holder id names one turn, so turns are holders. An action is one
`BEGIN IMMEDIATE` transaction. `acquireWait` polls, so it is `AcquireWait`
followed by `TakeRow`, `FindOwnRow` or `PollFails`, or `AbortWait`. `Rotate` adds
a compression segment; `root` is what `lineageRootOnDb` walks to. Times are what
is left of them (`ttl`, `left`), which is all the code compares. `Structured`
holders carry a pid that can be proved dead. `AppendMessage` is the guarded
transcript write. The model refines `FencedTranscript`: the owner of a
conversation is the running turn whose row is there.

**L1Guard.** The code is single-threaded, so an action is the code between two
awaits, and `pc[m]` names the await at which the frame or command of message `m`
is parked. Events are sequences of merged messages. `active`, `owner`, `pending`,
`buffer` and `timer` are the maps `activeSessions`, `sessionTasks`,
`pendingMessages` and `textDebounce` for one key (keys share nothing). An adapter
delivers concurrently, so a message may arrive at any await. `Busy` includes the
on-entry healing. Kinds, senders and the mode of the four messages are chosen at
`Init` from `Traffics`. Not in the model: `busySessionHandler` (production wires
none), the spawn rollback (the production spawner cannot fail), and the
stale-response suppression (only tests set an InterruptEvent).

**Obligations.** An engine is one incarnation of a process. A ledger method is
one transaction and one action; a send starts in one action (`SendOut`) and is
settled in another, so that a crash, a second engine or the engine's other pass
may come between. `fate` chooses what the platform did with the copy. `due` and
`stale` are the outcomes of the two age comparisons. `WritesFail` lets a
best-effort compare-and-set be lost, and the retry pass of a tick throw, which
drops what its sweep has claimed (`RetriesFail`).

A *call* is one run of `deliverNew`, or one `record` of a held-open reply, which
sends nothing (the one caller in production, `obligations-seam.ts`, is of this
kind). The id of its row is computed from what it delivers (`Id`), and `record` is
an `INSERT OR REPLACE`: a second call with the same content resets the row,
whatever state it is in and whoever has it in hand, to pending, uncharged, young
and owned by the caller. `overtaken` is history: the last record of the row replaced
one that a call or a tick still had in hand.

**Handoff.** `row` holds `handoff_state` and `handoff_platform`; a client's
`pollUntilTerminal` and a watcher's `tick` are step by step the reads and writes
they await. The pipeline is `Dispatch` (home channel switched, synthetic turn
sent) or `PipelineRefuses`.

**CronFire.** A store call under the jobs lock is one action. `claim.by` is the
position of the run in `fired`, fresh as the code's `pid:uuid`. One-shot and
interval schedules are modelled; cron expressions differ only in the arithmetic
of the next slot. What a history may contain (jobs, edits, stalls, store faults,
crashes) is one `world`, chosen at `Init`. The emergency-stop sentinel only makes a
tick do nothing, which a tick may do anyway. The grace of a schedule is half its
period within two bounds (`Grace`, `MaxGrace`). The end of a body, its own throw
after an abort included, is `Settles`.

**TokenLock.** Each file system call and each look at the process table is a
step: rung 0, read, classify, tombstone, create, read the winner, refresh; and on
release read, then unlink. The rename onto the tombstone and the unlink of it are
one step, as nothing reads it. Rung 6 (command lines) cannot fire on a record
which this code wrote. `quiet` is history: nothing has died, returned, been stopped,
been replaced or been planted. A contender that acquires again is given another
handle with a `released` flag of its own, so `handles` counts; a release reads the
record, which knows its owner but no handle, and unlinks it, whether it was the
first handle that was released or the last. `holds` is what a contender may rely
on: it has acquired, and released nothing since.

**Approvals.** A gate call is at one of its awaits (`pre`, `notify`, `wait`, or
as a follower `coalesce`, `follow`), and answers, interrupts and the end of the run
(`Unregister`) come in between. `result` is the decision slot of an entry, `cards`
the buttons that still work. A follower adopts what its leader was answered only
if that covers it (`Adopt`), else it asks for itself. The refinement of `Consent`
maps the abstract `given` to `result`. Production does not wire the gate (no
entry point builds it); the model is of the gate as it would be wired.

**ChatTurns.** The session guard runs one turn at a time but lets a session
command, and words typed while a dialog is live, through to the handler beside it.
`pc[t]` is the await a handler is at; `current` and `state` are the registry's entry
for the chat, `up` the child processes the machine runs, which may die at any time.
A dialog is registered (`AskDialog`), shown (`Sent`), settled once (`Tap`,
`TakeText`, `Expire`, the end of its turn) and answered to its asker (`Respond`). A
turn whose time is up leaves a live child behind marked ready; a path command
stops a child and starts one in another directory.

**Instance.** A process is one incarnation. Each file operation of the guard, the
lock, the pid file and the marker is a step, and a process may be killed between
any two of them, but its own signals are handled only where its code awaits. The
probe of the runtime lock holds the lock it asks about, and `Clean` removes
whatever the pid file holds by then, as the code does. `stage` says which of the
four looks at the PID file a process is at: the `check` of the run command before
the startup, the two stages of the startup, and the `report` of the run command
about a startup that has failed (`entrypoints/pi-gateway.ts` 238-256), which probes
the lock once more (`LastProbe`). `misled` is history: the probe of a report has
turned a starter away. The `status` command probes the lock in the same way and is
not modelled: it is not a gateway, and its probe is a fault of the environment.

**Reconnect.** `boot` is the adapter instance a platform was booted with, `fresh`
counts those that retries have made, `row` is the entry of `FailedPlatformQueue`,
and `pass` are the watcher's passes, of which several may be in flight, since the
tick arms itself before its pass. `overlap` is history. The drain stops the booted
instances (`Disconnects`), and the watcher when it is over (`WatcherStops`). A stop
that throws ends the loop over the adapters, which has no `try`: the later ones
stay up. A boot connect is one step, although `onRuntimeFatal` is attached before it
is awaited: the only adapter with that hook (`polling-adapter.ts` 165) starts its
loop in the last, synchronous part of `connect` (353-364) and reports a fatal
conflict after several sleeps (675-722), so none turns fatal while its boot awaits
it.

**Polling.** A generation is one run of `pollLoop`. `Commits` moves the floor and
prunes `raw` before the batch is dispatched; `Each` dispatches, `EachFails` holds
the rest; `DrainTakes` and its companions redispatch what is held. `Conflict` is
the 409 ladder, which any answer, an empty one too (`AnswersNothing`), ends,
`RecoveryOver` the ladder after a network failure, `Reborn` the fresh
instance that the reconnect watcher makes of a fatal one. `discarded` are the
updates the code gives up by decision: dropped with a new generation, or by a full
hold queue. A conflict ladder that sleeps drops pending updates when it restarts,
even when a recovery has made a healthy generation meanwhile; these count as
discarded.

**Drain.** `proc` is the memory of one process at a time: how far its boot and its
drain are, what it holds, its pending slots and its cron run. `files`, `rows` and
`receipt` are on disk and outlive it. A signal may hit a boot, and boot and drain
then go on side by side, as in the code. A lingering process, which has given the
home up but is kept alive by an adapter or the ticker, is still the one process;
that a second one may start beside it is Instance's subject. The flush of the slots
is one step since it is synchronous; a payload that cannot be read ends it, which
leaves the same slots over as files that cannot be written, so both are one choice
in `PendingFlushed`. The last boot stage, the runtime identity, comes after the
recovery and may fail the startup too (`IdentityStamped`, `StartupAborted`).
`unfinished`, `blind`, `known` and `gone` are history. `registerPendingMessage` and most boot hooks have no caller in production
today: the module is about the contract they will be used under.

How they compose: `TurnLease`, `L1Guard`, `Approvals` and `CronFire` are stated
against what they promise their callers (`FencedTranscript`, `SerialTurns`,
`Consent`, and the claim that a run owns). `ChatTurns` assumes of the guard what
`SerialTurns` says and what L1Guard lets through beside it. `Drain` assumes of the
home what `Instance` proves: that the lock is exclusive. `Polling`'s `Reborn` is
`Reconnect`'s `Connects`.

## 3. Runs

`tlc -workers 2 -config <cfg> <module>`.

| Run | What it shows | Time |
|---|---|---|
| `lease` | `Fenced`, `NoLiveSteal`, refinement of `FencedTranscript`; `EveryWaitReturns`, `OrphansReclaimed` | 10 s |
| `l1` | `OneTurn`, `LockCoherent`, `HandledOnce`, `OneSpeaker`, `NoneLost`, refinement of `SerialTurns`; `EveryMessageHandled` | 160 s |
| `obligations` | `OneSender`, `CopiesPaidAndMarked`; `EveryRowSettles` | 140 s |
| `handoff` | `DispatchedOnce`, `ToldTheTruth`; `BecomesRetryable` | 57 s |
| `cron` | `OncePerSlot`, `NeverStolen`, `RunsAreRecorded`; `OneShotsEnd` | 200 s |
| `token` | `OneHolder`; `FreeLockYields` | 85 s |
| `approvals` | `Answerable`, refinement of `Consent`; `EveryAskReturns` | 57 s |
| `instance` | `Exclusive`, `OrderlyHandover` | 30 s |
| `reconnect` | `OneConsumer`; `Recovers` | 40 s |
| `polling` | `NoneLost`; `EveryUpdateSettles` | 200 s |
| `chat` | `BusyIsOwned`, `DialogsHonest`; `EveryTurnReturns`, `EveryDialogSettles` | 123 s |
| `drain` | `Saved`, `CleanMeansFinished`; `StopGivesUpTheHome` | 42 s |

The type invariant of a module is a conjunct of its first safety property. Beside
the runs, `ObligationsCap.cfg` (with `MCObligations`) checks
`OwedOutlivesSettled`: a full table does not evict an owed row while a settled one
is left.

Each property has a mutant, defined next to the definition it changes and marked
`Mutant:`; under the mutant the property fails. The mutants are a dropped owner
check, a missing reset, a compare-and-set without the compare, a receipt written
after a timeout and the like.

### Bounds

The safety of every run is proved for all values of the constants (section 5); the
bounds matter to liveness, and to the search that came before each proof.

- `lease`: two turns of two processes, two sessions, a TTL of two seconds and a
  wait of one. A takeover needs a holder, an acquirer and a conversation; the
  second session is what a rotation adds.
- `l1`: four messages of several traffics: plain, one or two session commands
  among texts, debounced texts of two speakers, with a photo or without, stickers:
  436,978 states. One message runs, one is in the slot, one lands in a drain and one
  after it; each disagreement of section 7 needs at most four.
- `obligations`: one row (rows share only the cap, which `ObligationsCap` covers),
  two calls for it, which may record it one after the other or while the other has
  it in hand, and two engines, of which one crashes: 337,999 states. One
  redelivery, the first and the last (three in the code). `ObligationsPromised` has
  three engines and the code's budget.
- `handoff`: two sessions make a listing that goes stale under the first one's
  turn; two clients ask; two gateways race; one crash; two requests in all. One
  platform, except in `HandoffPromised`.
- `cron`: three worlds. `Rough` has one job with all user edits, stalls, store faults
  and a crash; `Edited` has the edits alone, so that `RunsAreRecorded` is about
  them; `Calm` has two jobs in one tick and a crash. Period 2, grace 1, claim TTL 2,
  time until 4, three fires. `MaxGrace` is the grace: the cap of the catch-up grace
  is at work in the proofs only.
- `token`: two contenders in two processes with every fault on, two handles each;
  three create rounds as in the code; a pid recurs at most twice.
- `approvals`: three calls, two for the same command: a leader, its follower and an
  unrelated prompt that a bare answer may hit.
- `instance`: two plain starters and one replacer, and one fault (a crash, an
  operator's signal, a failed boot) anywhere: 710,773 states.
- `reconnect`: two platforms, two passes in flight, interval 2, back-off capped
  at 3: attempts of one pass can outlast the next tick.
- `polling`: two updates, one of them a tap, one conflict before the ladder ends,
  a hold queue of one, three faults, so up to five generations: 475,384 states.
- `chat`: a text, a session command and a path command, two dialogs, three
  children. A third child is what a stop under another turn brings in.
- `drain`: two messages, one without a session, three boots and two faults:
  382,268 states. A message is saved by one process, half replayed by a second
  and finished by a third.

Runs whose behaviours end when the bounded input is used up say
`CHECK_DEADLOCK FALSE`; `lease`, `instance` and `chat` keep the deadlock check.

### Fairness

- Lease: the clock ticks; a living waiter goes on polling (a `while` loop over
  a sleep); and an attempt that could win a conversation again and again does,
  since SQLITE_BUSY comes from transactions that end.
- L1: handlers, sends and timers return, and the microtask queue runs on.
  Nothing is assumed of arrivals.
- Obligations: sends return (the sender has a deadline), time passes, and an
  engine which is up ticks (`ObligationRetryScheduler.start`). One engine stays up.
  Production ticks once at boot (`entrypoints/gateway-run.ts` 845) and does not
  start the loop: there, `EveryRowSettles` holds across boots, not within one.
- Handoff: only the blocked client's loop and clock. Nothing is assumed of the
  gateways.
- Cron: the ticker, the clock and restarts go on, and a job body ends.
- Token lock: a call, which is synchronous, ends while its process runs. Nobody is
  obliged to ask or to release.
- Approvals: a gate call goes on (its waits are sliced and bounded, its hooks
  return). The user need not answer.
- Chat: a handler goes on (every wait of it has a budget), a dialog goes out and is
  responded to once it is settled, and the dialog of a session command expires. The
  user need not answer; the child may die.
- Reconnect: timers fire, connects end, and a platform that is tried again and
  again is let in once (strong fairness).
- Polling: a loop that can go on does, the redispatch, the recovery ladder and the
  reconnect go on. Users need not write and the server may answer with an error
  until the faults are used up.
- Drain: the bounded and the synchronous phases of the drain, and the watchdog
  timer. None on the stop of an adapter or the close of the database, which may
  hang: that is what the watchdog is for.
- Instance has no liveness property.

### Conditions inside properties

- `OneTurn` and `LockCoherent` are about sessions without session commands,
  `NoneLost` too; `EveryMessageHandled` and the refinement are about plain traffic.
- `NoneLost` excepts media that replace what waits (`Replacing`) and, in the
  debounced mode, a third speaker (`Crowded`): there the code drops by design, or
  by the accident of section 7. `OneSpeaker` is about turns of texts: a photo joins
  the slot whoever sent it.
- `OneSender` excepts a first send whose `beginAttempt` failed: the code goes on
  ("whichever path settles first wins legally") with a row that says pending. It
  and the marker part of `CopiesPaidAndMarked` are about rows whose last record did
  not replace one in hand (`overtaken`): such a record starts the row afresh under
  its sender, and what then happens is `OneSenderEver` in section 7. Rows recorded
  anew at any other time are not excepted, and no row is from the count of
  `CopiesPaidAndMarked`, in which every record buys `MaxAttempts` + 1 copies.
- `EveryRowSettles` excepts a row whose settlement could not be written and whose
  engine is up (`Unsettled`): its owner takes it for a send in flight. Without
  failing writes no such state is reachable.
- `BecomesRetryable` excepts a row whose client ended before it failed the row.
- `ToldTheTruth` is about requests nobody gave up on: a timeout settles the row
  while the turn may still be running.
- `RunsAreRecorded` is about worlds without stalls and store faults, `OneShotsEnd`
  about worlds without updates: an edit can prolong a job for ever, and a fault of
  the final store call loses the record.
- `OneHolder` is about histories that are `quiet`. A stopped holder counts as gone
  by design, and a replaced one believes it holds until it looks. A contender counts
  as a holder until the first release of any of its handles, which unlinks the file
  under the others; `HandlesExclude` is the property without that condition.
- `BusyIsOwned` is about histories in which no turn or stop began while a path
  command was stopping a child (`raced`).
- `EveryTurnReturns` excepts handlers that wait for a child beyond the bound.
- `OneConsumer` is about histories without overlapping passes (`overlap`).
- `OrderlyHandover` is about histories without a fault, and its second part about
  homes with one replacer (`OneReplacer`). That starters do not all give way is
  conditioned on no report having turned one away (`misled`); `SomebodyStays` is the
  property without that condition. A starter counts as given up from its report on:
  its probe is a risk to others, not a claim.
- `EveryUpdateSettles` excepts failed dispatches, which are held until the process
  ends, and what a fatal instance had in its hands when it was replaced.
- `Saved` excepts the messages that were in memory when their process was killed,
  whose own file could not be written, which were registered after the flush, or
  whose startup was aborted (`gone`).
- `CleanMeansFinished` excepts a run that began after the wait for runs, a receipt
  that could not be deleted or whose boot died before it was, and a drain that
  overtook a startup (`blind`). `ReceiptNeverMasks` is the property without them.

## 4. Only model-checked

- Liveness under fairness, everywhere (`EveryWaitReturns`, `OrphansReclaimed`,
  `EveryMessageHandled`, `EveryRowSettles`, `BecomesRetryable`, `OneShotsEnd`,
  `FreeLockYields`, `EveryAskReturns`, `EveryTurnReturns`, `EveryDialogSettles`,
  `Recovers`, `EveryUpdateSettles`, `StopGivesUpTheHome`): `ENABLED` and fairness
  are beyond this use of the prover. Every other property of the runs is stated
  by a theorem.
- The counterexamples of section 7.

Nothing recursive is proved about; no module declares a recursive operator.

## 5. Proved

**Turn leases** (`Permission_proofs`). Assumes only `TurnLeaseAssumption`: every turn has a
process, the TTL is positive, `Nobody` is none of the ids.

| Theorem | States |
|---|---|
| `TypeCorrect`, `FenceHolds`, `RootsHold` | `Spec => []TypeOK`, `[]Fenced`, `[]RowsOnRoots` |
| `NoInterleaving`, `LiveRowsKept` | the action properties `StaleNeverLands`, `NoLiveSteal` |
| `StoreRefines` | `Spec => Promise!Spec`, the abstract fenced transcript |

`Fenced` and `RowsOnRoots` are not inductive by themselves: a step of a turn
whose session is no row would break both. `LeaseInv` adds `TypeOK` and `AtWork` (a
turn at work names a session that exists; only a turn that has had the lease
can be superseded). `LeaseSafe` proves `Spec => []LeaseInv` with one step per
action. The action properties and the refinement follow from `LeaseInv` and a case
split on `Next`; the refinement maps acquisition to `Take`, release, crash
and rotation to `Yield`, a guarded write to `Land`, and all else to a stutter.

**The token lock** (`Claims_proofs`). Assumes `PidAssumption`, `BoundAssumption` and
`FlagAssumption`. `TypeCorrect` holds with all the faults. `HolderKept` and
`Exclusion` give `[]HolderRecorded` and `[]OneHolder`, which speak of `quiet`
histories, for any number of contenders, threads and handles. The invariant
`QuietInv` says of every contender, by the step its call is at, what is at the path: a record
belongs to the contender whose call or handle it is, no call is about to rename a
live record away, who holds is not about to unlink, and so `link(2)` lets one in.
`OneHolder` follows since two recorded holders would be one record's owner.

**Handoffs** (`Claims_proofs`). Assumes `HandoffAssumption`: any number of sessions,
platforms, clients, gateways, requests and crashes, with or without store faults and
killed clients. `DispatchedOnceHolds` and `ToldTheTruthHolds` prove both invariants
of the run. `HandoffInv` has these parts.

- `Ours`: what a client polls for, a watcher works on or a row holds is a request
  of the session it is filed under; `Latest`: a row holds the latest request of its
  session; `Fresh`: a request that was not made has no history.
- `Undispatched`: a pending row, and a claimed one, has no turn yet. `OneClaim`: a
  claimed request is off the table and in one watcher's hands. `DispatchedOnce`
  needs both, in every history: a client that fails a row under the feet of its
  watcher frees the row for a second request, never for the same one.
- `OneWorker`, of sessions nobody gave up on: one watcher works for the session,
  the row says running with its request, and what is completed was served.
  `CompleteHandoff` writes without a condition on the state, so `ToldTheTruth` rests
  on this alone; a client that gives up breaks it, and the property says so.

`DiagramHolds` proves the action property `FollowsDiagram` from `OneWorker`: on a
session nobody gave up on the row moves along the diagram of the `queue.ts` header
only. So a client that gives up is the one cause of `CompletedFromRunning` and
`CompletedStands` in section 7.

Each action is first reduced to what it does to one field at a time (`RowGoes`,
`Moves`, `Drops`, `Returns`); nine such effects cover `HandoffNext`, and each part of
the invariant is preserved by each of them.

**Instance guard** (`Instance_proofs`). Assumes `InstanceAssumption` and
`NobodyAssumption` (the placeholders of the PID file are no processes).
`ExclusiveHolds` proves `Spec => []Exclusive`, which is inductive as it stands: one
lemma for the types, one for the lock, with a step per action. `OneClaimHolds`
follows: two processes past their claim would both be the value of `lock`.
`OrderlyHandoverHolds` needs much more, all of it for histories without a fault
(`Calm`): who has the lock (`Locked`, `Keeps`), whom the PID file names and who has
read it (`Filed`, `Known`), that whoever was signalled is waited for by a replacer
that nobody signals (`Known`), and so that each of the three ways to give way, at the
record, at the lock and at the file, is before somebody who stays (`SomeoneStays`).
`Planned` counts the one signal and keeps the marker on its target. The proof found
the property false with two replacers, which the run's instance has not: both
signal the victim, whose second signal is a fast exit with a failure, or one
overwrites or clears the other's marker. The second part is now conditioned on a
single replacer; the first holds for any number. A process in its report is none
that the others may count on, and its last probe may be what turns another away at
the lock; `Acquire` records that (`misled`), and `SomeoneStays` is kept as long as it
has not.

**Reconnection** (`Adapter_proofs`). Assumes `ReconnectAssumption`. `OneConsumerHolds` proves
`Spec => []OneConsumer`. The strengthening says, while passes have not overlapped:
one pass at most is in flight, the platform it has in hand and every queued one
has been lost and has no fresh instance, a platform that was not started or is up
has none either, and none has two. The lemmas are per group of actions: outside the
watcher, the begin of a pass, and an attempt.

**Polling intake** (`Adapter_proofs`). Assumes `PollingAssumption`: any number of
updates and faults, any limit of the hold queue and of conflicts. `NoneLostHolds`
proves `PollingSpec => []NoneLost`. It is not inductive: `NoneLost` counts an update
as in hand while any loop has it, and a loop may drop a batch it has not committed.
`Covered` counts committed batches only (`Handled`), and `BatchFits` says what an
uncommitted one is, the updates that follow some earlier offset, so that its commit
reaches nothing that is not in it or settled. `Generations` counts what may still
start a generation (loops asleep in the conflict ladder, the recovery) against the
faults so far: a new generation always exists. A step is shown to keep every
update that was settled or in hand, and to have in hand those it reaches (`Keeps`);
for the held queue this is a lemma about appending and cutting off the oldest.

**Approvals** (`Permission_proofs`). Assumes `WantsAssumption`: any number of calls,
each with a command; `None` is not a command. `AnswerableHolds` proves
`[]Answerable`, `GateImplementsConsent` that the gate implements `Consent`. The
invariant says of every call: it is queued exactly while at a prompt and unsettled
(`Listed`); only what was queued is settled (`Settled`); who is back has a verdict
(`Decided`); the slot of an unsettled entry is empty (`Given`), so an answer is never
overwritten; and a coalesced call has a leader that queued the same command
(`Led`). The queue itself has no entry twice, by lemmas about appending, removing
one entry and taking the oldest. In the refinement an answer, in any of its
forms, is one `Answer` for the entries it settles; the end of a run, which settles
without an answer, is a stutter; a call that comes back decides from its own slot or
its leader's.

**Boot and drain** (`Lifecycle_proofs`). Assumes `DrainAssumption`. `SavedHolds` and
`CleanMeansFinishedHolds` prove the two invariants. `Saved` needs that a file is
deleted only for a message that was inserted (`InsertedFirst`) and that what is
registered after the flush is accounted for (`SlotsCovered`).
`CleanMeansFinished` needs `Hidden`, the same statement for every later stage of the
boot and for the receipt itself, and `OwnReceipt`: a receipt found beside a boot that
has decided was written by its own drain, after a wait that saw the run.

**Turns of a chat** (`Lifecycle_proofs`). Assumes `ChatAssumption`: any number of
turns of any kinds, of children and of dialogs. `BusyIsOwnedHolds` and
`DialogsHonestHolds` prove both invariants of the run. `BusyIsOwned` says nothing of
the handlers that are starting or stopping a child, which is where it could break:
`Owned` says, while no race was seen, that one handler at a time has a child in hand
(`Holding`), that it is the chat's current one, in the state that handler left it
in, and that no other child is busy; `Allocated` that a child in hand or in the table
exists, so that a new one is nobody's. A step of the table has one of five effects
(`Passes`, `Takes`, `GoesOn`, `Leaves`, `Stops`). For `DialogsHonest` the invariant
ties the two records of an answer together (`Told`): what was reported as taken is
what settled the dialog.

**Adapter guard** (`L1Guard_proofs`). Assumes only `L1GuardAssumption`, so it is
about any number of messages and senders and every assignment of kinds.

| Theorem | States |
|---|---|
| `OneTurnHolds`, `LockCoherentHolds` | `[]OneTurn`, `[]LockCoherent` |
| `HandledOnceHolds`, `OneSpeakerHolds`, `NoneLostHolds` | `[]HandledOnce`, `[]OneSpeaker`, `[]NoneLost` |
| `SerialTurnsRefined` | the refinement of `SerialTurns` under plain traffic |

The invariant has seven parts, each with a step lemma per group of actions and
each resting on those before it. `Distinct` says that no message is twice in the
history, the slot and the burst taken together:
`HandledOnce` alone says nothing of what will be handled next. `Unstarted` says
that what waits has no frame yet. `Serial` ties the owner, the lock and the
program counters together: without commands exactly the owner is between its
installation and its drain boundary. `Attribution` says of slot and burst what
`OneSpeaker` says of turns, and `PlainTurns` that nothing waits in a session that
nobody owns. The proof found two properties false as they stood, which the runs
had not reached: a photo may join a slot of another speaker's text, and a message
may be lost to replacing media or to a third speaker. Both are now conditions of
the properties, and the traffics of the run contain the photos.

**Obligations** (`Obligations_proofs`). Assumes `ObligationsAssumption`: any number of rows,
of calls that record them and of engines, any budget and cap, with or without failing
writes. `OneSenderHolds` and `CopiesPaidAndMarkedHolds` prove the two invariants of
the run, `OwedOutlivesSettledHolds` the action property of `ObligationsCap.cfg`. The
invariant says of every call where its first send is and what the ledger then says
(`FrameOK`), of every scheduler where it is in its tick (`TickOK`), and of every row
an engine has claimed that the engine owns what is owed, that no first send on the
books is still open, and that the copy is marked (`ClaimOK`); and, of a row that no
record has overtaken, that one call and one claim at most work on it (`Sole`).
A record of a row that nobody has in hand re-establishes all this from nothing, which
is why only the other kind is excepted. That no copy is unpaid holds without the
exception and is a count (`Paid`): `unpaid`, with the first sends (`Firsts`) and
the claims (`Retries`) that are still to go out, stays within `attempts`. A record
takes from `unpaid` what it takes from `attempts`, and one more for its own send.

**Cron** (`CronFire_proofs`). Assumes `CronAssumption`: any number of jobs and processes, any
period, and a grace below the claim's time to live, as in the code (120 s against
300 s), in every world. `OncePerSlotHolds`, `NeverStolenHolds` and
`RunsAreRecordedHolds` prove the safety of the run.

- `OncePerSlot` needs that the next run of a record lies after every slot fired
  (`Ahead`), that a job which is armed anew after an error remembers its last run
  (`Traced`), that no slot fires early (`Elapsed`), and that what a tick has listed
  has not been fired yet (`TickOK`). The last needs the tick lock (`OneTick`).
- `NeverStolen` is `Held`: with one tick at a time, nobody else is between
  listing and marking.
- `RunsAreRecorded` needs `Prompt`: without stalls the heartbeat comes before the
  claim expires, so no run is thrown away.

`TypeOK` had bounded the next run by the horizon of the run's instance, which does
not hold for other instances; it is now by type. The first occurrence of an
entry in the list of the tick exists since the naturals are well-founded.

## 6. Not modelled

Platform protocols, text (segmentation, captions, rendering), media, setup,
discovery, authorization tables and secret scopes: pure functions or I/O. They are
most of the repository's lines. SQLite itself: a write transaction is atomic and
survives a crash. The components marked `not_modelled` in `PROJECT.json` carry
their reasons; those the plan takes up are in section 8. `L1Guard` models one
session key and no process exit, since its state is in memory.

Met while modelling, and stated by no property:

- The `status` command probes the runtime lock (`isRuntimeLockActive`): a starter that
  claims the home in that moment gives way to nobody, as it does to the probe of a
  report (`SomebodyStays`).
- An aborted startup flushes nothing and stops neither adapters nor ticker
  (`abortStartup`, `dispose`); the CLI only sets `process.exitCode`, so they keep
  the process, without the home, alive.
- Restart-failure counts are not cleared when nothing is active: production passes
  an empty list.
- `runPathCommand` does not look at the chat's model override.
- Words typed while two dialogs follow one another may answer the second.

## 7. Disagreements

Places where the code does not do what the repository says. Each is a property of
its module, with a configuration that finds the counterexample
(`tlc -config <cfg> <module>`; use the `MC` module of the component where there is
one). TLC stops at the first property of a configuration that fails: take it out of
the list to see the next.

| Configuration | Property | The code | What the repository says |
|---|---|---|---|
| `CronPromised` | `NotBeforeDue` | `cron/store.ts` 518: a one-shot without a last run is due at every tick, before its time | `schedule.ts` 284: "fires late-but-within-grace" |
| | `NoGhost` | `cron/store.ts` 510: update and resume keep the last run, so a rescheduled one-shot is never due | `store.ts` 366: a ghost job is rejected |
| | `AbortedHasWinner` | `cron/store.ts` 638: a heartbeat on one's own expired claim fails and the result is thrown away | `scheduler.ts` 290: "the WINNER persists results" |
| `L1Promised` | `OneTurnAlways` | `l1-adapter-guard.ts` 700: the guard of a command is released beside a task that a late drain has spawned | 643: "racing follow-ups stay queued"; `cancel-handoff.test.ts` 96 |
| | `Kept` | 399: healing deletes the pending slot | `cancel-handoff.test.ts` 70: "each served exactly once" |
| | `NeverLockedOut` | 676: a failing command restores the guard of a command that has ended | 673: "never leave a half-reset session" |
| `L1QueuePromised` | `NotStranded` | 795: a burst debounced after the last flush has no drain | 762: "the active drain owns debounce state" |
| | `Kept` | 929: slot and burst taken by two speakers, the third is dropped | 925: "the new sender starts fresh" |
| `ObligationsPromised` | `InFlightNotAbandoned` | `ledger.ts` 527: the retry pass abandons the row that the sweep pass of the same tick is sending | 524: "OUR in-flight send — hands off" |
| | `DuplicatesMarked` | `ledger.ts` 576: a row claimed from pending carries no marker, although a copy may have gone out: sent by an engine that had claimed it from pending too and then died, or before the row was recorded anew | `sender.ts` 15 |
| | `OneSenderEver` | `ledger.ts` 359-392: a record replaces a row that is claimed or in flight, and a second engine claims and sends it beside the first | 458: "exactly one racing gateway ever claims a row" |
| `HandoffPromised` | `DispatchedWhereAsked` | `watcher.ts` 107: works on the row as listed before the claim | `queue.ts` 98 |
| | `CompletedFromRunning` | `queue.ts` 183: completion has no condition on the state | `queue.ts` 9 |
| | `CompletedStands` | `queue.ts` 201: failure has no condition on the state | `queue.ts` 10 |
| `TokenLockRace` | `OneHolderAlways` | `token-lock.ts` 438: the rename takes whatever is at the path | 296: "lets exactly one racer claim the stale file" |
| `TokenLockOwnPid` | `FreeLockYields` | 380: a record with one's own pid is never compared by start time | `process-identity.ts` 12 |
| `TokenLockDisplaced` | `ReleasesItsOwn` | 174-180: read, then unlink | 175: a displaced owner "is silently ignored" |
| | `HandlesExclude` | 268-276, 351-355: a reacquire returns a second handle, and the release of the first unlinks the file under it | 269: "refresh stamps, keep holding" |
| `InstancePromised` | `Named` | `Clean` removes the pid file of whoever has just written it, and a release one that another process has created and not yet written | `instance-guard.ts` 156-158, 172 |
| | `SomebodyStays` | `entrypoints/pi-gateway.ts` 238-256: the probe that a failed starter makes for its report turns away the last one on its way | 37: "gateway already running" is printed where none is |
| | `ConnectsAsHolder` | a drain that overtakes the startup releases the lock, and the stages go on to connect the adapters | `lifecycle.ts` 682-683: the lock is claimed "BEFORE adapters accept traffic" |
| `ApprovalsTap` | `TapIsHonest` | `surfaces.ts` 422: a tap resolves the head of its session's queue | `surfaces.ts` 375-376, `queue.ts` 24-26 |
| `ChatPromised` | `OneChild` | `chat-proc-registry.ts` 270: a stop deletes whatever entry is there after its await | `chat-proc-registry.ts` 7-9 |
| | `OneDriver` | the same: a second turn takes the child that is being stopped | |
| `ReconnectPromised` | `NoneForgotten` | a fresh instance that dies is not requeued | `gateway-run.ts` 627-629: "instead of staying down until restart" |
| | `IngressStops` | fresh instances are stopped by nobody, and the watcher goes on | `shutdown.ts` 25 |
| `PollingPromised` | `NoTapIsATurn` | `polling-adapter.ts` 469: the commit that precedes the dispatch prunes the raw update by which a tap is known | `bot-api-client.ts` 157-158, `telegram-adapter.ts` 890-891 |
| | `NeverTwice` | the commit reaches the client only; a fresh instance fetches the batch again | `polling-adapter.ts` 474, `bot-api-client.ts` 148-153 |
| `DrainPromised` | `ReceiptNeverMasks` | `lifecycle.ts` 1116: the receipt is deleted last, best-effort, when adapters and ticker run already | `boot-recovery.ts` 130-131, `shutdown.ts` 705: "unlinks BEFORE acting" |
| | `ReplayedOnce` | a crash between insert and deletion, or a failed deletion, repeats the message | `shutdown.ts` 655: "replayed exactly once" |
| | `OverIsOver` | the startup does not look at the drain that has overtaken it | `lifecycle.ts` 1166, 1481 |

The race of `TokenLockRace` is acknowledged by `two-process.test.ts` 289.
`ReleasesItsOwn` needs worker threads of one process that replace each other;
`HandlesExclude` only an owner that acquires twice. The latter is the reason why
`OneHolder` counts a contender until its first release.

## 8. Plan

Order: what decides who may act (leases, guard, locks), then what is owed
(obligations, handoff, cron), then what surrounds them (approvals, children,
instance, reconnection, intake, drain). These are done.

Next models:

1. `DriveLock`: session lock and adoption of the handoff.
2. `EgressSeal`: the drafts of the stream consumer and their seals.
3. The marks of interrupted sessions and the restore gate, once a caller installs
   the hooks that `Drain` abstracts to `Recovered`.
4. The runner guard (L2), once it is wired.

Next theorems: refinements for the components that have only invariants so far
(an abstract mailbox for `Handoff`, an abstract inbox for `Polling`), and the
theorems of the models above.
