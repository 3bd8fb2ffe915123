----------------------------- MODULE Obligations -----------------------------
(***************************************************************************)
(* The delivery-obligations ledger (pi_gateway/obligations/ledger.ts) and  *)
(* its retry scheduler (scheduler.ts): what a finished turn owes its chat  *)
(* is recorded before the first send and redelivered after a crash, at     *)
(* least once, by exactly one engine, within a budget.                     *)
(*                                                                         *)
(* An engine is one incarnation of a gateway process (pid + start time).   *)
(* Every ledger method is one write transaction, so one action; a crash    *)
(* may fall between any two of them, before or after the chat has received *)
(* the copy in flight.  Ages are kept as what the code compares them with: *)
(* due (the backoff is over) and stale (more than 24 h old).               *)
(*                                                                         *)
(* A call is one run of deliverNew, or one record() of a held-open reply.  *)
(* The id of its row is computed from what it delivers, so two calls may   *)
(* write one row: the later one replaces it, whatever became of it.        *)
(***************************************************************************)
EXTENDS FiniteSets, Integers

CONSTANTS Rows,         \* obligation ids
          Calls,        \* calls that record an obligation
          Id,           \* Id[c]: computeObligationId of what c delivers
          Engines,      \* incarnations of the gateway that share state.db
          Lasting,      \* the engines that never crash
          MaxAttempts,  \* redeliveries of one row (3)
          MaxRows,      \* rows kept by prune (500)
          WritesFail,   \* a best-effort ledger write may fail (SQLITE_BUSY)
          Nobody

\* ClaimedObligation: what a pass of the tick claimed, and needsMarker.
Claims == [row : Rows, pass : {"sweep", "retry"}, marker : BOOLEAN]

ASSUME ObligationsAssumption ==
    /\ Id \in [Calls -> Rows]
    /\ Lasting \subseteq Engines
    /\ MaxAttempts \in Nat
    /\ MaxRows \in Nat
    /\ WritesFail \in BOOLEAN
    /\ Nobody \notin Engines \cup Claims

VARIABLES
    state,      \* state[r]: "none" before the record, "gone" once pruned
    owner,      \* owner[r]: the owner stamp
    attempts,   \* attempts[r]: redeliveries charged so far
    due,        \* due[r]: updated_at + nextRetryDelaySeconds has passed
    stale,      \* stale[r]: created_at is more than 24 h ago
    run,        \* run[e]: "unborn", "up" or "down"
    inline,     \* inline[c]: where the frame of the call c is
    by,         \* by[c]: the engine that runs this frame
    tick,       \* tick[e]: where the scheduler of e is
    sendable,   \* sendable[e]: the rows whose platform is connected
    ripe,       \* ripe[e]: the rows due by the clock the tick read
    old,        \* old[e]: the rows stale by the clock the tick read
    todo,       \* todo[e]: the claims this tick has yet to settle
    cur,        \* cur[e]: the claim in flight
    fate,       \* fate[e]: what the sender will answer for it
    unpaid,     \* history: copies of r sent, less one for each record of it
                \* and one for each attempt charged before the last record
    sent,       \* history: a copy of r has gone out
    begun,      \* history: beginAttempt(r) has landed since its last record
    overtaken   \* history: the last record of r replaced a row in hand

row     == <<state, owner, attempts, due>>
engine  == <<tick, sendable, ripe, old, todo, cur, fate>>
frame   == <<inline, by>>
history == <<unpaid, sent, begun, overtaken>>
vars    == <<row, stale, run, frame, engine, history>>

Active   == {"pending", "attempting", "failed"}
Terminal == {"delivered", "abandoned"}
\* What a send comes to: confirmed, or not, which may be a refusal or a
\* timeout of a copy that the chat has received.
Fates    == {"ok", "failed"}

TypeOK ==
    /\ state \in [Rows -> Active \cup Terminal \cup {"none", "gone"}]
    /\ owner \in [Rows -> Engines \cup {Nobody}]
    /\ attempts \in [Rows -> 0..MaxAttempts]
    /\ due \in [Rows -> BOOLEAN]
    /\ stale \in [Rows -> BOOLEAN]
    /\ run \in [Engines -> {"unborn", "up", "down"}]
    /\ inline \in [Calls -> {"none", "recorded", "pruned", "done"} \cup Fates]
    /\ by \in [Calls -> Engines \cup {Nobody}]
    /\ tick \in [Engines -> {"idle", "swept", "drive", "sending"}]
    /\ sendable \in [Engines -> SUBSET Rows]
    /\ ripe \in [Engines -> SUBSET Rows]
    /\ old \in [Engines -> SUBSET Rows]
    /\ todo \in [Engines -> SUBSET Claims]
    /\ cur \in [Engines -> Claims \cup {Nobody}]
    /\ fate \in [Engines -> Fates]
    /\ unpaid \in [Rows -> Int]
    /\ sent \in [Rows -> BOOLEAN]
    /\ begun \in [Rows -> BOOLEAN]
    /\ overtaken \in [Rows -> BOOLEAN]

Init ==
    /\ state = [r \in Rows |-> "none"]
    /\ run = [e \in Engines |-> "unborn"]
    /\ owner = [r \in Rows |-> Nobody]
    /\ attempts = [r \in Rows |-> 0]
    /\ due = [r \in Rows |-> FALSE]
    /\ stale = [r \in Rows |-> FALSE]
    /\ inline = [c \in Calls |-> "none"]
    /\ by = [c \in Calls |-> Nobody]
    /\ tick = [e \in Engines |-> "idle"]
    /\ sendable = [e \in Engines |-> {}]
    /\ ripe = [e \in Engines |-> {}]
    /\ old = [e \in Engines |-> {}]
    /\ todo = [e \in Engines |-> {}]
    /\ cur = [e \in Engines |-> Nobody]
    /\ fate = [e \in Engines |-> "ok"]
    /\ unpaid = [r \in Rows |-> 0]
    /\ sent = [r \in Rows |-> FALSE]
    /\ begun = [r \in Rows |-> FALSE]
    /\ overtaken = [r \in Rows |-> FALSE]

Up(e) == run[e] = "up"

\* The content of r goes out.
SendOut(r) == /\ unpaid' = [unpaid EXCEPT ![r] = @ + 1]
              /\ sent' = [sent EXCEPT ![r] = TRUE]

\* LEGAL_SOURCES
Sources == [attempting |-> {"pending", "failed"},
            delivered  |-> {"pending", "attempting", "failed"},
            failed     |-> {"pending", "attempting"}]

\* casTransition: the row moves if its state allows it; an illegal transition,
\* a row that is gone and a write that fails all raise, and are swallowed.
CasTransition(r, to) ==
    \/ /\ state[r] \in Sources[to]
       /\ state' = [state EXCEPT ![r] = to]
       /\ due' = [due EXCEPT ![r] = FALSE]
    \/ /\ state[r] \notin Sources[to] \/ WritesFail
       /\ UNCHANGED <<state, due>>

Settles(r, f) == CasTransition(r, IF f = "ok" THEN "delivered" ELSE "failed")

-----------------------------------------------------------------------------
(* deliverNew: record, prune, beginAttempt, send, settle *)

\* Somebody is still at work on r: a call that has not settled it, a tick that
\* has claimed it.
Open == {"recorded", "pruned"} \cup Fates
InHand(r) == \/ \E c \in Calls : Id[c] = r /\ inline[c] \in Open
             \/ \E e \in Engines : \E k \in todo[e] : k.row = r

\* INSERT OR REPLACE: whatever there was of the row, it is pending again, with
\* a new owner, a new age and nothing charged.
Record(e, c) ==
    LET r == Id[c] IN
    /\ Up(e)
    /\ inline[c] = "none"
    /\ state' = [state EXCEPT ![r] = "pending"]
    /\ owner' = [owner EXCEPT ![r] = e]
    /\ attempts' = [attempts EXCEPT ![r] = 0]
    /\ due' = [due EXCEPT ![r] = FALSE]
    /\ stale' = [stale EXCEPT ![r] = FALSE]
    /\ inline' = [inline EXCEPT ![c] = "recorded"]
    /\ by' = [by EXCEPT ![c] = e]
    /\ unpaid' = [unpaid EXCEPT ![r] = @ - attempts[r] - 1]
    /\ begun' = [begun EXCEPT ![r] = FALSE]
    /\ overtaken' = [overtaken EXCEPT ![r] = InHand(r)]
    /\ UNCHANGED <<run, engine, sent>>

EndsCall(c) == /\ inline' = [inline EXCEPT ![c] = "done"]
               /\ by' = [by EXCEPT ![c] = Nobody]

\* The rows of the table, and the eviction order of their states.
Stored == {r \in Rows : state[r] \notin {"none", "gone"}}
Rank(r) == CASE state[r] = "delivered" -> 0
             [] state[r] = "abandoned" -> 1
             [] OTHER -> 2

\* prune: settled rows past the retention window go, then the cap evicts
\* delivered before abandoned before active.  Which of the settled rows are
\* old, and the updated_at order within a rank, are left open.  The record of a
\* held-open reply ends here: there is no lane to send it on.
Prune(c) ==
    /\ inline[c] = "recorded"
    /\ \E past \in SUBSET {q \in Stored : state[q] \in Terminal} :
         LET kept == Stored \ past
             excess == IF Cardinality(kept) > MaxRows
                       THEN Cardinality(kept) - MaxRows ELSE 0 IN
         \E evicted \in SUBSET kept :
            /\ Cardinality(evicted) = excess
            /\ \A q \in evicted : \A k \in kept \ evicted : Rank(q) <= Rank(k)
            /\ state' = [q \in Rows |-> IF q \in past \cup evicted THEN "gone"
                                        ELSE state[q]]
    /\ \/ inline' = [inline EXCEPT ![c] = "pruned"] /\ UNCHANGED by
       \/ EndsCall(c)
    /\ UNCHANGED <<owner, attempts, due, stale, run, engine, history>>

\* beginAttempt, whose failure does not stop the first send.
InlineSend(c) ==
    LET r == Id[c] IN
    /\ inline[c] = "pruned"
    /\ CasTransition(r, "attempting")
    /\ SendOut(r)
    /\ \E f \in Fates : inline' = [inline EXCEPT ![c] = f]
    /\ begun' = [begun EXCEPT ![r] = @ \/ state'[r] = "attempting"]
    /\ UNCHANGED <<owner, attempts, stale, run, by, engine, overtaken>>

InlineSettle(c) ==
    /\ inline[c] \in Fates
    /\ Settles(Id[c], inline[c])
    /\ EndsCall(c)
    /\ UNCHANGED <<owner, attempts, stale, run, engine, history>>

-----------------------------------------------------------------------------
(* ObligationRetryScheduler.tick: sweep, claim due retries, drive *)

\* Mutant: the sweep takes a row without asking whether its owner lives.
OwnedByAnyone(r) == state[r] \in Active

DeadOwned(r) == state[r] \in Active /\ ~Up(owner[r])

\* An engine's own rows, its in-flight first sends excepted.
OwnRetry(r, e) == owner[r] = e /\ state[r] \in {"pending", "failed"}

\* Mutant: poison rows are left to lie.
NeverSpent(r, aged) == FALSE

Spent(r, aged) == attempts[r] >= MaxAttempts \/ r \in aged

\* Mutant: a claim forgets to charge the attempt.
ClaimFree(e, pass, seen, aged, ready) ==
    LET given   == {r \in seen : Spent(r, aged)}
        claimed == {r \in seen \ given : r \in ready} IN
    /\ state' = [r \in Rows |-> IF r \in given THEN "abandoned" ELSE state[r]]
    /\ owner' = [r \in Rows |-> IF r \in claimed THEN e ELSE owner[r]]
    /\ due' = [r \in Rows |-> due[r] /\ r \notin claimed]
    /\ todo' = [todo EXCEPT ![e] = @ \cup
                  {[row |-> r, pass |-> pass, marker |-> state[r] # "pending"] :
                      r \in claimed}]
    /\ UNCHANGED attempts

\* Mutant: only a crash mid-send is taken for ambiguous.
ClaimMarksCrashOnly(e, pass, seen, aged, ready) ==
    LET given   == {r \in seen : Spent(r, aged)}
        claimed == {r \in seen \ given : r \in ready} IN
    /\ state' = [r \in Rows |-> IF r \in given THEN "abandoned" ELSE state[r]]
    /\ owner' = [r \in Rows |-> IF r \in claimed THEN e ELSE owner[r]]
    /\ attempts' = [r \in Rows |-> IF r \in claimed THEN attempts[r] + 1
                                   ELSE attempts[r]]
    /\ due' = [r \in Rows |-> due[r] /\ r \notin claimed]
    /\ todo' = [todo EXCEPT ![e] = @ \cup
                  {[row |-> r, pass |-> pass, marker |-> state[r] = "attempting"] :
                      r \in claimed}]

\* claimTxn: of the rows seen, those that are spent (old or out of budget) are
\* abandoned, and those that are ready are claimed and charged.
Claim(e, pass, seen, aged, ready) ==
    LET given   == {r \in seen : Spent(r, aged)}
        claimed == {r \in seen \ given : r \in ready} IN
    /\ state' = [r \in Rows |-> IF r \in given THEN "abandoned" ELSE state[r]]
    /\ owner' = [r \in Rows |-> IF r \in claimed THEN e ELSE owner[r]]
    /\ attempts' = [r \in Rows |-> IF r \in claimed THEN attempts[r] + 1
                                   ELSE attempts[r]]
    /\ due' = [r \in Rows |-> due[r] /\ r \notin claimed]
    /\ todo' = [todo EXCEPT ![e] = @ \cup
                  {[row |-> r, pass |-> pass, marker |-> state[r] # "pending"] :
                      r \in claimed}]

\* sweepRecoverable: what dead engines left behind, at once.
SweepRecoverable(e) ==
    LET dead == {r \in Rows : DeadOwned(r)}
        aged == {r \in Rows : stale[r]} IN
    /\ Up(e)
    /\ tick[e] = "idle"
    /\ \E D \in SUBSET Stored :
         /\ Claim(e, "sweep", dead, aged, dead \cap D)
         /\ sendable' = [sendable EXCEPT ![e] = D]
    /\ old' = [old EXCEPT ![e] = aged]
    /\ ripe' = [ripe EXCEPT ![e] =
                  {r \in Rows : due'[r] /\ state'[r] \in {"pending", "failed"}}]
    /\ tick' = [tick EXCEPT ![e] = "swept"]
    /\ UNCHANGED <<stale, run, frame, cur, fate, history>>

\* claimDueRetries: dead engines' rows again, and its own when they are due,
\* by the clock of the sweep.
ClaimDueRetries(e) ==
    LET dead == {r \in Rows : DeadOwned(r)}
        own  == {r \in Rows : OwnRetry(r, e)}
        aged == {r \in old[e] : stale[r]}
        ready == dead \cup {r \in own \cap ripe[e] : due[r]} IN
    /\ tick[e] = "swept"
    /\ Claim(e, "retry", dead \cup own, aged, ready \cap sendable[e])
    /\ tick' = [tick EXCEPT ![e] = IF todo'[e] = {} THEN "idle" ELSE "drive"]
    /\ sendable' = [sendable EXCEPT ![e] = {}]
    /\ old' = [old EXCEPT ![e] = {}]
    /\ ripe' = [ripe EXCEPT ![e] = {}]
    /\ UNCHANGED <<stale, run, frame, cur, fate, history>>

\* claimDueRetries throws, and with it goes what the sweep has claimed: charged,
\* owned, and never sent by this tick.  (Where the sweep claimed nothing, the
\* tick might as well not have happened.)
RetriesFail(e) ==
    /\ WritesFail
    /\ tick[e] = "swept"
    /\ todo[e] # {}
    /\ tick' = [tick EXCEPT ![e] = "idle"]
    /\ todo' = [todo EXCEPT ![e] = {}]
    /\ sendable' = [sendable EXCEPT ![e] = {}]
    /\ old' = [old EXCEPT ![e] = {}]
    /\ ripe' = [ripe EXCEPT ![e] = {}]
    /\ UNCHANGED <<row, stale, run, frame, cur, fate, history>>

\* driveClaimed, one claim at a time.
DriveClaimed(e, k) ==
    /\ tick[e] = "drive"
    /\ k \in todo[e]
    /\ SendOut(k.row)
    /\ \E f \in Fates : fate' = [fate EXCEPT ![e] = f]
    /\ cur' = [cur EXCEPT ![e] = k]
    /\ tick' = [tick EXCEPT ![e] = "sending"]
    /\ UNCHANGED <<row, stale, run, frame, sendable, ripe, old, todo, begun,
                   overtaken>>

SettleClaimed(e) ==
    LET k == cur[e] IN
    /\ tick[e] = "sending"
    /\ Settles(k.row, fate[e])
    /\ todo' = [todo EXCEPT ![e] = @ \ {k}]
    /\ cur' = [cur EXCEPT ![e] = Nobody]
    /\ fate' = [fate EXCEPT ![e] = "ok"]
    /\ tick' = [tick EXCEPT ![e] = IF todo'[e] = {} THEN "idle" ELSE "drive"]
    /\ UNCHANGED <<owner, attempts, stale, run, frame, sendable, ripe, old, history>>

-----------------------------------------------------------------------------
(* The world: processes and the clock *)

Boot(e) == /\ run[e] = "unborn"
           /\ run' = [run EXCEPT ![e] = "up"]
           /\ UNCHANGED <<row, stale, frame, engine, history>>

Crash(e) ==
    /\ Up(e)
    /\ e \notin Lasting
    /\ run' = [run EXCEPT ![e] = "down"]
    /\ inline' = [c \in Calls |-> IF by[c] = e THEN "done" ELSE inline[c]]
    /\ by' = [c \in Calls |-> IF by[c] = e THEN Nobody ELSE by[c]]
    /\ tick' = [tick EXCEPT ![e] = "idle"]
    /\ sendable' = [sendable EXCEPT ![e] = {}]
    /\ ripe' = [ripe EXCEPT ![e] = {}]
    /\ old' = [old EXCEPT ![e] = {}]
    /\ todo' = [todo EXCEPT ![e] = {}]
    /\ cur' = [cur EXCEPT ![e] = Nobody]
    /\ fate' = [fate EXCEPT ![e] = "ok"]
    /\ UNCHANGED <<row, stale, history>>

\* Neither a minute nor a day passes between the transactions of deliverNew
\* that precede its send.
TimePasses(r) ==
    /\ state[r] \in Active
    /\ \A c \in Calls : Id[c] = r => inline[c] \notin {"recorded", "pruned"}

BackoffElapses(r) == /\ TimePasses(r)
                     /\ ~due[r]
                     /\ due' = [due EXCEPT ![r] = TRUE]
                     /\ UNCHANGED <<state, owner, attempts, stale, run, frame,
                                    engine, history>>

GrowsStale(r) == /\ TimePasses(r)
                 /\ ~stale[r]
                 /\ stale' = [stale EXCEPT ![r] = TRUE]
                 /\ UNCHANGED <<row, run, frame, engine, history>>

-----------------------------------------------------------------------------

Inline(c) == Prune(c) \/ InlineSend(c) \/ InlineSettle(c)
Drive(e)  == \/ \E k \in todo[e] : DriveClaimed(e, k)
             \/ SettleClaimed(e)

Next ==
    \/ \E e \in Engines, c \in Calls : Record(e, c)
    \/ \E c \in Calls : Inline(c)
    \/ \E e \in Engines : \/ SweepRecoverable(e) \/ ClaimDueRetries(e)
                          \/ RetriesFail(e) \/ Drive(e)
    \/ \E e \in Engines : Boot(e) \/ Crash(e)
    \/ \E r \in Rows : BackoffElapses(r) \/ GrowsStale(r)

Spec == Init /\ [][Next]_vars

\* Sends return, the scheduler's loop ticks while its engine is up, time
\* passes, and the engine that lasts is started.
FairSpec ==
    /\ Spec
    /\ \A c \in Calls : WF_vars(Inline(c))
    /\ \A r \in Rows : WF_vars(GrowsStale(r))
    /\ \A e \in Engines :
         WF_vars(SweepRecoverable(e) \/ ClaimDueRetries(e) \/ Drive(e))
    /\ \A e \in Lasting : WF_vars(Boot(e))

-----------------------------------------------------------------------------
(* Properties *)

\* A copy of r that a tick, or a call, has sent and not settled.
InFlight(r, e) == cur[e] # Nobody /\ cur[e].row = r
InlineInFlight(c, r) == Id[c] = r /\ inline[c] \in Fates

\* One sender: a row is never on its way twice at once, whichever engines
\* race for it, sweep it or retry it while its first send hangs
\* ("exactly one racing gateway ever claims a row").  Two exceptions: a first
\* send whose beginAttempt failed (its row still says pending), and a row
\* recorded again while somebody still has it in hand.  A row recorded again
\* at any other time is as good as new.
OneSender ==
    /\ TypeOK
    /\ \A r \in Rows : ~overtaken[r] =>
          /\ \A e, f \in Engines : InFlight(r, e) /\ InFlight(r, f) => e = f
          /\ \A c, d \in Calls : InlineInFlight(c, r) /\ InlineInFlight(d, r) => c = d
          /\ \A c \in Calls, e \in Engines :
                InlineInFlight(c, r) /\ begun[r] => ~InFlight(r, e)

\* Every copy is paid for before it goes out, by a record or by a charged
\* attempt, and none comes cheaper for a crash or for a record that overtakes
\* it: a record buys MaxAttempts + 1 copies at most.  And once a first attempt
\* is on the books every later copy carries the marker: the crash ambiguity of
\* a first send is never hidden from the chat (but for copies that a new record
\* of the row overtakes).
CopiesPaidAndMarked ==
    \A r \in Rows :
       /\ unpaid[r] <= attempts[r]
       /\ ~overtaken[r] /\ begun[r] =>
             \A e \in Engines : \A k \in todo[e] : k.row = r => k.marker

\* The cap takes an owed row only when nothing settled is left to take.
OwedOutlivesSettled ==
    [][(\E r \in Rows : state[r] \in Active /\ state'[r] = "gone")
         => \A q \in Rows : state'[q] \notin Terminal]_vars

\* A row whose settlement could not be written: its live owner leaves it alone
\* as if it were in flight, and so does everyone else.
Unsettled(r) ==
    /\ state[r] = "attempting" /\ run[owner[r]] = "up"
    /\ ~InHand(r)

\* Every recorded obligation is settled one way or the other, by whichever
\* engine is there to do it, after any number of crashes and of new records; a
\* settlement that could not be written waits for the end of its engine.
EveryRowSettles ==
    \A r \in Rows : state[r] \in Active ~>
        state[r] \in Terminal \cup {"gone"} \/ Unsettled(r)

\* "OUR in-flight send - hands off": a row in flight is not written off.
InFlightNotAbandoned ==
    \A r \in Rows, e \in Engines : InFlight(r, e) => state[r] # "abandoned"

\* "Visible prefix for redeliveries that might duplicate an already-received
\* message": whatever may be a duplicate says so.
DuplicatesMarked ==
    \A e \in Engines : \A k \in todo[e] :
       sent[k.row] /\ tick[e] = "drive" => k.marker

\* "exactly one racing gateway ever claims a row": without the exception of
\* OneSender, of a row that is recorded again while a copy of it is on its way.
OneSenderEver ==
    \A r \in Rows : \A e, f \in Engines : InFlight(r, e) /\ InFlight(r, f) => e = f
=============================================================================
