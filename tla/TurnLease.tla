------------------------------ MODULE TurnLease ------------------------------
(***************************************************************************)
(* The cross-process turn lease of pi_state/leases.ts (DbTurnLeaseStore)   *)
(* and the transcript-write admission guard of pi_state/messages.ts.       *)
(*                                                                         *)
(* One row per conversation, keyed by the root of the compression lineage. *)
(* Every store method is ONE write transaction (BEGIN IMMEDIATE), so every *)
(* action below is one.  A holder id names one turn (an async task of one  *)
(* process: "runner:pid=4242:turn"), so holders are the turns themselves.  *)
(* Times are kept as what is left of them: ttl is expires_at - now and     *)
(* left is deadline - now, both stopping at 0, which is all the code       *)
(* compares; Tick is the passage of a second of everybody's clock.         *)
(***************************************************************************)
EXTENDS Naturals

CONSTANTS Turns,        \* holder ids
          Procs,        \* gateway processes that share one state.db
          Sessions,     \* session ids
          ProcOf,       \* the process a holder id belongs to
          Structured,   \* holders whose id carries pid=<n>
          TTL,          \* lease lifetime (300 s in the code)
          WaitBudget,   \* acquireWait's deadline (1800 s in the code)
          Nobody        \* no row, no session, no writer

ASSUME TurnLeaseAssumption ==
    /\ ProcOf \in [Turns -> Procs]
    /\ Structured \subseteq Turns
    /\ TTL \in Nat \ {0}
    /\ WaitBudget \in Nat
    /\ Nobody \notin Turns \cup Sessions

VARIABLES
    root,        \* root[s]: lineage root of session s, Nobody if s is no row
    holder,      \* holder[c]: holder column of c's lease row, Nobody if none
    ttl,         \* ttl[c]: seconds until the row of c expires
    alive,       \* alive[p]: kill(pid, 0) finds process p
    phase,       \* phase[t]: where turn t is
    session,     \* session[t]: the session id t works on
    left,        \* left[t]: what remains of t's wait
    superseded,  \* history: another holder acquired t's conversation
    tail         \* history: tail[c] wrote the newest guarded transcript row

table == <<holder, ttl>>
vars  == <<root, holder, ttl, alive, phase, session, left, superseded, tail>>

Phases == {"idle", "waiting", "running", "lost"}

TypeOK ==
    /\ root \in [Sessions -> Sessions \cup {Nobody}]
    /\ holder \in [Sessions -> Turns \cup {Nobody}]
    /\ ttl \in [Sessions -> 0..TTL]
    /\ alive \in [Procs -> BOOLEAN]
    /\ phase \in [Turns -> Phases]
    /\ session \in [Turns -> Sessions \cup {Nobody}]
    /\ left \in [Turns -> 0..WaitBudget]
    /\ superseded \in [Turns -> BOOLEAN]
    /\ tail \in [Sessions -> Turns \cup {Nobody}]

Exists(s) == root[s] # Nobody

\* The conversation a turn contends for: the walk is done in the transaction.
Conv(t) == root[session[t]]

Running(t) == phase[t] = "running"

\* The turn t is over, or has given up waiting.
Ends(t) == /\ phase' = [phase EXCEPT ![t] = "idle"]
           /\ session' = [session EXCEPT ![t] = Nobody]
           /\ left' = [left EXCEPT ![t] = 0]

Init ==
    /\ root \in {r \in [Sessions -> Sessions \cup {Nobody}] :
                   \A s \in Sessions : r[s] \in {s, Nobody}}
    /\ holder = [c \in Sessions |-> Nobody]
    /\ ttl = [c \in Sessions |-> 0]
    /\ alive = [p \in Procs |-> TRUE]
    /\ phase = [t \in Turns |-> "idle"]
    /\ session = [t \in Turns |-> Nobody]
    /\ left = [t \in Turns |-> 0]
    /\ superseded = [t \in Turns |-> FALSE]
    /\ tail = [c \in Sessions |-> Nobody]

-----------------------------------------------------------------------------
(* The store's methods *)

\* Mutant: any doubt about another process's pid counts as death.
DoubtIsDeath(h, self) == ProcOf[h] # ProcOf[self]

\* A structured holder of another process whose pid is provably gone.
HolderProcessIsDead(h, self) ==
    /\ h \in Structured
    /\ ProcOf[h] # ProcOf[self]
    /\ ~alive[ProcOf[h]]

\* Mutant: only a proven death frees a row, expiry does not.
ReclaimDeadOnly(c, self) ==
    holder[c] # Nobody => HolderProcessIsDead(holder[c], self)

\* The row stops protecting its holder from the acquirer self.
Reclaimable(c, self) ==
    holder[c] # Nobody =>
        ttl[c] = 0 \/ HolderProcessIsDead(holder[c], self)

\* acquireWait enters its polling loop.
AcquireWait(t, s) ==
    /\ alive[ProcOf[t]]
    /\ phase[t] = "idle"
    /\ Exists(s)
    /\ phase' = [phase EXCEPT ![t] = "waiting"]
    /\ session' = [session EXCEPT ![t] = s]
    /\ left' = [left EXCEPT ![t] = WaitBudget]
    /\ UNCHANGED <<root, table, alive, superseded, tail>>

\* tryAcquire inserts a fresh row, over a reclaimable one or over none.
TakeRow(t) ==
    LET c == Conv(t) IN
    /\ alive[ProcOf[t]]
    /\ phase[t] = "waiting"
    /\ Reclaimable(c, t)
    /\ holder' = [holder EXCEPT ![c] = t]
    /\ ttl' = [ttl EXCEPT ![c] = TTL]
    /\ phase' = [phase EXCEPT ![t] = "running"]
    /\ superseded' = [u \in Turns |->
                        IF u # t /\ Running(u) /\ Conv(u) = c THEN TRUE
                        ELSE superseded[u]]
    /\ left' = [left EXCEPT ![t] = 0]
    /\ UNCHANGED <<root, alive, session, tail>>

\* tryAcquire finds a live row of its own: INSERT OR IGNORE is ignored, the
\* owner matches, and the expiry stays what it was.
FindOwnRow(t) ==
    LET c == Conv(t) IN
    /\ alive[ProcOf[t]]
    /\ phase[t] = "waiting"
    /\ holder[c] = t
    /\ ~Reclaimable(c, t)
    /\ phase' = [phase EXCEPT ![t] = "running"]
    /\ left' = [left EXCEPT ![t] = 0]
    /\ UNCHANGED <<root, table, alive, session, superseded, tail>>

\* Mutant: the deadline is looked at only once the row has become free.
PollFailsWhenFree(t) ==
    /\ alive[ProcOf[t]]
    /\ phase[t] = "waiting"
    /\ left[t] = 0
    /\ Reclaimable(Conv(t), t)
    /\ Ends(t)
    /\ UNCHANGED <<root, table, alive, superseded, tail>>

\* Somebody else's row, or SQLITE_BUSY: keep polling until the deadline.
PollFails(t) ==
    /\ alive[ProcOf[t]]
    /\ phase[t] = "waiting"
    /\ left[t] = 0
    /\ Ends(t)
    /\ UNCHANGED <<root, table, alive, superseded, tail>>

\* shouldAbort() is looked at before every attempt.
AbortWait(t) ==
    /\ alive[ProcOf[t]]
    /\ phase[t] = "waiting"
    /\ Ends(t)
    /\ UNCHANGED <<root, table, alive, superseded, tail>>

\* UPDATE ... WHERE holder = ours: an expired row that is still ours revives;
\* no row of ours means the lease was lost.
Refresh(t) ==
    /\ alive[ProcOf[t]]
    /\ Running(t)
    /\ IF holder[Conv(t)] = t
         THEN /\ ttl' = [ttl EXCEPT ![Conv(t)] = TTL]
              /\ UNCHANGED phase
         ELSE /\ phase' = [phase EXCEPT ![t] = "lost"]
              /\ UNCHANGED ttl
    /\ UNCHANGED <<root, holder, alive, session, left, superseded, tail>>

\* Mutant: the DELETE forgets the holder column.
ReleaseAnyRow(t) ==
    /\ alive[ProcOf[t]]
    /\ phase[t] \in {"running", "lost"}
    /\ holder' = [holder EXCEPT ![Conv(t)] = Nobody]
    /\ ttl' = [ttl EXCEPT ![Conv(t)] = 0]
    /\ Ends(t)
    /\ superseded' = [superseded EXCEPT ![t] = FALSE]
    /\ UNCHANGED <<root, alive, tail>>

\* DELETE ... WHERE holder = ours, at the end of the turn, lost or not.
ReleaseHolder(t) ==
    LET c == Conv(t) IN
    /\ alive[ProcOf[t]]
    /\ phase[t] \in {"running", "lost"}
    /\ IF holder[c] = t
         THEN /\ holder' = [holder EXCEPT ![c] = Nobody]
              /\ ttl' = [ttl EXCEPT ![c] = 0]
         ELSE UNCHANGED table
    /\ Ends(t)
    /\ superseded' = [superseded EXCEPT ![t] = FALSE]
    /\ UNCHANGED <<root, alive, tail>>

\* Mutant: the guard is content with any row.
AppendUnderAnyRow(t) ==
    /\ alive[ProcOf[t]]
    /\ Running(t)
    /\ holder[Conv(t)] # Nobody
    /\ tail' = [tail EXCEPT ![Conv(t)] = t]
    /\ UNCHANGED <<root, table, alive, phase, session, left, superseded>>

\* appendMessage with a turnLeaseHolder: the guard and the INSERT are one
\* transaction; an expired row that is still ours is renewed by it.
AppendMessage(t) ==
    LET c == Conv(t) IN
    /\ alive[ProcOf[t]]
    /\ Running(t)
    /\ IF holder[c] = t
         THEN /\ ttl' = [ttl EXCEPT ![c] = IF @ = 0 THEN TTL ELSE @]
              /\ tail' = [tail EXCEPT ![c] = t]
              /\ UNCHANGED phase
         ELSE \* SessionTurnLeaseLostError, the transaction rolls back
              /\ phase' = [phase EXCEPT ![t] = "lost"]
              /\ UNCHANGED <<ttl, tail>>
    /\ UNCHANGED <<root, holder, alive, session, left, superseded>>

-----------------------------------------------------------------------------
(* The world around the store *)

\* A turn rotates its session: the old segment ends with 'compression', the
\* new one is its child, and the walk from it arrives at the same root.
Rotate(t, s) ==
    /\ alive[ProcOf[t]]
    /\ Running(t)
    /\ ~Exists(s)
    /\ root' = [root EXCEPT ![s] = Conv(t)]
    /\ session' = [session EXCEPT ![t] = s]
    /\ UNCHANGED <<table, alive, phase, left, superseded, tail>>

\* A branch, a delegate, a tool child, or a new conversation: a root of its own.
NewRoot(s) ==
    /\ ~Exists(s)
    /\ root' = [root EXCEPT ![s] = s]
    /\ UNCHANGED <<table, alive, phase, session, left, superseded, tail>>

\* The process dies: its turns are gone, its rows stay.
Crash(p) ==
    LET gone == {t \in Turns : ProcOf[t] = p} IN
    /\ alive[p]
    /\ alive' = [alive EXCEPT ![p] = FALSE]
    /\ phase' = [t \in Turns |-> IF t \in gone THEN "idle" ELSE phase[t]]
    /\ session' = [t \in Turns |-> IF t \in gone THEN Nobody ELSE session[t]]
    /\ left' = [t \in Turns |-> IF t \in gone THEN 0 ELSE left[t]]
    /\ superseded' = [t \in Turns |-> t \notin gone /\ superseded[t]]
    /\ UNCHANGED <<root, table, tail>>

\* The pid is in use again: a rebooted gateway.
Restart(p) ==
    /\ ~alive[p]
    /\ alive' = [alive EXCEPT ![p] = TRUE]
    /\ UNCHANGED <<root, table, phase, session, left, superseded, tail>>

Tick ==
    /\ \/ \E c \in Sessions : ttl[c] > 0
       \/ \E t \in Turns : left[t] > 0
    /\ ttl' = [c \in Sessions |-> IF ttl[c] > 0 THEN ttl[c] - 1 ELSE 0]
    /\ left' = [t \in Turns |-> IF left[t] > 0 THEN left[t] - 1 ELSE 0]
    /\ UNCHANGED <<root, holder, alive, phase, session, superseded, tail>>

-----------------------------------------------------------------------------

Next ==
    \/ \E t \in Turns : \E s \in Sessions : AcquireWait(t, s) \/ Rotate(t, s)
    \/ \E t \in Turns : TakeRow(t) \/ FindOwnRow(t) \/ PollFails(t)
    \/ \E t \in Turns : AbortWait(t) \/ Refresh(t) \/ ReleaseHolder(t)
    \/ \E t \in Turns : AppendMessage(t)
    \/ \E s \in Sessions : NewRoot(s)
    \/ \E p \in Procs : Crash(p) \/ Restart(p)
    \/ Tick

Spec == Init /\ [][Next]_vars

\* The polling loop of a living process keeps running, time passes, and
\* SQLITE_BUSY is not for ever: an attempt that could win a conversation again and again does.
Poll(t) == TakeRow(t) \/ FindOwnRow(t) \/ PollFails(t)

FairSpec == /\ Spec
            /\ WF_vars(Tick)
            /\ \A t \in Turns :
                  /\ WF_vars(Poll(t))
                  /\ \A c \in Sessions : SF_vars(TakeRow(t) /\ Conv(t) = c)

-----------------------------------------------------------------------------
(* Properties *)

\* The fence of a conversation and the turns that believe they own it agree: a
\* running turn's row is there exactly as long as nobody else has acquired the
\* conversation, expired or not, whatever ids the segments were renamed to.
\* It is what lets the write guard decide by the holder column alone.
Fenced == \A t \in Turns :
            Running(t) => (holder[Conv(t)] = t <=> ~superseded[t])

\* All segments of a conversation contend for one row: rows sit on roots only,
\* and the root of a root is itself, through every rotation.
RowsOnRoots ==
    /\ \A c \in Sessions : holder[c] # Nobody => root[c] = c
    /\ \A s \in Sessions : Exists(s) => root[root[s]] = root[s]

\* The bookkeeping the fence rests on: a turn at work names a session that
\* exists, and only a turn that has had the lease can be superseded.  Together
\* with the three above it is inductive.
AtWork ==
    \A t \in Turns :
       /\ phase[t] # "idle" => session[t] \in Sessions /\ Exists(session[t])
       /\ superseded[t] => phase[t] \in {"running", "lost"}

LeaseInv == TypeOK /\ Fenced /\ RowsOnRoots /\ AtWork

\* No interleaving: once another holder has acquired the conversation, no row
\* of the turn that stalled lands after it, the hazard the guard is there for.
StaleNeverLands ==
    [][\A t \in Turns : \A c \in Sessions :
          superseded[t] /\ tail'[c] = t => tail[c] = t]_vars

\* A row of a living process that has not expired leaves or changes hands by
\* its own holder's release only: no acquirer, and no release of a stale
\* holder, takes it away (PID reuse must never steal a live lease).
NoLiveSteal ==
    [][\A c \in Sessions :
          /\ holder[c] # Nobody /\ holder'[c] # holder[c]
          /\ ttl[c] > 0 /\ alive[ProcOf[holder[c]]]
          => phase[holder[c]] \in {"running", "lost"} /\ phase'[holder[c]] = "idle"]_vars

\* The store implements the abstract promise: one owner per conversation, rows
\* from the owner only, ownership taken or yielded and never shared.
Owner == [c \in Sessions |->
            IF holder[c] # Nobody /\ Running(holder[c]) /\ Conv(holder[c]) = c
            THEN holder[c] ELSE Nobody]
Promise == INSTANCE FencedTranscript WITH Conversations <- Sessions,
                                          owner <- Owner
ImplementsPromise == Promise!Spec

\* A wait of a process that stays up comes to an end: no holder, dead or
\* alive, refreshing or not, keeps a waiter in acquireWait for ever.
EveryWaitReturns ==
    \A t \in Turns : phase[t] = "waiting" ~> phase[t] # "waiting"

\* TTL is the recovery path: the row of a turn that died with its process does
\* not outlive the demand for its conversation, even when the holder id is
\* unstructured and cannot be proven dead.
Orphaned(c) == /\ holder[c] # Nobody
               /\ ~(Running(holder[c]) /\ Conv(holder[c]) = c)
WaitedFor(c) == \E t \in Turns : phase[t] = "waiting" /\ Conv(t) = c
OrphansReclaimed ==
    \A c \in Sessions : []<>WaitedFor(c) => []<>~Orphaned(c)
=============================================================================
