------------------------------- MODULE L1Guard -------------------------------
(***************************************************************************)
(* The adapter session guard (pi_gateway/guards/l1-adapter-guard.ts), the  *)
(* first of the two guards between a platform adapter and the agent, for   *)
(* one session key.  It is single-threaded: an action is what the code     *)
(* does between two awaits, and the interleavings are those of the turn    *)
(* frames (processMessageBackground), of the session commands              *)
(* (dispatchActiveSessionCommand) and of the arrivals.                     *)
(*                                                                         *)
(* Messages are numbered in order of arrival.  An event is the sequence of *)
(* the messages merged into it; a frame, the InterruptEvent it creates and *)
(* a session command are named by their first message.  The production     *)
(* spawner cannot fail, and nothing but tests sets an InterruptEvent, so   *)
(* the spawn rollback and the stale-response suppression never run.        *)
(***************************************************************************)
EXTENDS Naturals, Sequences

CONSTANTS N,           \* how many messages arrive
          Senders,     \* who sends them
          Anonymous,   \* a source without a sender identity
          Traffics     \* what may arrive, and under which busyTextMode

Nobody  == 0
Message == 1..N
Kinds == {"text", "photo", "other", "new", "inline"}

ASSUME L1GuardAssumption ==
    /\ N \in Nat
    /\ Traffics \subseteq [kind : [Message -> Kinds],
                           sender : [Message -> Senders],
                           queue : BOOLEAN]  \* busy text is debounced

VARIABLES
    n,           \* messages that have arrived
    kind,        \* kind[m]
    sender,      \* sender[m]
    queueMode,   \* busyTextMode = "queue"
    active,      \* activeSessions: whose InterruptEvent is installed
    owner,       \* sessionTasks: the frame that owns the session
    pending,     \* pendingMessages: the one slot, <<>> when empty
    buffer,      \* textDebounce: the buffered burst, <<>> when none
    timer,       \* a flush of the buffer is scheduled
    pc,          \* pc[m]: where the frame or the command of m is
    ev,          \* ev[m]: the event the frame m works on
    ref,         \* ref[m]: a frame's interruptEvent, a command's currentGuard
    cancelled,   \* cancelled[m]: frame m's cancel flag
    target,      \* target[m]: the task the command m cancels
    handled      \* history: the messages handed to a turn's handler, in order

queues == <<pending, buffer, timer>>
traffic == <<kind, sender, queueMode>>
input  == <<n, traffic>>
locals == <<ev, ref, cancelled, target>>
vars   == <<input, active, owner, queues, pc, locals, handled>>

\* A frame's program counter names the await it is parked at.
TurnPcs  == {"handler", "notice", "reply", "drain", "failNotice", "unwind"}
FramePcs == TurnPcs \cup {"late", "ended", "done"}
CmdPcs   == {"cmdHandler", "cmdReply", "cmdWait", "cmdFlush", "cmdDrain"}

TypeOK ==
    /\ n \in 0..N
    /\ kind \in [Message -> Kinds]
    /\ sender \in [Message -> Senders]
    /\ queueMode \in BOOLEAN
    /\ active \in Message \cup {Nobody}
    /\ owner \in Message \cup {Nobody}
    /\ pending \in Seq(Message)
    /\ buffer \in Seq(Message)
    /\ timer \in BOOLEAN
    /\ pc \in [Message -> FramePcs \cup CmdPcs \cup {"none"}]
    /\ ev \in [Message -> Seq(Message)]
    /\ ref \in [Message -> Message \cup {Nobody}]
    /\ cancelled \in [Message -> BOOLEAN]
    /\ target \in [Message -> Message \cup {Nobody}]
    /\ handled \in Seq(Message)

Init ==
    /\ n = 0
    /\ \E t \in Traffics : /\ kind = t.kind
                           /\ sender = t.sender
                           /\ queueMode = t.queue
    /\ active = Nobody
    /\ owner = Nobody
    /\ pending = <<>>
    /\ buffer = <<>>
    /\ timer = FALSE
    /\ pc = [m \in Message |-> "none"]
    /\ ev = [m \in Message |-> <<>>]
    /\ ref = [m \in Message |-> Nobody]
    /\ cancelled = [m \in Message |-> FALSE]
    /\ target = [m \in Message |-> Nobody]
    /\ handled = <<>>

-----------------------------------------------------------------------------
(* The pieces the handlers share *)

\* Sender attribution: two events may become one sentence.
CanMerge(e, f) == /\ sender[Head(e)] = sender[Head(f)]
                  /\ sender[Head(e)] # Anonymous

\* mergePendingEvent: media absorbs and is absorbed, text joins text, and
\* anything else (a sticker, a location) replaces what waits: newest wins.
Has(e, k) == \E i \in DOMAIN e : kind[e[i]] = k
Combine(e, f) == Has(e, "photo") \/ Has(f, "photo")
                 \/ ~(Has(e, "other") \/ Has(f, "other"))
Merge(e, f) == IF Combine(e, f) THEN e \o f ELSE f

\* Mutant: whoever owns the slot, the burst joins it.
FlushesIntoAnySlot == buffer # <<>>

\* flushTextDebounceNow: the buffer moves to the slot unless another speaker
\* owns it, in which case it waits; its timer is cancelled either way.
Flushes == buffer # <<>> /\ (pending # <<>> => CanMerge(pending, buffer))

Flush == /\ pending' = IF Flushes THEN Merge(pending, buffer) ELSE pending
         /\ buffer' = IF Flushes THEN <<>> ELSE buffer
         /\ timer' = FALSE

Discard == buffer' = <<>> /\ timer' = FALSE

\* The frame of event e is spawned: it runs up to its handler's first await,
\* adopting the installed InterruptEvent or installing its own.
\* from is the caller's frame (or command) and next where the caller stops.
Spawn(e, g, from, next) ==
    LET d == Head(e) IN
    /\ active' = g
    /\ owner' = d
    /\ pc' = [pc EXCEPT ![d] = "handler", ![from] = next]
    /\ ev' = [ev EXCEPT ![d] = e]
    /\ ref' = [ref EXCEPT ![d] = g]
    /\ handled' = handled \o e

\* trySpawnDrain: the entry stays live across the chain.
SpawnDrain(m, next) ==
    Spawn(pending, IF active = Nobody THEN Head(pending) ELSE active, m, next)

-----------------------------------------------------------------------------
(* handleMessage *)

\* sessionTaskIsStale: a recorded owner that has exited.  Its lock is healed.
Stale == active # Nobody /\ owner # Nobody /\ pc[owner] = "done"

Busy == active # Nobody /\ ~Stale

\* The idle path, after healing a stale lock: guard, slot, owner and buffer.
ArriveIdle ==
    LET m == n + 1 IN
    /\ n < N
    /\ ~Busy
    /\ n' = m
    /\ Spawn(<<m>>, m, m, "handler")
    /\ IF Stale THEN pending' = <<>> /\ Discard ELSE UNCHANGED queues
    /\ UNCHANGED <<traffic, cancelled, target>>

\* Lane A: /new swaps in a guard of its own and runs its handler inline.
ArriveSessionCommand ==
    LET m == n + 1 IN
    /\ n < N
    /\ Busy
    /\ kind[m] = "new"
    /\ n' = m
    /\ Discard
    /\ active' = m
    /\ ref' = [ref EXCEPT ![m] = active]
    /\ pc' = [pc EXCEPT ![m] = "cmdHandler"]
    /\ UNCHANGED <<traffic, owner, pending, ev, cancelled, target, handled>>

\* Lanes B and C: other bypass commands, and the answer to a pending clarify,
\* are dispatched inline and touch no session state.
ArriveInline ==
    LET m == n + 1 IN
    /\ n < N
    /\ Busy
    /\ kind[m] = "inline"
    /\ n' = m
    /\ UNCHANGED <<traffic, active, owner, queues, pc, locals, handled>>

\* Mutant: newest wins.
ArriveReplacing ==
    /\ n < N
    /\ Busy
    /\ kind[n + 1] \in {"photo", "text"}
    /\ n' = n + 1
    /\ pending' = <<n + 1>>
    /\ UNCHANGED <<traffic, active, owner, buffer, timer, pc, locals, handled>>

\* Photo bursts, text outside queue mode, and the rest merge into the slot.
ArriveMerged ==
    LET m == n + 1 IN
    /\ n < N
    /\ Busy
    /\ kind[m] \in {"photo", "other"} \/ (kind[m] = "text" /\ ~queueMode)
    /\ n' = m
    /\ pending' = Merge(pending, <<m>>)
    /\ UNCHANGED <<traffic, active, owner, buffer, timer, pc, locals, handled>>

\* queueTextDebounce: extend the burst, or flush another speaker's burst to
\* the slot first; when the slot is taken by yet another speaker the message
\* joins the slot if that is its own, and is dropped otherwise.
ArriveDebounced ==
    LET m == n + 1
        mine == buffer # <<>> => CanMerge(buffer, <<m>>) IN
    /\ n < N
    /\ Busy
    /\ kind[m] = "text"
    /\ queueMode
    /\ n' = m
    /\ \/ /\ mine
          /\ buffer' = Append(buffer, m)
          /\ timer' = TRUE
          /\ UNCHANGED pending
       \/ /\ ~mine
          /\ Flushes
          /\ pending' = Merge(pending, buffer)
          /\ buffer' = <<m>>
          /\ timer' = TRUE
       \/ /\ ~mine
          /\ ~Flushes
          /\ pending' = IF CanMerge(pending, <<m>>) THEN Merge(pending, <<m>>)
                        ELSE pending
          /\ timer' = FALSE
          /\ UNCHANGED buffer
    /\ UNCHANGED <<traffic, active, owner, pc, locals, handled>>

Arrive == \/ ArriveIdle
          \/ ArriveSessionCommand
          \/ ArriveInline
          \/ ArriveMerged
          \/ ArriveDebounced

\* The debounce window or its hard cap runs out.
TimerFires ==
    /\ timer
    /\ Flush
    /\ UNCHANGED <<input, active, owner, pc, locals, handled>>

-----------------------------------------------------------------------------
(* processMessageBackground: the frame m *)

Goto(m, next) == pc' = [pc EXCEPT ![m] = next]

\* The handler returns, with or without a reply, or raises.
HandlerReturns(m) ==
    /\ pc[m] = "handler"
    /\ \/ /\ cancelled[m]
          /\ Goto(m, "unwind")
          /\ UNCHANGED queues
       \/ /\ ~cancelled[m]
          /\ \E next \in {"reply", "notice"} : Goto(m, next)
          /\ UNCHANGED queues
       \/ /\ ~cancelled[m]
          /\ Goto(m, "drain")
          /\ Flush
    /\ UNCHANGED <<input, active, owner, locals, handled>>

\* The error notice is out; a cancellation is looked at only now.
NoticeSent(m) ==
    /\ pc[m] = "notice"
    /\ IF cancelled[m]
         THEN Goto(m, "unwind") /\ UNCHANGED queues
         ELSE Goto(m, "drain") /\ Flush
    /\ UNCHANGED <<input, active, owner, locals, handled>>

\* The reply is out, or the send failed.
ReplySent(m) ==
    /\ pc[m] = "reply"
    /\ \/ /\ Goto(m, "drain")
          /\ Flush
       \/ /\ Goto(m, IF cancelled[m] THEN "unwind" ELSE "failNotice")
          /\ UNCHANGED queues
    /\ UNCHANGED <<input, active, owner, locals, handled>>

\* The catch block is over: the finally block flushes and yields.
Unwound(m) ==
    /\ pc[m] \in {"failNotice", "unwind"}
    /\ Goto(m, "late")
    /\ Flush
    /\ UNCHANGED <<input, active, owner, locals, handled>>

\* Mutant: the burst behind the drained event is discarded, not flushed.
InBandDiscards(m) ==
    /\ pc[m] = "drain"
    /\ IF pending # <<>>
         THEN SpawnDrain(m, "late") /\ pending' = <<>> /\ Discard
         ELSE Goto(m, "late") /\ Flush /\ UNCHANGED <<active, owner, ev, ref, handled>>
    /\ UNCHANGED <<input, cancelled, target>>

\* In-band drain: the slot goes to a fresh frame, which takes the session
\* over; the finally block flushes in the same breath.
InBandDrain(m) ==
    /\ pc[m] = "drain"
    /\ IF pending # <<>>
         THEN /\ SpawnDrain(m, "late")
              /\ pending' = buffer
              /\ Discard
         ELSE /\ Goto(m, "late")
              /\ Flush
              /\ UNCHANGED <<active, owner, ev, ref, handled>>
    /\ UNCHANGED <<input, cancelled, target>>

\* Mutant: the finally block drains whoever owns the session.
LateDrainAnyway(m) ==
    /\ pc[m] = "late"
    /\ pending # <<>>
    /\ SpawnDrain(m, "ended")
    /\ pending' = <<>>
    /\ UNCHANGED <<input, buffer, timer, cancelled, target>>

\* Late arrival, nobody else owns the session: drain it from here.
LateDrain(m) ==
    /\ pc[m] = "late"
    /\ pending # <<>>
    /\ owner \in {Nobody, m}
    /\ SpawnDrain(m, "ended")
    /\ pending' = <<>>
    /\ UNCHANGED <<input, buffer, timer, cancelled, target>>

\* Mutant: popped, not ours to drain, and not put back.
LateDrop(m) ==
    /\ pc[m] = "late"
    /\ pending # <<>>
    /\ owner \notin {Nobody, m}
    /\ pending' = <<>>
    /\ Goto(m, "ended")
    /\ UNCHANGED <<input, active, owner, buffer, timer, locals, handled>>

\* Late arrival, but another task owns the session: the event goes back.
LateRequeue(m) ==
    /\ pc[m] = "late"
    /\ pending # <<>>
    /\ owner \notin {Nobody, m}
    /\ Goto(m, "ended")
    /\ UNCHANGED <<input, active, owner, queues, locals, handled>>

\* Mutant: the cleanup forgets the task entry.
CleanupKeepsTask(m) ==
    /\ pc[m] = "late"
    /\ pending = <<>>
    /\ active' = IF active = ref[m] THEN Nobody ELSE active
    /\ Goto(m, "ended")
    /\ UNCHANGED <<input, owner, queues, locals, handled>>

\* Nothing waits: the owner releases its guard, if it is still its guard, and
\* the task entry with it.
Cleanup(m) ==
    /\ pc[m] = "late"
    /\ pending = <<>>
    /\ IF owner = m /\ active = ref[m]
         THEN active' = Nobody /\ owner' = Nobody
         ELSE UNCHANGED <<active, owner>>
    /\ Goto(m, "ended")
    /\ UNCHANGED <<input, queues, locals, handled>>

\* The task settles a microtask after its frame has returned.
Settle(m) ==
    /\ pc[m] = "ended"
    /\ Goto(m, "done")
    /\ UNCHANGED <<input, active, owner, queues, locals, handled>>

Frame(m) == \/ HandlerReturns(m)
            \/ NoticeSent(m)
            \/ ReplySent(m)
            \/ Unwound(m)
            \/ InBandDrain(m)
            \/ LateDrain(m)
            \/ LateRequeue(m)
            \/ Cleanup(m)
            \/ Settle(m)

-----------------------------------------------------------------------------
(* dispatchActiveSessionCommand: the command m *)

\* cancelSessionProcessing takes the owner off the books and, while it runs,
\* flags it and waits for it.
CancelOwner(m) ==
    LET running == owner # Nobody /\ pc[owner] # "done" IN
    /\ owner' = Nobody
    /\ target' = [target EXCEPT ![m] = owner]
    /\ cancelled' = IF running THEN [cancelled EXCEPT ![owner] = TRUE]
                    ELSE cancelled
    /\ Goto(m, IF running THEN "cmdWait" ELSE "cmdFlush")

CommandHandled(m) ==
    /\ pc[m] = "cmdHandler"
    /\ \/ Goto(m, "cmdReply") /\ UNCHANGED <<owner, target, cancelled>>
       \/ CancelOwner(m)
    /\ UNCHANGED <<input, active, queues, ev, ref, handled>>

CommandReplied(m) ==
    /\ pc[m] = "cmdReply"
    /\ CancelOwner(m)
    /\ UNCHANGED <<input, active, queues, ev, ref, handled>>

\* The handler or the reply raised: the original guard comes back while a task
\* is on the books, and the command's guard is released otherwise.
CommandFails(m) ==
    /\ pc[m] \in {"cmdHandler", "cmdReply"}
    /\ active' = IF active # m THEN active
                 ELSE IF owner # Nobody THEN ref[m] ELSE Nobody
    /\ Goto(m, "done")
    /\ UNCHANGED <<input, owner, queues, locals, handled>>

\* The cancelled task settles, or the bounded wait (5 s) runs out.
CancelWaitEnds(m) ==
    /\ pc[m] = "cmdWait"
    /\ Goto(m, "cmdFlush")
    /\ UNCHANGED <<input, active, owner, queues, locals, handled>>

CommandFlush(m) ==
    /\ pc[m] = "cmdFlush"
    /\ Goto(m, "cmdDrain")
    /\ Flush
    /\ UNCHANGED <<input, active, owner, locals, handled>>

\* Mutant: the follow-up is read from the slot but not popped.
CommandPeeks(m) ==
    /\ pc[m] = "cmdDrain"
    /\ IF pending # <<>>
         THEN Spawn(pending, Head(pending), m, "done")
         ELSE /\ active' = IF active = m THEN Nobody ELSE active
              /\ Goto(m, "done")
              /\ UNCHANGED <<owner, ev, ref, handled>>
    /\ UNCHANGED <<input, queues, cancelled, target>>

\* drainPendingAfterSessionCommand: pop, release the command's guard, and
\* start the queued follow-up as a turn of its own.
CommandDrain(m) ==
    /\ pc[m] = "cmdDrain"
    /\ IF pending # <<>>
         THEN /\ Spawn(pending, Head(pending), m, "done")
              /\ pending' = <<>>
         ELSE /\ active' = IF active = m THEN Nobody ELSE active
              /\ Goto(m, "done")
              /\ UNCHANGED <<owner, pending, ev, ref, handled>>
    /\ UNCHANGED <<input, buffer, timer, cancelled, target>>

Command(m) == \/ CommandHandled(m)
              \/ CommandReplied(m)
              \/ CommandFails(m)
              \/ CancelWaitEnds(m)
              \/ CommandFlush(m)
              \/ CommandDrain(m)

-----------------------------------------------------------------------------

Next == \/ Arrive
        \/ TimerFires
        \/ \E m \in Message : Frame(m)
        \/ \E m \in Message : Command(m)

Spec == Init /\ [][Next]_vars

\* Handlers, sends, timers and the microtask queue all get their turn; nothing
\* obliges a message to arrive.
FairSpec == /\ Spec
            /\ WF_vars(TimerFires)
            /\ \A m \in Message : WF_vars(Frame(m)) /\ WF_vars(Command(m))

-----------------------------------------------------------------------------
(* Properties *)

\* A behaviour of plain traffic: no session command ever, no debouncing, and
\* nothing that replaces what waits.
Plain == ~queueMode /\ \A m \in Message : kind[m] \in {"text", "photo", "inline"}
Commands == \E m \in Message : kind[m] = "new"

\* While there are no session commands, two frames whose turns have not been
\* cancelled are never both before their drain boundary (sync-install,
\* l.226-228).
InTurn(m) == pc[m] \in TurnPcs /\ ~cancelled[m]
OneTurn == ~Commands => \A a, b \in Message : InTurn(a) /\ InTurn(b) => a = b

\* The two maps move together: while there are no session commands, the lock
\* is held exactly when a task owns it, and the owner is still at work, so the
\* on-entry healing of a stale lock has nothing to heal.
LockCoherent ==
    /\ TypeOK
    /\ ~Commands => /\ active # Nobody <=> owner # Nobody
                    /\ owner # Nobody => pc[owner] \in TurnPcs \cup {"late"}

\* Documented: whatever commands come, one turn runs at a time.
OneTurnAlways == \A a, b \in Message : InTurn(a) /\ InTurn(b) => a = b

\* Nothing strands: a slot that holds a message, or a burst that waits, has an
\* owner that will come by to drain it.
NotStranded == pending # <<>> \/ buffer # <<>> => owner # Nobody

\* Every message is handed to one turn at most, whatever was merged, drained
\* late, requeued or taken over by a session command meanwhile.
HandledOnce == \A i, j \in DOMAIN handled : handled[i] = handled[j] => i = j

\* A turn of debounced texts speaks for one sender: in queue mode a burst of
\* several speakers never becomes one speaker's sentence, whichever way it got
\* to the slot.  (A photo joins the slot whoever sent it.)
TextOnly(e) == \A i \in DOMAIN e : kind[e[i]] = "text"
SpokenByOne(e) == \A i, j \in DOMAIN e : sender[e[i]] = sender[e[j]]
OneSpeaker == queueMode => \A m \in Message : TextOnly(ev[m]) => SpokenByOne(ev[m])

\* Without session commands, replacing media and a third speaker, every message
\* that is not answered inline reaches a turn; until then it is in the slot or
\* in the burst.
In(m, e) == \E i \in DOMAIN e : e[i] = m
ForATurn(m) == m <= n /\ kind[m] \in {"text", "photo"}
Kept == \A m \in Message :
            ForATurn(m) => In(m, handled) \/ In(m, pending) \/ In(m, buffer)

\* What does make a message disappear: a sticker or the like replaces what
\* waits, and in queue mode a third speaker finds slot and burst taken.
Replacing == \E m \in Message : kind[m] = "other"
Crowded == queueMode /\ \A a, b \in Senders \ {Anonymous} :
                           \E m \in Message : sender[m] \notin {a, b}
NoneLost == ~Commands /\ ~Replacing /\ ~Crowded => Kept

\* Plain messages are all handled in the end: none waits for a turn for ever.
EveryMessageHandled == \A m \in Message : Plain /\ ForATurn(m) ~> In(m, handled)

\* At rest the session takes the next message: whatever was cancelled, timed
\* out or failed, nothing but a stale lock, which that message heals, is left.
AtRest == \A m \in Message : pc[m] \in {"none", "done"}
NeverLockedOut == AtRest => ~Busy

\* Under plain traffic the guard implements the serial turns of one session.
IfPlain(e) == IF Plain THEN e ELSE <<>>
Session == INSTANCE SerialTurns WITH
              waiting <- IfPlain(pending),
              turn <- IfPlain(IF owner = Nobody THEN <<>> ELSE ev[owner]),
              served <- IfPlain(handled)
ImplementsSerialTurns == Session!Spec
=============================================================================
