------------------------------ MODULE Polling ------------------------------
(* The intake of a long-polling adapter (Telegram in production): the poll   *)
(* loops of its generations, the queue of held updates and its redispatch,   *)
(* the conflict and the recovery ladder (polling-adapter.ts), and the client *)
(* with its offset floor and its registry of raw updates                     *)
(* (bot-api-client.ts).  Updates are numbered as the server numbers them.    *)
(* An action is what runs between two awaits.                                *)
(* PollingInit, PollingNext and the like are named so since the theorems of the *)
(* module stand beside those of another one.                                 *)
EXTENDS Integers, Sequences, SequencesExt

CONSTANTS
    N,             \* updates that users send in this history
    Taps,          \* those that are button taps and not messages
    MaxConflicts,  \* MAX_CONFLICT_RETRIES (5)
    HeldMax,       \* HELD_INBOUND_MAX (64)
    MaxFaults      \* bound on lost answers, rival polls, probes, failed dispatches

ASSUME PollingAssumption ==
    /\ N \in Nat /\ Taps \subseteq 1..N
    /\ MaxConflicts \in Nat /\ HeldMax \in Nat \ {0} /\ MaxFaults \in Nat

VARIABLES
    sent,       \* the updates the server has got
    acked,      \* the updates it has been told to forget, by an offset
    open,       \* the generation whose poll the server holds
    floor,      \* the client's offsetFloor
    raw,        \* the client's registry of raw updates
    gen,        \* the current generation
    loop,       \* the poll loops: where each is, its batch, whether it drops
    held,       \* heldInbound
    drain,      \* the redispatch pass: off, or the events it has yet to do
    recovering, \* the recovery ladder sleeps
    conflicts,  \* conflictCount
    fatal,      \* the lifecycle state is "fatal"
    reborn,     \* a fresh instance has taken the place of a fatal one
    faults,     \* faults injected so far
    times,      \* history: how often an update was dispatched
    turned,     \* history: the updates dispatched as a turn of a chat
    discarded,  \* history: the updates given up on purpose
    failed      \* history: a dispatch has thrown

server  == <<sent, acked, open>>
client  == <<floor, raw>>
ladders == <<recovering, conflicts, fatal, reborn>>
intake  == <<held, drain>>
history == <<times, turned, discarded, failed>>
pollingVars == <<server, client, gen, loop, intake, ladders, faults, history>>

Update == 1..N
Generation == 1..MaxFaults + 2
Ended == [pc |-> "end", batch |-> <<>>, drop |-> FALSE]
Starts(drop) == [pc |-> "top", batch |-> <<>>, drop |-> drop]
Off == [on |-> FALSE, events |-> <<>>]
Pending == (acked + 1)..sent
Goto(g, l) == loop' = [loop EXCEPT ![g].pc = l]
Fault == faults < MaxFaults /\ faults' = faults + 1

(* isTransportAlive and canDispatchNow *)
Alive(g) == g = gen /\ ~fatal

(* connect after a restart: the first poll drops what is pending.            *)
PollingInit ==
    /\ sent \in 0..N /\ acked = 0 /\ open = 0
    /\ floor = 1 /\ raw = {}
    /\ gen = 1
    /\ loop = [g \in Generation |-> IF g = 1 THEN Starts(TRUE) ELSE Ended]
    /\ held = <<>> /\ drain = Off
    /\ recovering = FALSE /\ conflicts = 0 /\ fatal = FALSE /\ reborn = FALSE
    /\ faults = 0
    /\ times = [u \in Update |-> 0]
    /\ turned = {} /\ discarded = {} /\ failed = FALSE

Send ==
    /\ sent < N /\ sent' = sent + 1
    /\ UNCHANGED <<acked, open, client, gen, loop, intake, ladders, faults, history>>

----------------------------------------------------------------------------
(* Dispatch and hold *)

(* handleIngress: a tap is recognised by its raw update. *)
Dispatched(u) ==
    /\ times' = [times EXCEPT ![u] = @ + 1]
    /\ turned' = IF u \in Taps \cap raw THEN turned ELSE turned \cup {u}

(* holdInbound of some updates: the oldest make room, and are given up.      *)
Overflow(h) == IF Len(h) > HeldMax THEN Len(h) - HeldMax ELSE 0

Holds(us, d) ==
    LET all == held \o us
    IN  IF fatal
        THEN /\ discarded' = discarded \cup ToSet(us)
             /\ held' = held /\ drain' = d
        ELSE /\ held' = SubSeq(all, Overflow(all) + 1, Len(all))
             /\ discarded' = discarded \cup ToSet(SubSeq(all, 1, Overflow(all)))
             /\ drain' = [d EXCEPT !.on = TRUE]

----------------------------------------------------------------------------
(* pollLoop *)

(* The offset of a poll tells the server what it may forget, and its arrival *)
(* ends the poll before it.                                                  *)
Polls(g) ==
    /\ loop[g].pc = "top"
    /\ IF g = gen
       THEN /\ Goto(g, "polling") /\ open' = g
            /\ acked' = IF floor - 1 > acked THEN floor - 1 ELSE acked
       ELSE /\ loop' = [loop EXCEPT ![g] = Ended]
            /\ UNCHANGED <<acked, open>>
    /\ UNCHANGED <<sent, client, gen, intake, ladders, faults, history>>

Answers(g) ==
    /\ loop[g].pc = "polling" /\ open = g
    /\ Pending # {} \/ loop[g].drop
    /\ loop' = [loop EXCEPT ![g].pc = "answered",
                            ![g].batch = [i \in 1..sent - acked |-> acked + i]]
    /\ UNCHANGED <<server, client, gen, intake, ladders, faults, history>>

(* 409 for a poll that a later one has ended: its loop is stale, and ends.   *)
Superseded(g) ==
    /\ loop[g].pc = "polling" /\ open # g
    /\ loop' = [loop EXCEPT ![g] = Ended]
    /\ UNCHANGED <<server, client, gen, intake, ladders, faults, history>>

Progress(g) ==
    /\ conflicts' = IF g = gen THEN 0 ELSE conflicts
    /\ UNCHANGED <<recovering, fatal, reborn>>

(* An answer without updates changes nothing but the count of conflicts.      *)
AnswersNothing(g) ==
    /\ loop[g].pc = "polling" /\ open = g /\ ~ loop[g].drop
    /\ Pending = {} /\ conflicts > 0
    /\ Goto(g, "top")
    /\ Progress(g)
    /\ UNCHANGED <<server, client, gen, intake, faults, history>>

Above(n, s) == {u \in s : u >= n}
NextFloor(batch) == IF batch = <<>> \/ Last(batch) < floor THEN floor ELSE Last(batch) + 1

(* getUpdates with drop_pending_updates *)
Drops(g) ==
    /\ loop[g].pc = "answered" /\ loop[g].drop
    /\ floor' = NextFloor(loop[g].batch)
    /\ raw' = Above(floor', raw \cup ToSet(loop[g].batch))
    /\ discarded' = discarded \cup ToSet(loop[g].batch)
    /\ loop' = [loop EXCEPT ![g] = Starts(FALSE)]
    /\ Progress(g)
    /\ UNCHANGED <<server, gen, intake, faults, times, turned, failed>>

(* The commit comes before the dispatch, and before a look at the generation.*)
Commits(g) ==
    /\ loop[g].pc = "answered" /\ ~ loop[g].drop
    /\ floor' = NextFloor(loop[g].batch)
    /\ raw' = Above(floor', raw \cup ToSet(loop[g].batch))
    /\ Goto(g, "each")
    /\ Progress(g)
    /\ UNCHANGED <<server, gen, intake, faults, history>>

Each(g) ==
    /\ loop[g].pc = "each" /\ loop[g].batch # <<>>
    /\ Alive(g)
    /\ loop' = [loop EXCEPT ![g].batch = Tail(@)]
    /\ Dispatched(Head(loop[g].batch))
    /\ UNCHANGED <<server, client, gen, intake, ladders, faults, discarded, failed>>

(* Mutant: the loop of an old generation skips the rest of its batch. *)
InterruptedSkips(g) ==
    /\ loop[g].pc = "each" /\ loop[g].batch # <<>>
    /\ ~ Alive(g)
    /\ loop' = [loop EXCEPT ![g].batch = <<>>]
    /\ UNCHANGED <<server, client, gen, intake, ladders, faults, history>>

Interrupted(g) ==
    /\ loop[g].pc = "each" /\ loop[g].batch # <<>>
    /\ ~ Alive(g)
    /\ loop' = [loop EXCEPT ![g].batch = <<>>]
    /\ Holds(loop[g].batch, drain)
    /\ UNCHANGED <<server, client, gen, ladders, faults, times, turned, failed>>

EachFails(g) ==
    /\ loop[g].pc = "each" /\ loop[g].batch # <<>>
    /\ Alive(g) /\ Fault
    /\ loop' = [loop EXCEPT ![g].batch = Tail(@)]
    /\ Holds(<<Head(loop[g].batch)>>, drain)
    /\ failed' = TRUE
    /\ UNCHANGED <<server, client, gen, ladders, times, turned>>

BatchDone(g) ==
    /\ loop[g].pc = "each" /\ loop[g].batch = <<>>
    /\ Goto(g, "top")
    /\ UNCHANGED <<server, client, gen, intake, ladders, faults, history>>

----------------------------------------------------------------------------
(* The ladders: a fresh generation takes over polling *)

NewGeneration(g, drop) ==
    /\ gen' = gen + 1
    /\ loop' = [g EXCEPT ![gen + 1] = Starts(drop)]

(* The request or its answer is lost: scheduleRecovery. *)
NetworkFails(g) ==
    /\ loop[g].pc \in {"polling", "answered"} /\ Fault
    /\ loop' = [loop EXCEPT ![g] = Ended]
    /\ recovering' = (recovering \/ Alive(g))
    /\ UNCHANGED <<server, client, gen, intake, conflicts, fatal, reborn, history>>

(* A probe fails, or two in a row find updates pending, or no loop running.  *)
HeartbeatEscalates ==
    /\ ~ fatal /\ ~ recovering /\ Fault
    /\ recovering' = TRUE
    /\ UNCHANGED <<server, client, gen, loop, intake, conflicts, fatal, reborn, history>>

(* Mutant: the ladder goes out without a generation of its own. *)
RecoversNever ==
    /\ recovering /\ recovering' = FALSE
    /\ UNCHANGED <<server, client, gen, loop, intake, conflicts, fatal, reborn,
                   faults, history>>

RecoveryOver ==
    /\ recovering /\ recovering' = FALSE
    /\ IF fatal THEN UNCHANGED <<gen, loop>> ELSE NewGeneration(loop, FALSE)
    /\ UNCHANGED <<server, client, intake, conflicts, fatal, reborn, faults, history>>

(* A rival polls with the same token. *)
Conflict(g) ==
    /\ loop[g].pc = "polling" /\ Fault
    /\ IF ~ Alive(g)
       THEN /\ loop' = [loop EXCEPT ![g] = Ended]
            /\ UNCHANGED <<conflicts, fatal, held, discarded>>
       ELSE /\ conflicts' = conflicts + 1
            /\ IF conflicts < MaxConflicts
               THEN Goto(g, "sleep") /\ UNCHANGED <<fatal, held, discarded>>
               ELSE /\ fatal' = TRUE
                    /\ loop' = [loop EXCEPT ![g] = Ended]
                    /\ held' = <<>>
                    /\ discarded' = discarded \cup ToSet(held)
    /\ UNCHANGED <<server, client, gen, drain, recovering, reborn, times, turned, failed>>

ConflictOver(g) ==
    /\ loop[g].pc = "sleep"
    /\ IF fatal
       THEN loop' = [loop EXCEPT ![g] = Ended] /\ UNCHANGED gen
       ELSE NewGeneration([loop EXCEPT ![g] = Ended], TRUE)
    /\ UNCHANGED <<server, client, intake, ladders, faults, history>>

(* The reconnect watcher makes a fresh instance: connect with isReconnect.   *)
Reborn ==
    /\ fatal /\ ~ reborn /\ reborn' = TRUE /\ fatal' = FALSE
    /\ ~ drain.on /\ \A g \in Generation : loop[g].pc # "each"
    /\ NewGeneration([g \in Generation |-> Ended], FALSE)
    /\ floor' = 1 /\ raw' = {}
    /\ conflicts' = 0 /\ recovering' = FALSE
    /\ UNCHANGED <<server, intake, faults, history>>

----------------------------------------------------------------------------
(* redispatchHeldInbound *)

DrainTakes ==
    /\ drain.on /\ drain.events = <<>> /\ held # <<>>
    /\ drain' = [drain EXCEPT !.events = held] /\ held' = <<>>
    /\ UNCHANGED <<server, client, gen, loop, ladders, faults, history>>

DrainDispatches ==
    /\ drain.events # <<>> /\ ~ fatal
    /\ drain' = [drain EXCEPT !.events = Tail(@)]
    /\ Dispatched(Head(drain.events))
    /\ UNCHANGED <<server, client, gen, loop, held, ladders, faults, discarded, failed>>

(* A failed pass holds what is left and is not followed by another one.      *)
DrainFails ==
    /\ drain.events # <<>> /\ ~ fatal /\ Fault
    /\ LET all == held \o drain.events
       IN  /\ held' = SubSeq(all, Overflow(all) + 1, Len(all))
           /\ discarded' = discarded \cup ToSet(SubSeq(all, 1, Overflow(all)))
    /\ drain' = Off
    /\ failed' = TRUE
    /\ UNCHANGED <<server, client, gen, loop, ladders, times, turned>>

DrainInterrupted ==
    /\ drain.events # <<>> /\ fatal
    /\ Holds(drain.events, Off)
    /\ UNCHANGED <<server, client, gen, loop, ladders, faults, times, turned, failed>>

DrainEnds ==
    /\ drain.on /\ drain.events = <<>> /\ held = <<>>
    /\ drain' = Off
    /\ UNCHANGED <<server, client, gen, loop, held, ladders, faults, history>>

----------------------------------------------------------------------------
Loop(g) ==
    \/ Polls(g) \/ Answers(g) \/ AnswersNothing(g) \/ Superseded(g)
    \/ Drops(g) \/ Commits(g) \/ Each(g) \/ Interrupted(g) \/ BatchDone(g) \/ ConflictOver(g)

Drain == DrainTakes \/ DrainDispatches \/ DrainInterrupted \/ DrainEnds

Faulty ==
    \/ \E g \in Generation : NetworkFails(g) \/ Conflict(g) \/ EachFails(g)
    \/ HeartbeatEscalates \/ DrainFails

PollingNext == Send \/ (\E g \in Generation : Loop(g)) \/ Drain \/ RecoveryOver \/ Reborn \/ Faulty

PollingSpec == PollingInit /\ [][PollingNext]_pollingVars

(* Answers come, sleeps end, and the watcher reconnects; nobody need write.  *)
PollingFairSpec ==
    /\ PollingSpec
    /\ \A g \in Generation : WF_pollingVars(Loop(g))
    /\ WF_pollingVars(Drain) /\ WF_pollingVars(RecoveryOver) /\ WF_pollingVars(Reborn)

----------------------------------------------------------------------------
PollingTypeOK ==
    /\ sent \in 0..N /\ acked \in 0..sent /\ open \in 0..MaxFaults + 2
    /\ floor \in 1..N + 1 /\ raw \subseteq Update
    /\ gen \in Generation
    /\ loop \in [Generation -> [pc : {"top", "polling", "answered", "each", "sleep", "end"},
                                batch : Seq(Update), drop : BOOLEAN]]
    /\ held \in Seq(Update) /\ Len(held) <= HeldMax
    /\ drain \in [on : BOOLEAN, events : Seq(Update)]
    /\ recovering \in BOOLEAN /\ fatal \in BOOLEAN /\ reborn \in BOOLEAN
    /\ conflicts \in 0..MaxConflicts + 1 /\ faults \in 0..MaxFaults
    /\ times \in [Update -> Nat] /\ turned \subseteq Update
    /\ discarded \subseteq Update /\ failed \in BOOLEAN

Settled(u) == times[u] > 0 \/ u \in discarded
InHand(u) ==
    \/ \E g \in Generation : u \in ToSet(loop[g].batch)
    \/ u \in ToSet(held) \/ u \in ToSet(drain.events)

(* An update whose offset is committed, or that the server was told to       *)
(* forget, is dispatched, in somebody's hands, or was given up on purpose,   *)
(* whichever generation fetched it and whatever befell that (the code: "a    *)
(* transport death inside the window must HOLD them, never skip").           *)
NoneLost ==
    /\ PollingTypeOK
    /\ \A u \in Update : u <= acked \/ u < floor => Settled(u) \/ InHand(u)

(* While dispatch works every update is dispatched or given up in the end,   *)
(* through conflicts, recoveries and a fatal end of the first instance: the  *)
(* fresh one fetches what the server still has.                              *)
EveryUpdateSettles ==
    \A u \in Update : (u <= sent) ~> (Settled(u) \/ failed \/ (fatal /\ reborn))

(* "No tap ever dispatches a turn" (telegram-adapter.ts, routeCallbackQuery).*)
(* The code: the commit prunes the raw update by which a tap is known.       *)
NoTapIsATurn == turned \cap Taps = {}

(* "These updates will never be redelivered" (polling-adapter.ts, pollLoop). *)
(* The code: the commit reaches the client only; the server learns of it by  *)
(* the next poll of this instance.                                           *)
NeverTwice == \A u \in Update : times[u] < 2
=============================================================================
