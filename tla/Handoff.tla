------------------------------ MODULE Handoff ------------------------------
(* Handing a terminal session over to the gateway: the handoff columns of    *)
(* the session row (pi_embedded/handoff/queue.ts), the terminal client that  *)
(* asks and poll-blocks (cli-client.ts), and the gateway's watcher tick with *)
(* the pipeline it runs for every claimed row (watcher.ts, pipeline.ts,      *)
(* dispatcher.ts).  Clients and gateways are processes that share one store. *)
(* Every queue mutation is one transaction and so one action; what a client  *)
(* or a tick read before it is a local copy that may be stale.               *)
(* HandoffInit, HandoffNext and the like are named so since the theorems of the *)
(* module stand beside those of another one.                                 *)
EXTENDS Integers, Sequences

CONSTANTS
    Sessions,     \* session rows, numbered in started_at order
    Platforms,    \* where a session can be handed to
    Clients,      \* terminal processes
    Gateways,     \* gateway processes, each with one watcher
    MaxAsks,      \* bound: accepted requests
    MaxCrashes,   \* bound: gateway crashes
    StoreFaults,  \* whether a read or a write of the store may throw
    ClientsQuit   \* whether a blocked client may be killed

ASSUME HandoffAssumption ==
    /\ Sessions \subseteq Nat /\ MaxAsks \in Nat /\ MaxCrashes \in Nat
    /\ StoreFaults \in BOOLEAN /\ ClientsQuit \in BOOLEAN

None == 0         \* no request
Asks == 1..MaxAsks
Settled == {"completed", "failed"}

VARIABLES
    row,      \* handoff_state and handoff_platform of every session row
    cli,      \* the pollUntilTerminal call of every client
    gw,       \* the watcher of every gateway: its snapshot and claimed row
    bound,    \* the session every platform's home channel is switched to
    crashes,  \* gateway crashes so far
    asked,    \* history: accepted requests, in order of acceptance
    expired,  \* history: requests whose client gave up waiting
    turns,    \* history: per request, the platforms a turn was dispatched on
    served,   \* history: requests whose turn succeeded
    told      \* history: per request, the answer its client returned with

handoffVars == <<row, cli, gw, bound, crashes, asked, expired, turns, served, told>>
history == <<asked, expired, turns, served, told>>

NoState == [state |-> "null", platform |-> "none", ask |-> None]
IdleClient == [at |-> "idle", sess |-> None, ask |-> None]
Listed(s, p) == [sess |-> s, platform |-> p]
IdleWatcher == [at |-> "idle", todo |-> {}, sess |-> None,
                platform |-> "none", ask |-> None]

HandoffTypeOK ==
    /\ row \in [Sessions -> [state : {"null", "pending", "running"} \cup Settled,
                             platform : Platforms \cup {"none"},
                             ask : Asks \cup {None}]]
    /\ cli \in [Clients -> [at : {"idle", "polling", "late"},
                            sess : Sessions \cup {None},
                            ask : Asks \cup {None}]]
    /\ \A g \in Gateways :
          /\ gw[g].at \in {"down", "idle", "tick", "claimed", "turn",
                           "completing", "failing"}
          /\ gw[g].todo \subseteq [sess : Sessions, platform : Platforms]
          /\ gw[g].sess \in Sessions \cup {None}
          /\ gw[g].platform \in Platforms \cup {"none"}
          /\ gw[g].ask \in Asks \cup {None}
    /\ bound \in [Platforms -> Sessions \cup {None}]
    /\ crashes \in 0..MaxCrashes
    /\ \A i \in 1..Len(asked) : asked[i] \in [sess : Sessions, platform : Platforms]
    /\ expired \subseteq 1..Len(asked) /\ served \subseteq 1..Len(asked)

HandoffInit ==
    /\ row = [s \in Sessions |-> NoState]
    /\ cli = [c \in Clients |-> IdleClient]
    /\ gw = [g \in Gateways |-> IdleWatcher]
    /\ bound = [p \in Platforms |-> None]
    /\ crashes = 0
    /\ asked = <<>> /\ expired = {} /\ served = {}
    /\ turns = [r \in Asks |-> <<>>]
    /\ told = [r \in Asks |-> "none"]

----------------------------------------------------------------------------
(* The client *)

\* The states request_handoff may start from.
Requestable(s) == row[s].state \in {"null"} \cup Settled

\* requestHandoff: NULL, completed or failed becomes pending for the platform,
\* and the client starts to poll.  A refused request changes nothing.
RequestHandoff(c, s, p) ==
    /\ cli[c].at = "idle" /\ Len(asked) < MaxAsks
    /\ Requestable(s)
    /\ LET r == Len(asked) + 1 IN
         /\ row' = [row EXCEPT ![s] = [state |-> "pending", platform |-> p, ask |-> r]]
         /\ cli' = [cli EXCEPT ![c] = [at |-> "polling", sess |-> s, ask |-> r]]
         /\ asked' = Append(asked, Listed(s, p))
    /\ UNCHANGED <<gw, bound, crashes, expired, turns, served, told>>

ReturnWith(c, kind) ==
    /\ cli' = [cli EXCEPT ![c] = IdleClient]
    /\ told' = [told EXCEPT ![cli[c].ask] = kind]

\* A poll that reads a terminal state returns it.
PollReads(c) ==
    /\ cli[c].at = "polling"
    /\ row[cli[c].sess].state \in Settled
    /\ ReturnWith(c, row[cli[c].sess].state)
    /\ UNCHANGED <<row, gw, bound, crashes, asked, expired, turns, served>>

\* A poll that reads a state that is not terminal, or whose read throws, and
\* finds the deadline passed: the fail it now awaits is a later transaction.
DeadlinePasses(c) ==
    /\ cli[c].at = "polling"
    /\ row[cli[c].sess].state \notin Settled \/ StoreFaults
    /\ cli' = [cli EXCEPT ![c].at = "late"]
    /\ UNCHANGED <<row, gw, bound, crashes, history>>

\* Mutant: A row that is being worked on is left alone.
FailUnlessRunning(s) ==
    row' = [row EXCEPT ![s].state = IF @ = "running" THEN @ ELSE "failed"]

\* failHandoff, without a condition on the state.
FailHandoff(s) == row' = [row EXCEPT ![s].state = "failed"]

TimeOut(c) ==
    /\ cli[c].at = "late"
    /\ FailHandoff(cli[c].sess)
    /\ expired' = expired \cup {cli[c].ask}
    /\ ReturnWith(c, "timeout")
    /\ UNCHANGED <<gw, bound, crashes, asked, turns, served>>

\* The client ends without failing the row: killed, or its fail threw.
ClientGone(c) ==
    /\ \/ ClientsQuit /\ cli[c].at # "idle"
       \/ StoreFaults /\ cli[c].at = "late"
    /\ ReturnWith(c, "gone")
    /\ UNCHANGED <<row, gw, bound, crashes, asked, expired, turns, served>>

----------------------------------------------------------------------------
(* The watcher *)

Pending == {s \in Sessions : row[s].state = "pending"}

\* tick: listPendingHandoffs copies every pending row with its platform.
ListPending(g) ==
    /\ gw[g].at = "idle" /\ Pending # {}
    /\ gw' = [gw EXCEPT ![g].at = "tick",
                        ![g].todo = {Listed(s, row[s].platform) : s \in Pending}]
    /\ UNCHANGED <<row, cli, bound, crashes, history>>

Oldest(todo) == CHOOSE e \in todo : \A f \in todo : e.sess <= f.sess

\* Mutant: The claim is taken without the compare-and-set.
ClaimUnchecked(g) ==
    /\ gw[g].at = "tick" /\ gw[g].todo # {}
    /\ LET e == Oldest(gw[g].todo) IN
         /\ row' = [row EXCEPT ![e.sess].state = "running"]
         /\ gw' = [gw EXCEPT ![g] =
                     [at |-> "claimed", todo |-> @.todo \ {e}, sess |-> e.sess,
                      platform |-> e.platform, ask |-> row[e.sess].ask]]
    /\ UNCHANGED <<cli, bound, crashes, history>>

\* The next listed row is claimed, or lost to a claim or a timeout that came
\* in between.  The pipeline works on the listed copy of the row.
ClaimHandoff(g) ==
    /\ gw[g].at = "tick" /\ gw[g].todo # {}
    /\ LET e == Oldest(gw[g].todo) IN
         IF row[e.sess].state = "pending"
         THEN /\ row' = [row EXCEPT ![e.sess].state = "running"]
              /\ gw' = [gw EXCEPT ![g] =
                          [at |-> "claimed", todo |-> @.todo \ {e}, sess |-> e.sess,
                           platform |-> e.platform, ask |-> row[e.sess].ask]]
         ELSE /\ gw' = [gw EXCEPT ![g].todo = @ \ {e}]
              /\ UNCHANGED row
    /\ UNCHANGED <<cli, bound, crashes, history>>

\* The tick returns and the loop sleeps; a throw of the store outside the
\* row's own try ends the tick too, the rest of its snapshot unserved.
EndTick(g) ==
    /\ \/ gw[g].at = "tick" /\ (gw[g].todo = {} \/ StoreFaults)
       \/ gw[g].at = "failing" /\ StoreFaults
    /\ gw' = [gw EXCEPT ![g] = IdleWatcher]
    /\ UNCHANGED <<row, cli, bound, crashes, history>>

\* process: switch the home channel to the session and dispatch the synthetic
\* turn through the adapter guard.
Dispatch(g) ==
    /\ gw[g].at = "claimed"
    /\ bound' = [bound EXCEPT ![gw[g].platform] = gw[g].sess]
    /\ turns' = [turns EXCEPT ![gw[g].ask] = Append(@, gw[g].platform)]
    /\ gw' = [gw EXCEPT ![g].at = "turn"]
    /\ UNCHANGED <<row, cli, crashes, asked, expired, served, told>>

\* process throws before the turn: platform not active, no home channel, or
\* the switch was refused.
PipelineRefuses(g) ==
    /\ gw[g].at = "claimed"
    /\ gw' = [gw EXCEPT ![g].at = "failing"]
    /\ UNCHANGED <<row, cli, bound, crashes, history>>

\* Mutant: The row is settled as completed whatever the turn came to.
TurnIgnored(g) ==
    /\ gw[g].at = "turn"
    /\ gw' = [gw EXCEPT ![g].at = "completing"]
    /\ UNCHANGED <<row, cli, bound, crashes, history>>

\* Every frame settled and no handler failure was drained.
TurnSucceeds(g) ==
    /\ gw[g].at = "turn"
    /\ served' = served \cup {gw[g].ask}
    /\ gw' = [gw EXCEPT ![g].at = "completing"]
    /\ UNCHANGED <<row, cli, bound, crashes, asked, expired, turns, told>>

\* A handler failure was drained: this turn's, or another chat's.
TurnFails(g) ==
    /\ gw[g].at = "turn"
    /\ gw' = [gw EXCEPT ![g].at = "failing"]
    /\ UNCHANGED <<row, cli, bound, crashes, history>>

NextRow(g) == gw' = [gw EXCEPT ![g] = [IdleWatcher EXCEPT !.at = "tick", !.todo = gw[g].todo]]

\* completeHandoff, without a condition on the state.
CompleteHandoff(g) ==
    /\ gw[g].at = "completing"
    /\ row' = [row EXCEPT ![gw[g].sess].state = "completed"]
    /\ NextRow(g)
    /\ UNCHANGED <<cli, bound, crashes, history>>

\* completeHandoff threw inside the row's try, whose catch fails the row.
CompleteThrows(g) ==
    /\ StoreFaults /\ gw[g].at = "completing"
    /\ gw' = [gw EXCEPT ![g].at = "failing"]
    /\ UNCHANGED <<row, cli, bound, crashes, history>>

FailRow(g) ==
    /\ gw[g].at = "failing"
    /\ FailHandoff(gw[g].sess)
    /\ NextRow(g)
    /\ UNCHANGED <<cli, bound, crashes, history>>

Crash(g) ==
    /\ gw[g].at # "down" /\ crashes < MaxCrashes
    /\ crashes' = crashes + 1
    /\ gw' = [gw EXCEPT ![g] = [IdleWatcher EXCEPT !.at = "down"]]
    /\ UNCHANGED <<row, cli, bound, history>>

Restart(g) ==
    /\ gw[g].at = "down"
    /\ gw' = [gw EXCEPT ![g] = IdleWatcher]
    /\ UNCHANGED <<row, cli, bound, crashes, history>>

Watch(g) ==
    \/ ListPending(g) \/ ClaimHandoff(g) \/ EndTick(g)
    \/ Dispatch(g) \/ PipelineRefuses(g) \/ TurnSucceeds(g) \/ TurnFails(g)
    \/ CompleteHandoff(g) \/ CompleteThrows(g) \/ FailRow(g)

HandoffNext ==
    \/ \E c \in Clients : \/ \E s \in Sessions, p \in Platforms : RequestHandoff(c, s, p)
                          \/ PollReads(c) \/ DeadlinePasses(c) \/ TimeOut(c)
                          \/ ClientGone(c)
    \/ \E g \in Gateways : Watch(g) \/ Crash(g) \/ Restart(g)

HandoffSpec == HandoffInit /\ [][HandoffNext]_handoffVars

\* A blocked client keeps polling every 500 ms and its clock reaches the
\* deadline.  Nothing is assumed of the gateways, which may be down.
Poll(c) == PollReads(c) \/ DeadlinePasses(c) \/ TimeOut(c)
HandoffFairSpec == HandoffSpec /\ \A c \in Clients : WF_handoffVars(Poll(c))

----------------------------------------------------------------------------
(* Properties *)

GaveUpOn(s) == \E r \in expired : asked[r].sess = s

LatestAsk(r) == \A q \in 1..Len(asked) : asked[q].sess = asked[r].sess => q <= r

\* However often gateways race for a row, crash on it or come back, an
\* accepted request has at most one synthetic turn dispatched for it
\* (queue.ts listPendingHandoffs, claimHandoff).
DispatchedOnce == HandoffTypeOK /\ \A r \in Asks : Len(turns[r]) <= 1

\* On a session nobody gave up on and nobody else asked for since, a client
\* that returns with "completed" was told of its own request, whose turn ran
\* to success (cli-client.ts pollUntilTerminal, watcher.ts tick).
ToldTheTruth ==
    \A r \in Asks :
        told[r] = "completed" /\ ~GaveUpOn(asked[r].sess) /\ LatestAsk(r)
            => r \in served

\* A row that is in flight always comes back to a state a new request is
\* accepted from, whatever happens to the gateways and the store: the blocked
\* client's deadline sees to it (cli-client.ts header), unless the client of
\* that row ends without having failed it.
ClientEnded(s) ==
    \E r \in Asks : told[r] = "gone" /\ asked[r].sess = s
BecomesRetryable ==
    \A s \in Sessions : ~Requestable(s) ~> Requestable(s) \/ ClientEnded(s)

\* Documented: a row becomes completed from running only (queue.ts header,
\* "pending -> claim -> running -> completed").  A pending row, whose request
\* no gateway has taken, is never reported as done.
CompletedFromRunning ==
    [][\A s \in Sessions :
          row[s].state = "pending" => row'[s].state # "completed"]_handoffVars

\* Documented: a completed row leaves that state by a new request only
\* (queue.ts header); a client that gives up does not turn it into a failure.
CompletedStands ==
    [][\A s \in Sessions :
          row[s].state = "completed" => row'[s].state \in {"completed", "pending"}]_handoffVars

\* The diagram of the queue.ts header.  On a session no client gave up on, the
\* store follows it, although neither completion nor failure looks at the state
\* it leaves: the two properties above fail through clients that give up only.
Diagram == {<<"null", "pending">>, <<"completed", "pending">>, <<"failed", "pending">>,
            <<"pending", "running">>, <<"running", "completed">>, <<"running", "failed">>}
FollowsDiagram ==
    [][\A s \in Sessions :
          row'[s].state # row[s].state /\ ~GaveUpOn(s)'
              => <<row[s].state, row'[s].state>> \in Diagram]_handoffVars

\* Documented: a request marks the session pending for the given platform
\* (queue.ts requestHandoff); its turn is dispatched there.
DispatchedWhereAsked ==
    \A r \in 1..Len(asked) : turns[r] \in {<<>>, <<asked[r].platform>>}

=============================================================================
