----------------------------- MODULE ChatTurns -----------------------------
(* The turns of one chat: the handlers that drive them                       *)
(* (pi_agent_core/rpc-turn-runner.ts, called by entrypoints/guard-wiring.ts),*)
(* the table of pi child processes (chat-proc-registry.ts) and the dialogs   *)
(* a child or a command puts to the user (pi_gateway/pickers).               *)
(* The session guard runs one turn at a time, but routes an answer to a      *)
(* pending dialog, and a session command, to the handler while the turn is   *)
(* still running.  A handler runs alone from one await to the next.          *)
(* ChatInit, ChatNext and the like are named so since the theorems of the    *)
(* module stand beside those of another one.                                 *)
EXTENDS Naturals

CONSTANTS
    Turns,        \* inbound messages, each with its call of the handler
    Kinds,        \* what every message is: "text", "session" or "path"
    MaxDialogs,   \* bound on the requests for the user's input
    MaxChildren   \* bound on the child processes that are started

NoTurn == "none"

ASSUME ChatAssumption ==
    /\ NoTurn \notin Turns
    /\ Kinds \in [Turns -> {"text", "session", "path"}]
    /\ MaxDialogs \in Nat
    /\ MaxChildren \in Nat \ {0}

VARIABLES
    pc,       \* the await every handler is suspended at
    main,     \* the turn the session guard runs
    drives,   \* the child a handler drives, starts, probes or stops
    current,  \* the registry's entry for the chat
    state,    \* the state of every entry
    up,       \* the child processes that run
    asker,    \* whose turn every dialog belongs to
    phase,    \* every dialog: "none", "sending", "waiting", "answered"
    outcome,  \* what settled it: nothing yet, the user's value, or cancelled
    accepted, \* dialogs for which an answer of the user was reported taken
    reply,    \* the response every dialog's asker has received
    raced     \* whether a turn or a stop began while a child was being stopped

chatVars == <<pc, main, drives, current, state, up, asker, phase, outcome,
          accepted, reply, raced>>
tableVars == <<main, drives, current, state, up, raced>>
dialogVars == <<asker, phase, outcome, accepted, reply>>

Children == 1..MaxChildren
Dialogs == 1..MaxDialogs
NoChild == 0

ChatInit ==
    /\ pc = [t \in Turns |-> "idle"]
    /\ main = NoTurn
    /\ drives = [t \in Turns |-> NoChild]
    /\ current = NoChild
    /\ state = [c \in Children |-> "none"]
    /\ up = {}
    /\ asker = [d \in Dialogs |-> NoTurn]
    /\ phase = [d \in Dialogs |-> "none"]
    /\ outcome = [d \in Dialogs |-> "none"]
    /\ accepted = {}
    /\ reply = [d \in Dialogs |-> "none"]
    /\ raced = FALSE

----------------------------------------------------------------------------
(* The picker store *)

Live == {d \in Dialogs : phase[d] \in {"sending", "waiting"} /\ outcome[d] = "none"}

HasItsAnswers(t) == \A d \in Dialogs : asker[d] = t => phase[d] = "answered"

(* Mutant: a later outcome replaces the first. *)
SettleAgain(ds, o) ==
    outcome' = [d \in Dialogs |-> IF d \in ds /\ phase[d] \in {"sending", "waiting"}
                                  THEN o ELSE outcome[d]]

(* settle: the first outcome of a live entry stays. *)
Settle(ds, o) ==
    outcome' = [d \in Dialogs |-> IF d \in ds \cap Live THEN o ELSE outcome[d]]

(* A child asks in the course of its turn; a bare session command asks one   *)
(* question after the other and waits for the answers itself.                *)
AskDialog(d, t) ==
    /\ phase[d] = "none" /\ \A e \in Dialogs : e < d => phase[e] # "none"
    /\ pc[t] = "work" /\ drives[t] \in up /\ Kinds[t] # "path"
    /\ Kinds[t] = "session" => HasItsAnswers(t)
    /\ asker' = [asker EXCEPT ![d] = t]
    /\ phase' = [phase EXCEPT ![d] = "sending"]
    /\ UNCHANGED <<pc, tableVars, outcome, accepted, reply>>

(* The keyboard or the text went out, or neither did; the asker waits now,   *)
(* unless its turn is over and its signal has been raised.                   *)
Sent(d) ==
    /\ phase[d] = "sending"
    /\ phase' = [phase EXCEPT ![d] = "waiting"]
    /\ \/ /\ Kinds[asker[d]] = "session" \/ pc[asker[d]] \in {"work", "probe"}
          /\ UNCHANGED outcome
       \/ Settle({d}, "cancelled")
    /\ UNCHANGED <<pc, tableVars, asker, accepted, reply>>

(* A tap of the user, whose claim is reported in the chat. *)
Tap(d) ==
    /\ d \in Live
    /\ Settle({d}, "value")
    /\ accepted' = accepted \cup {d}
    /\ UNCHANGED <<pc, tableVars, asker, phase, reply>>

(* Only an entry with a time budget expires; the timer runs while it waits.  *)
Expire(d) ==
    /\ d \in Live /\ phase[d] = "waiting"
    /\ Settle({d}, "cancelled")
    /\ UNCHANGED <<pc, tableVars, asker, phase, accepted, reply>>

(* The waiter wakes and responds. *)
Respond(d) ==
    /\ phase[d] = "waiting" /\ outcome[d] # "none"
    /\ phase' = [phase EXCEPT ![d] = "answered"]
    /\ reply' = [reply EXCEPT ![d] = outcome[d]]
    /\ UNCHANGED <<pc, tableVars, asker, outcome, accepted>>

----------------------------------------------------------------------------
(* The end of a handler's call *)

Goto(t, p) == pc' = [pc EXCEPT ![t] = p]

Parked(t) ==
    {d \in Dialogs : asker[d] = t /\ Kinds[t] = "text" /\ phase[d] = "waiting"}

(* Mutant: the dialogs of a turn that is over are left alone. *)
FinishQuietly(t, next) ==
    /\ Goto(t, "done")
    /\ main' = next
    /\ UNCHANGED dialogVars

(* The turn is over: its parked dialogs are aborted. *)
Finish(t, next) ==
    /\ Goto(t, "done")
    /\ main' = next
    /\ Settle(Parked(t), "cancelled")
    /\ UNCHANGED <<asker, phase, accepted, reply>>

Return(t) == Finish(t, IF main = t THEN NoTurn ELSE main)

(* The message reaches the guard, which dispatches it at once when no turn   *)
(* runs, when it is a command of the registry, and when a dialog is live.    *)
Arrive(t) ==
    /\ pc[t] = "idle"
    /\ \/ main = NoTurn /\ main' = t
       \/ /\ main # NoTurn /\ UNCHANGED main
          /\ Kinds[t] # "text" \/ Live # {}
    /\ Goto(t, "ensure")
    /\ UNCHANGED <<drives, current, state, up, raced, dialogVars>>

(* takeText: words typed while a dialog is live answer one, or are nagged    *)
(* about; they never drive a turn.                                           *)
TakeText(t) ==
    /\ pc[t] = "ensure" /\ Kinds[t] = "text" /\ Live # {}
    /\ Goto(t, "done")
    /\ main' = IF main = t THEN NoTurn ELSE main
    /\ \E d \in Live :
        \/ Settle({d}, "value") /\ accepted' = accepted \cup {d}
        \/ UNCHANGED <<outcome, accepted>>
    /\ UNCHANGED <<drives, current, state, up, raced, asker, phase, reply>>

(* The state of the chat's entry, if there is one. *)
Entry == IF current = NoChild THEN "none" ELSE state[current]

Unused == {c \in Children : state[c] = "none"}

(* A new entry takes the chat's place in the table and is started. *)
StartNew(t) ==
    /\ Unused # {}
    /\ LET c == CHOOSE x \in Unused : \A y \in Unused : x <= y IN
        /\ current' = c
        /\ state' = [state EXCEPT ![c] = "starting"]
        /\ drives' = [drives EXCEPT ![t] = c]
        /\ up' = up \cup {c}
    /\ Goto(t, "start")

Stopping == {u \in Turns : pc[u] = "stopping"}

(* The handler takes a ready entry. *)
Drive(t, c) ==
    /\ drives' = [drives EXCEPT ![t] = c]
    /\ state' = [state EXCEPT ![c] = "busy"]
    /\ raced' = (raced \/ Stopping # {})
    /\ Goto(t, "row")

(* handleTurn: spawn converges to one child, and a busy chat fails fast,     *)
(* unless it is parked on a dialog that can be cancelled.  A text without    *)
(* words and an unknown slash word come here whatever dialogs are live.      *)
Dispatch(t) ==
    /\ pc[t] = "ensure"
    /\ Kinds[t] # "path"
    /\ \/ /\ Entry \in {"none", "dead"}
          /\ StartNew(t)
          /\ raced' = (raced \/ Stopping # {})
          /\ UNCHANGED <<main, dialogVars>>
       \/ /\ Entry = "ready"
          /\ Drive(t, current)
          /\ UNCHANGED <<main, current, up, dialogVars>>
       \/ /\ Entry \in {"busy", "starting"}
          /\ Live # {}
          /\ Settle(Live, "cancelled")
          /\ Goto(t, "release")
          /\ UNCHANGED <<tableVars, asker, phase, accepted, reply>>
       \/ /\ Entry \in {"busy", "starting"}
          /\ Live = {}
          /\ Return(t)
          /\ UNCHANGED <<drives, current, state, up, raced>>

(* Mutant: the wait for the release has no end. *)
EntryReleasedForever(t) ==
    /\ pc[t] = "release"
    /\ \/ /\ Entry = "ready"
          /\ Drive(t, current)
          /\ UNCHANGED <<main, current, up, dialogVars>>
       \/ Entry # "ready" /\ UNCHANGED chatVars

(* waitForEntryRelease: the parked turn releases the entry, or not in time.  *)
EntryReleased(t) ==
    /\ pc[t] = "release"
    /\ \/ /\ Entry = "ready"
          /\ Drive(t, current)
          /\ UNCHANGED <<main, current, up, dialogVars>>
       \/ /\ Return(t)
          /\ UNCHANGED <<drives, current, state, up, raced>>

(* startEntry: the caller goes on to take the entry it has started; a start  *)
(* that fails does not stop the process.                                     *)
EntryStarted(t) ==
    /\ pc[t] = "start"
    /\ \/ /\ drives[t] \in up
          /\ state' = [state EXCEPT ![drives[t]] = "busy"]
          /\ Goto(t, "row")
          /\ UNCHANGED <<main, up, dialogVars>>
       \/ /\ state' = [state EXCEPT ![drives[t]] = "dead"]
          /\ Return(t)
          /\ UNCHANGED up
    /\ UNCHANGED <<drives, current, raced>>

(* The user's row is stored, or the entry is given back. *)
Row(t) ==
    /\ pc[t] = "row"
    /\ \/ Goto(t, "work") /\ UNCHANGED <<main, state, dialogVars>>
       \/ /\ state' = [state EXCEPT ![drives[t]] = "ready"]
          /\ Return(t)
    /\ UNCHANGED <<drives, current, up, raced>>

(* The child has answered and the reply is stored.  A text turn gives its    *)
(* own entry back, a command whatever entry is busy by now.  The guard gives *)
(* up the turn a /new has interrupted, whose handler goes on unobserved.     *)
WorkDone(t) ==
    /\ pc[t] = "work" /\ drives[t] \in up
    /\ Kinds[t] = "session" => HasItsAnswers(t)
    /\ state' = IF Kinds[t] = "text" THEN [state EXCEPT ![drives[t]] = "ready"]
                ELSE IF Entry = "busy"
                THEN [state EXCEPT ![current] = "ready"]
                ELSE state
    /\ \/ Return(t)
       \/ Kinds[t] = "session" /\ Finish(t, NoTurn)
    /\ UNCHANGED <<drives, current, up, raced>>

(* A call of the child or of the store fails, or the turn's time is up: the  *)
(* chat's busy entry is probed.                                              *)
WorkFails(t) ==
    /\ pc[t] = "work"
    /\ Kinds[t] = "session" => HasItsAnswers(t)
    /\ \/ /\ Entry = "busy"
          /\ drives' = [drives EXCEPT ![t] = current]
          /\ Goto(t, "probe")
          /\ UNCHANGED <<main, dialogVars>>
       \/ /\ Entry # "busy"
          /\ Return(t)
          /\ UNCHANGED drives
    /\ UNCHANGED <<current, state, up, raced>>

(* getState answers, or throws: the child is gone, or only too slow. *)
Probe(t) ==
    /\ pc[t] = "probe"
    /\ \/ /\ drives[t] \in up
          /\ state' = [state EXCEPT ![drives[t]] = "ready"]
       \/ state' = [state EXCEPT ![drives[t]] = "dead"]
    /\ Return(t)
    /\ UNCHANGED <<drives, current, up, raced>>

(* Mutant: a path command does not look whether the chat is under way. *)
PathUnchecked(t) ==
    /\ pc[t] = "ensure" /\ Kinds[t] = "path"
    /\ \/ /\ current = NoChild
          /\ StartNew(t)
          /\ raced' = (raced \/ Stopping # {})
          /\ UNCHANGED <<main, dialogVars>>
       \/ /\ current # NoChild
          /\ Goto(t, "stopping")
          /\ drives' = [drives EXCEPT ![t] = current]
          /\ raced' = (raced \/ Stopping # {})
          /\ UNCHANGED <<main, current, state, up, dialogVars>>

(* A path command refuses a chat that is under way; otherwise it stops the   *)
(* child and starts another one elsewhere.                                   *)
Path(t) ==
    /\ pc[t] = "ensure" /\ Kinds[t] = "path"
    /\ \/ /\ Entry \in {"busy", "starting"}
          /\ Return(t)
          /\ UNCHANGED <<drives, current, state, up, raced>>
       \/ /\ current = NoChild
          /\ StartNew(t)
          /\ raced' = (raced \/ Stopping # {})
          /\ UNCHANGED <<main, dialogVars>>
       \/ /\ Entry \in {"ready", "dead"}
          /\ Goto(t, "stopping")
          /\ drives' = [drives EXCEPT ![t] = current]
          /\ raced' = (raced \/ Stopping # {})
          /\ UNCHANGED <<main, current, state, up, dialogVars>>

(* registry.stop is through with the child: whatever entry the chat has by   *)
(* now leaves the table, even when the kill failed; the new child starts.    *)
Stopped(t) ==
    /\ pc[t] = "stopping"
    /\ Unused # {}
    /\ LET c == CHOOSE x \in Unused : \A y \in Unused : x <= y
           alive == {up, up \ {drives[t]}}
       IN
        /\ current' = c
        /\ state' = [state EXCEPT ![c] = "starting"]
        /\ drives' = [drives EXCEPT ![t] = c]
        /\ \E survivors \in alive : up' = survivors \cup {c}
    /\ Goto(t, "start")
    /\ UNCHANGED <<main, raced, dialogVars>>

ChildDies(c) ==
    /\ c \in up
    /\ up' = up \ {c}
    /\ UNCHANGED <<pc, main, drives, current, state, raced, dialogVars>>

(* Every message has been handled, or waits for a child the bound forbids.   *)
AtRest ==
    /\ \A t \in Turns :
        \/ pc[t] = "done"
        \/ pc[t] \in {"ensure", "stopping"} /\ Unused = {}
        \/ pc[t] = "idle" /\ main # NoTurn
    /\ \A d \in Dialogs : phase[d] \in {"none", "answered"}
    /\ UNCHANGED chatVars

Handler(t) ==
    \/ TakeText(t) \/ Dispatch(t) \/ EntryReleased(t) \/ EntryStarted(t) \/ Row(t)
    \/ WorkDone(t) \/ WorkFails(t) \/ Probe(t) \/ Path(t) \/ Stopped(t)

ChatNext ==
    \/ \E t \in Turns : Arrive(t) \/ Handler(t)
    \/ \E d \in Dialogs :
        \/ \E t \in Turns : AskDialog(d, t)
        \/ Sent(d) \/ Tap(d) \/ Expire(d) \/ Respond(d)
    \/ \E c \in Children : ChildDies(c)
    \/ AtRest

(* Waits are bounded: by the turn's budget, by the budgets of the RPC calls, *)
(* and for the dialog of a command by its own timer.                         *)
ChatSpec ==
    /\ ChatInit /\ [][ChatNext]_chatVars
    /\ \A t \in Turns : WF_chatVars(Handler(t))
    /\ \A d \in Dialogs : WF_chatVars(Sent(d)) /\ WF_chatVars(Respond(d))
    /\ \A d \in Dialogs :
        WF_chatVars(asker[d] # NoTurn /\ Kinds[asker[d]] = "session" /\ Expire(d))

----------------------------------------------------------------------------
ChatTypeOK ==
    /\ pc \in [Turns -> {"idle", "ensure", "start", "release", "row", "work",
                         "probe", "stopping", "done"}]
    /\ main \in Turns \cup {NoTurn}
    /\ drives \in [Turns -> Children \cup {NoChild}]
    /\ current \in Children \cup {NoChild}
    /\ state \in [Children -> {"none", "starting", "ready", "busy", "dead"}]
    /\ up \subseteq Children
    /\ asker \in [Dialogs -> Turns \cup {NoTurn}]
    /\ phase \in [Dialogs -> {"none", "sending", "waiting", "answered"}]
    /\ outcome \in [Dialogs -> {"none", "value", "cancelled"}]
    /\ accepted \subseteq Dialogs
    /\ reply \in [Dialogs -> {"none", "value", "cancelled"}]
    /\ raced \in BOOLEAN

Driving(t) == pc[t] \in {"row", "work", "probe"}

(* While no path command has stopped a child under another turn, a child is  *)
(* driven by one turn at a time, and a busy entry always has a turn that     *)
(* will give it back: no exit path of a handler wedges the chat, and none    *)
(* gives back an entry that a later turn has taken.                          *)
BusyIsOwned ==
    /\ ChatTypeOK
    /\ ~raced =>
        /\ \A t, u \in Turns :
            Driving(t) /\ Driving(u) /\ drives[t] = drives[u] => t = u
        /\ \A c \in Children :
            state[c] = "busy" => \E t \in Turns : Driving(t) /\ drives[t] = c

(* A tap or a typed line that was reported as taken is what the asker gets,  *)
(* and the asker never gets a value that no user gave: timeouts, aborts,     *)
(* takeovers and late taps settle a dialog only once.                        *)
DialogsHonest ==
    \A d \in Dialogs :
        phase[d] = "answered" => (reply[d] = "value" <=> d \in accepted)

(* Every handler's call returns, whatever the child and the user do (up to   *)
(* the bound on the children).                                               *)
EveryTurnReturns ==
    \A t \in Turns : [](pc[t] = "ensure" =>
        <>(pc[t] = "done" \/ (Unused = {} /\ pc[t] \in {"ensure", "stopping"})))

(* Every dialog is answered, with cancelled if need be, so no child and no   *)
(* command waits for a user who has gone.                                    *)
EveryDialogSettles ==
    \A d \in Dialogs : [](phase[d] = "sending" => <>(phase[d] = "answered"))

(* The chat has one child: two live children are unrepresentable. *)
OneChild == up \subseteq {current}

(* A child is driven by one turn at a time, whatever path commands do. *)
OneDriver ==
    \A t, u \in Turns :
        Driving(t) /\ Driving(u) /\ drives[t] = drives[u] => t = u
=============================================================================
