----------------------------- MODULE Approvals -----------------------------
(* The approval of dangerous commands in one chat session: the queue of      *)
(* pending entries (pi_embedded/approvals/queue.ts), the gate that every     *)
(* tool call of the agent blocks in (gate.ts), the bridge that registers the *)
(* session for the time of a run (bridge.ts), the prompt's card or text      *)
(* (delivery.ts), and the surfaces that answer (surfaces.ts).  A gate call   *)
(* runs alone from one await to the next; each stretch is one action, and    *)
(* answers, interrupts and the ends of runs come in between.                 *)
(* ApprovalsInit, ApprovalsNext and the like are named so since the theorems of the *)
(* module stand beside those of another one.                                 *)
EXTENDS Naturals, Sequences, SequencesExt

CONSTANTS
    Asks,      \* calls of the gate; also the request id and the card of each
    Commands,  \* (command, patternKeys), the identity that coalesces
    Wants      \* the command every call asks about

None == "none"    \* no entry, no answer, no command

ASSUME WantsAssumption == Wants \in [Asks -> Commands] /\ None \notin Commands

VARIABLES
    pc,          \* the await every call is suspended at
    lead,        \* the call whose entry a coalesced call waits for
    queue,       \* the session's pending entries, oldest first
    result,      \* the decision slot of every entry
    done,        \* the entries that have been settled
    verdict,     \* what every call decided
    cards,       \* the prompts whose buttons the ledger still knows
    registered,  \* whether a run has registered the session
    interrupted  \* the user's interrupt signal

approvalsVars == <<pc, lead, queue, result, done, verdict, cards, registered,
          interrupted>>

Answers == {"once", "session", "deny"}
Pcs == {"idle", "pre", "notify", "wait", "coalesce", "follow", "back"}
Pending == ToSet(queue)

ApprovalsTypeOK ==
    /\ pc \in [Asks -> Pcs]
    /\ lead \in [Asks -> Asks \cup {None}]
    /\ queue \in Seq(Asks)
    /\ result \in [Asks -> Answers \cup {None}]
    /\ done \subseteq Asks /\ cards \subseteq Asks
    /\ verdict \in [Asks -> Answers \cup {"timeout", "failed", None}]
    /\ registered \in BOOLEAN /\ interrupted \in BOOLEAN

ApprovalsInit ==
    /\ pc = [a \in Asks |-> "idle"]
    /\ lead = [a \in Asks |-> None]
    /\ queue = <<>>
    /\ result = [a \in Asks |-> None]
    /\ done = {} /\ cards = {}
    /\ verdict = [a \in Asks |-> None]
    /\ registered = FALSE /\ interrupted = FALSE

----------------------------------------------------------------------------
(* The gate *)

Goto(a, p) == pc' = [pc EXCEPT ![a] = p]

Identical(a) == {i \in 1..Len(queue) : Wants[queue[i]] = Wants[a]}

\* Coalesce with the oldest identical entry, or queue one of one's own.
Ask(a) ==
    /\ pc[a] = "idle"
    /\ IF Identical(a) = {}
       THEN /\ queue' = Append(queue, a)
            /\ Goto(a, "pre")
            /\ UNCHANGED lead
       ELSE /\ \E i \in Identical(a) :
                  /\ \A j \in Identical(a) : i <= j
                  /\ lead' = [lead EXCEPT ![a] = queue[i]]
            /\ Goto(a, "coalesce")
            /\ UNCHANGED queue
    /\ UNCHANGED <<result, done, verdict, cards, registered, interrupted>>

Close(a, v) ==
    /\ verdict' = [verdict EXCEPT ![a] = v]
    /\ Goto(a, "back")

DropEntry(a) == queue' = RemoveFirst(queue, a)

Unanswered(r) == IF r = None THEN "timeout" ELSE r

\* The loop's first look, and its look after a slice in which nothing came:
\* an interrupt denies, whatever the decision slot says.
DenyInterrupted(a) ==
    /\ interrupted
    /\ result' = [result EXCEPT ![a] = "deny"]
    /\ done' = done \cup {a}
    /\ DropEntry(a)
    /\ Close(a, "deny")

\* Plausible bug: a prompt nobody could be shown stays in the queue.
NotifyKeepsEntry(a) ==
    /\ pc[a] = "pre"
    /\ IF registered
       THEN Goto(a, "notify") /\ UNCHANGED verdict
       ELSE Close(a, "failed")
    /\ UNCHANGED <<lead, queue, result, done, cards, registered, interrupted>>

\* The pre hook is done; without a registration there is nobody to prompt.
Notify(a) ==
    /\ pc[a] = "pre"
    /\ IF registered
       THEN Goto(a, "notify") /\ UNCHANGED <<queue, verdict>>
       ELSE DropEntry(a) /\ Close(a, "failed")
    /\ UNCHANGED <<lead, result, done, cards, registered, interrupted>>

\* The prompt has gone out as a card (sent, or possibly sent), as text, or
\* not at all; the wait begins in any case.
Prompted(a) ==
    /\ pc[a] = "notify"
    /\ cards' \in {cards, cards \cup {a}}
    /\ \/ DenyInterrupted(a)
       \/ /\ ~interrupted
          /\ Goto(a, "wait")
          /\ UNCHANGED <<queue, result, done, verdict>>
    /\ UNCHANGED <<lead, registered, interrupted>>

\* The wait ends: the entry was settled, or a slice ended in an interrupt or
\* at the deadline.
WaitEnds(a) ==
    /\ pc[a] = "wait"
    /\ \/ /\ a \in done
          /\ DropEntry(a)
          /\ Close(a, Unanswered(result[a]))
          /\ UNCHANGED <<result, done>>
       \/ /\ a \notin done
          /\ DenyInterrupted(a)
       \/ /\ a \notin done /\ ~interrupted
          /\ DropEntry(a)
          /\ Close(a, "timeout")
          /\ UNCHANGED <<result, done>>
    /\ UNCHANGED <<lead, cards, registered, interrupted>>

FollowLooks(a) ==
    /\ pc[a] = "coalesce"
    /\ IF interrupted THEN Close(a, "deny") ELSE Goto(a, "follow") /\ UNCHANGED verdict
    /\ UNCHANGED <<lead, queue, result, done, cards, registered, interrupted>>

\* Plausible bug: a single-use answer is adopted like the others.
AdoptOnce(a) ==
    /\ pc[a] = "follow" /\ lead[a] \in done
    /\ Close(a, Unanswered(result[lead[a]]))
    /\ UNCHANGED <<lead, queue, result, done, cards, registered, interrupted>>

\* The leader's answer is adopted, unless it was single-use: then the call
\* asks for itself, and does not look for an identical entry again.
Adopt(a) ==
    /\ pc[a] = "follow" /\ lead[a] \in done
    /\ IF result[lead[a]] = "once"
       THEN /\ queue' = Append(queue, a)
            /\ Goto(a, "pre")
            /\ lead' = [lead EXCEPT ![a] = None]
            /\ UNCHANGED verdict
       ELSE Close(a, Unanswered(result[lead[a]])) /\ UNCHANGED <<queue, lead>>
    /\ UNCHANGED <<result, done, cards, registered, interrupted>>

\* Plausible bug: a follower leaves the deadline to its leader.
FollowForever(a) ==
    /\ pc[a] = "follow" /\ lead[a] \notin done
    /\ interrupted
    /\ Close(a, "deny")
    /\ UNCHANGED <<lead, queue, result, done, cards, registered, interrupted>>

FollowEnds(a) ==
    /\ pc[a] = "follow" /\ lead[a] \notin done
    /\ Close(a, IF interrupted THEN "deny" ELSE "timeout")
    /\ UNCHANGED <<lead, queue, result, done, cards, registered, interrupted>>

Gate(a) == \/ Notify(a) \/ Prompted(a) \/ WaitEnds(a)
           \/ FollowLooks(a) \/ Adopt(a) \/ FollowEnds(a)

----------------------------------------------------------------------------
(* Answers *)

\* THE resolution primitive: the entries that leave the queue are settled.
Resolve(rest, c) ==
    LET targets == Pending \ ToSet(rest)
    IN /\ queue' = rest
       /\ result' = [b \in Asks |-> IF b \in targets THEN c ELSE result[b]]
       /\ done' = done \cup targets

AfterOldest == IF queue = <<>> THEN <<>> ELSE Tail(queue)

\* /approve, /deny and the bare words, for the oldest entry or for all.
Command(c, all) ==
    /\ queue # <<>>
    /\ Resolve(IF all THEN <<>> ELSE AfterOldest, c)
    /\ UNCHANGED <<pc, lead, verdict, cards, registered, interrupted>>

\* A button: the card's binding is consumed, the oldest entry resolved.
Tap(a, c) ==
    /\ a \in cards /\ registered
    /\ cards' = cards \ {a}
    /\ Resolve(AfterOldest, c)
    /\ UNCHANGED <<pc, lead, verdict, registered, interrupted>>

\* The API's lane names the request.
ApiResolve(a, c) ==
    /\ a \in Pending /\ Resolve(RemoveFirst(queue, a), c)
    /\ UNCHANGED <<pc, lead, verdict, cards, registered, interrupted>>

----------------------------------------------------------------------------
(* The run *)

Register ==
    /\ ~registered /\ registered' = TRUE
    /\ UNCHANGED <<pc, lead, queue, result, done, verdict, cards,
                   interrupted>>

\* The end of a run releases whoever still waits, without a decision.
Unregister ==
    /\ registered /\ registered' = FALSE
    /\ queue' = <<>>
    /\ done' = done \cup Pending
    /\ UNCHANGED <<pc, lead, result, verdict, cards, interrupted>>

\* The end of a session denies whoever still waits.
ClearSession ==
    /\ Resolve(<<>>, "deny")
    /\ registered' = FALSE
    /\ registered \/ queue # <<>>
    /\ UNCHANGED <<pc, lead, verdict, cards, interrupted>>

Interrupt ==
    /\ interrupted' = ~interrupted
    /\ UNCHANGED <<pc, lead, queue, result, done, verdict, cards,
                   registered>>

ApprovalsNext ==
    \/ \E a \in Asks : Ask(a) \/ Gate(a)
    \/ \E c \in Answers, all \in BOOLEAN : Command(c, all)
    \/ \E a \in Asks, c \in Answers : Tap(a, c) \/ ApiResolve(a, c)
    \/ Register \/ Unregister \/ ClearSession \/ Interrupt

\* Hooks return, sends are bounded by their classification timeout and
\* slices by the clock, so a call that is suspended goes on.
Fairness == \A a \in Asks : WF_approvalsVars(Gate(a))

ApprovalsSpec == ApprovalsInit /\ [][ApprovalsNext]_approvalsVars /\ Fairness

----------------------------------------------------------------------------
(* Properties *)

\* Queue and waits agree: an entry is pending exactly while a call is on its
\* way to a prompt or waits at one and has not been settled, and it is
\* pending once.  So an answer that is reported as having resolved something
\* was taken by a call that had not been decided, and a call that waits can
\* be answered.
Answerable ==
    /\ ApprovalsTypeOK
    /\ Pending = {a \in Asks : pc[a] \in {"pre", "notify", "wait"} /\ a \notin done}
    /\ \A i, j \in 1..Len(queue) : queue[i] = queue[j] => i = j

Consents == INSTANCE Consent WITH given <- result,
    cmd <- [a \in Asks |-> IF pc[a] = "idle" THEN None ELSE Wants[a]]

\* The gate implements the consent its user is promised: an answer for once
\* runs one call, a refusal, a timeout, an interrupt, a failed prompt and the
\* end of the run refuse, and no call runs under an answer for another command.
ImplementsConsent == Consents!Spec

\* No call hangs in the gate, whatever becomes of its leader, its prompt or
\* its run.
EveryAskReturns == \A a \in Asks : (pc[a] # "idle") ~> (pc[a] = "back")

\* surfaces.ts promises that a stale tap never claims "Approved" for a command
\* that will not run: when a tap on the card of a call resolves something,
\* that call has not been decided.
TapIsHonest ==
    [][\A a \in cards \ cards' : Len(queue') < Len(queue) => verdict[a] = None]_approvalsVars
=============================================================================
