------------------------------ MODULE Consent ------------------------------
(***************************************************************************)
(* What dangerous commands are promised: a command runs only under an      *)
(* answer of the user.  An answer "once" lets exactly the ask it was given *)
(* for run; an answer "session" also covers other asks for the same        *)
(* command; a refusal stands; and whatever goes wrong refuses.             *)
(***************************************************************************)
CONSTANTS Asks, Commands

VARIABLES cmd,      \* what every ask wants to run
          given,    \* the answer given to the prompt of every ask
          verdict   \* how every ask ended

Granted == {"once", "session"}
Refused == {"deny", "timeout", "failed"}

Init == /\ cmd = [a \in Asks |-> "none"]
        /\ given = [a \in Asks |-> "none"]
        /\ verdict = [a \in Asks |-> "none"]

Ask(a, c) == /\ cmd[a] = "none"
             /\ cmd' = [cmd EXCEPT ![a] = c]
             /\ UNCHANGED <<given, verdict>>

\* One answer may settle several open prompts; only a refusal replaces an
\* answer that is on its way.
Answer(S, c) == /\ \A a \in S : /\ verdict[a] = "none"
                                /\ given[a] = "none" \/ c = "deny"
                /\ given' = [a \in Asks |-> IF a \in S THEN c ELSE given[a]]
                /\ UNCHANGED <<cmd, verdict>>

Covered(a, v) == \/ v = given[a]
                 \/ /\ given[a] = "none" /\ v = "session"
                    /\ \E b \in Asks : cmd[b] = cmd[a] /\ given[b] = "session"

Decide(a, v) == /\ cmd[a] # "none" /\ verdict[a] = "none"
                /\ v \in Refused \/ Covered(a, v)
                /\ verdict' = [verdict EXCEPT ![a] = v]
                /\ \/ UNCHANGED given
                   \/ v = "deny" /\ given' = [given EXCEPT ![a] = "deny"]
                /\ UNCHANGED cmd

Next == \/ \E a \in Asks, c \in Commands : Ask(a, c)
        \/ \E S \in SUBSET Asks, c \in Granted \cup {"deny"} : Answer(S, c)
        \/ \E a \in Asks, v \in Granted \cup Refused : Decide(a, v)

Spec == Init /\ [][Next]_<<cmd, given, verdict>>
=============================================================================
