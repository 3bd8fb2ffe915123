---------------------------- MODULE SerialTurns ----------------------------
(***************************************************************************)
(* What one chat session expects of its adapter: messages are answered in  *)
(* turns, one turn at a time, in order; what arrives during a turn waits   *)
(* and is answered, all together, by the next one.  A session never goes   *)
(* idle while something waits.                                             *)
(***************************************************************************)
EXTENDS Sequences

CONSTANT Message

VARIABLES waiting,   \* what arrived during the current turn, in order
          turn,      \* the messages of the current turn, <<>> when idle
          served     \* every message handed to a turn so far, in order

Init == waiting = <<>> /\ turn = <<>> /\ served = <<>>

\* An idle session answers at once, a busy one lets the message wait.
Accept(m) == /\ turn = <<>>
             /\ waiting = <<>>
             /\ turn' = <<m>>
             /\ served' = Append(served, m)
             /\ UNCHANGED waiting

Wait(m) == /\ turn # <<>>
           /\ waiting' = Append(waiting, m)
           /\ UNCHANGED <<turn, served>>

Handoff == /\ turn # <<>>
           /\ waiting # <<>>
           /\ turn' = waiting
           /\ served' = served \o waiting
           /\ waiting' = <<>>

Rest == /\ turn # <<>>
        /\ waiting = <<>>
        /\ turn' = <<>>
        /\ UNCHANGED <<waiting, served>>

Next == \/ \E m \in Message : Accept(m) \/ Wait(m)
        \/ Handoff
        \/ Rest

Spec == Init /\ [][Next]_<<waiting, turn, served>>
=============================================================================
