-------------------------- MODULE FencedTranscript --------------------------
(***************************************************************************)
(* What the turn lease of pi_state/leases.ts promises to the transcript:   *)
(* a conversation has at most one owner, a row lands only from the owner,  *)
(* and ownership passes on by being taken over or given up, never shared.  *)
(***************************************************************************)
CONSTANTS Conversations, Turns, Nobody

VARIABLES owner,   \* owner[c]: the turn that may write, or Nobody
          tail     \* tail[c]: the turn that wrote the newest row, or Nobody

Init == /\ owner = [c \in Conversations |-> Nobody]
        /\ tail  = [c \in Conversations |-> Nobody]

Take(c, t) == /\ owner' = [owner EXCEPT ![c] = t]
              /\ UNCHANGED tail

Yield(C) == /\ owner' = [c \in Conversations |->
                            IF c \in C THEN Nobody ELSE owner[c]]
            /\ UNCHANGED tail

Land(c) == /\ owner[c] \in Turns
           /\ tail' = [tail EXCEPT ![c] = owner[c]]
           /\ UNCHANGED owner

Next == \/ \E c \in Conversations, t \in Turns : Take(c, t)
        \/ \E C \in SUBSET Conversations : Yield(C)
        \/ \E c \in Conversations : Land(c)

Spec == Init /\ [][Next]_<<owner, tail>>
=============================================================================
