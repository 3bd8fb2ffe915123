------------------------------ MODULE MCL1Guard ------------------------------
(* What four messages may be: plain traffic of one sender, session commands  *)
(* among the texts of two senders, and the debounced texts of two or three.  *)
EXTENDS L1Guard, FiniteSets

Traffic(kinds, senders, queue) ==
    [kind : [Message -> kinds], sender : [Message -> senders], queue : {queue}]

PlainTraffic == Traffic({"text", "photo", "inline"}, {"a"}, FALSE)
FewCommands(traffics) ==
    {t \in traffics : Cardinality({m \in Message : t.kind[m] = "new"}) \in 1..2}
CommandTraffic == FewCommands(Traffic({"text", "new"}, {"a"}, FALSE))
QueueTraffic == Traffic({"text"}, {"a", "b"}, TRUE)
MixedTraffic == FewCommands(Traffic({"text", "new"}, {"a"}, TRUE))
CrowdedTraffic == Traffic({"text"}, {"a", "b", "c"}, TRUE)

(* Bursts of two speakers into which one of them sends a photo.               *)
PhotoQueueTraffic ==
    {t \in Traffic({"text", "photo"}, {"a", "b"}, TRUE) :
        /\ t.kind[1] = "text" /\ t.sender[1] = "a"
        /\ Cardinality({m \in Message : t.kind[m] = "photo"}) = 1}

(* A command after text, and a sticker or the like, which replaces text.     *)
StickerTraffic ==
    {t \in Traffic({"text", "other", "new"}, {"a"}, FALSE) :
        /\ t.kind[1] = "text" /\ t.kind[2] # "text"
        /\ \E m \in Message : t.kind[m] = "other"
        /\ Cardinality({m \in Message : t.kind[m] = "new"}) = 1}

SomeTraffic == PlainTraffic \cup CommandTraffic \cup QueueTraffic
                 \cup MixedTraffic \cup PhotoQueueTraffic
                 \cup StickerTraffic
=============================================================================
