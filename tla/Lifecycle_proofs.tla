-------------------------- MODULE Lifecycle_proofs --------------------------
(* The life of the process and of the children it drives.  What the drain    *)
(* saves and what its receipt says, for any number of messages, boots and    *)
(* faults; and that a busy child is owned and a dialog honestly told, for    *)
(* any number of turns, children and dialogs.                                *)
EXTENDS Drain, ChatTurns, TLAPS, WellFoundedInduction

----------------------------------------------------------------------------
(* DRAIN AND RECEIPT *)

Past == {"flush", "close", "receipt", "join", "release", "over"}

(* A file is deleted only for a message that is in the database.              *)
InsertedFirst == proc.boot = "unlink" => proc.now \in Messages /\ rows[proc.now] > 0

(* No process, no memory; what is registered after the flush is given up.     *)
SlotsCovered ==
    /\ proc.boot = "none" => proc.slots = {}
    /\ proc.drain \in Past \ {"flush"} => proc.slots \subseteq gone

(* What the receipt hides is known to be hidden, at every stage of a boot.    *)
Hidden ==
    (receipt \/ proc.boot \in {"clean", "identity", "done"}) /\ unfinished => blind

(* A receipt beside a boot that has decided is one its own drain has written, *)
(* after a wait that saw the last run it had to see.                          *)
OwnReceipt ==
    /\ proc.signals = 0 => proc.drain = "idle"
    /\ proc.drain \in Past /\ ~ proc.timedOut => proc.run # "counted"
    /\ proc.drain = "receipt" => ~ proc.timedOut
    /\ proc.boot \in {"unclean", "identity", "done"} /\ receipt /\ ~ proc.stale
         => proc.drain \in {"join", "release", "over"} /\ ~ proc.timedOut

Inv == TypeOK /\ Saved /\ InsertedFirst /\ SlotsCovered /\ Hidden /\ OwnReceipt

(* The memory of a process that is not there has its type. *)
LEMMA NobodyTyped == Nobody \in Proc
  BY DEF Nobody, Proc, None

(* So has the memory of a process that has just been started. *)
LEMMA StarterTyped == [Nobody EXCEPT !.boot = "lock"] \in Proc
  BY NobodyTyped DEF Proc

(* A process that is not there holds nothing and does nothing. *)
LEMMA NobodyEmpty ==
    /\ Nobody.slots = {} /\ Nobody.boot = "none" /\ Nobody.run = "none"
    /\ Nobody.drain = "idle"
  BY DEF Nobody

(* Nor does one that has just been started. *)
LEMMA StarterEmpty ==
    /\ [Nobody EXCEPT !.boot = "lock"].slots = {}
    /\ [Nobody EXCEPT !.boot = "lock"].boot = "lock"
    /\ [Nobody EXCEPT !.boot = "lock"].drain = "idle"
  BY DEF Nobody

(* The invariant holds in the first state. *)
LEMMA InvInit == Init => Inv
<1>. SUFFICES ASSUME Init PROVE Inv
  OBVIOUS
<1>1. TypeOK
  <2>1. proc \in Proc
    BY NobodyTyped DEF Init
  <2>2. boots \in 0..MaxBoots /\ faults \in 0..MaxFaults
    BY DrainAssumption DEF Init
  <2>3. rows \in [Messages -> Nat]
    BY DEF Init
  <2>. QED
    BY <2>1, <2>2, <2>3 DEF Init, TypeOK
<1>2. Saved /\ InsertedFirst /\ SlotsCovered /\ Hidden /\ OwnReceipt
  BY DEF Init, Nobody, Saved, InsertedFirst, SlotsCovered, Hidden, OwnReceipt, Past
<1>. QED
  BY <1>1, <1>2 DEF Inv

(* Every step keeps the types. *)
LEMMA TypeStep == Inv /\ [Next]_vars => TypeOK'
<1>. SUFFICES ASSUME Inv, [Next]_vars PROVE TypeOK'
  OBVIOUS
<1>. USE DrainAssumption DEF Inv, vars, disk, History, Fault, NoFault, TypeOK, Proc, None
<1>1. CASE Started
  BY <1>1, StarterTyped DEF Started, Alive
<1>2. CASE HomeClaimed
  BY <1>2 DEF HomeClaimed
<1>3. CASE DatabaseOpened
  BY <1>3 DEF DatabaseOpened
<1>4. ASSUME NEW m \in Messages, Kept(m) PROVE TypeOK'
  BY <1>4 DEF Kept
<1>5. ASSUME NEW m \in Messages, Replayed(m) PROVE TypeOK'
  <2>1. proc' \in Proc
    BY <1>5 DEF Replayed
  <2>2. rows' \in [Messages -> Nat]
    BY <1>5 DEF Replayed
  <2>3. boots' \in 0..MaxBoots /\ faults' \in 0..MaxFaults
    BY <1>5 DEF Replayed
  <2>. QED
    BY <1>5, <2>1, <2>2, <2>3 DEF Replayed
<1>6. CASE Unlinked
  <2>1. proc' \in Proc
    BY <1>6 DEF Unlinked
  <2>2. /\ files' \subseteq Messages /\ known' \subseteq Messages /\ gone' \subseteq Messages
        /\ rows' \in [Messages -> Nat]
        /\ receipt' \in BOOLEAN /\ unfinished' \in BOOLEAN /\ blind' \in BOOLEAN
    BY <1>6 DEF Unlinked
  <2>3. boots' \in 0..MaxBoots /\ faults' \in 0..MaxFaults
    BY <1>6 DEF Unlinked
  <2>. QED
    BY <2>1, <2>2, <2>3
<1>7. CASE TickerStarted
  BY <1>7 DEF TickerStarted
<1>8. CASE AdaptersConnected
  BY <1>8 DEF AdaptersConnected
<1>9. CASE ReceiptRead
  BY <1>9 DEF ReceiptRead
<1>10. CASE ReceiptConsumed
  <2>1. proc' \in Proc
    <3>1. CASE proc' = [proc EXCEPT !.boot = "identity"]
      BY <3>1
    <3>2. CASE proc' = [proc EXCEPT !.boot = "identity", !.stale = TRUE]
      BY <3>2
    <3>. QED
      BY <1>10, <3>1, <3>2 DEF ReceiptConsumed
  <2>2. /\ files' \subseteq Messages /\ known' \subseteq Messages /\ gone' \subseteq Messages
        /\ rows' \in [Messages -> Nat]
        /\ receipt' \in BOOLEAN /\ unfinished' \in BOOLEAN /\ blind' \in BOOLEAN
    BY <1>10 DEF ReceiptConsumed
  <2>3. boots' \in 0..MaxBoots /\ faults' \in 0..MaxFaults
    BY <1>10 DEF ReceiptConsumed
  <2>. QED
    BY <2>1, <2>2, <2>3
<1>11. CASE StartupAborted
  <2>1. proc' \in Proc
    BY <1>11 DEF StartupAborted
  <2>2. /\ files' \subseteq Messages /\ known' \subseteq Messages /\ gone' \subseteq Messages
        /\ rows' \in [Messages -> Nat]
        /\ receipt' \in BOOLEAN /\ unfinished' \in BOOLEAN /\ blind' \in BOOLEAN
    BY <1>11 DEF StartupAborted
  <2>3. boots' \in 0..MaxBoots /\ faults' \in 0..MaxFaults
    BY <1>11 DEF StartupAborted
  <2>. QED
    BY <2>1, <2>2, <2>3
<1>12. CASE Recovered
  BY <1>12 DEF Recovered
<1>13. ASSUME NEW m \in Messages, Registers(m) PROVE TypeOK'
  BY <1>13 DEF Registers, Alive, Waiting
<1>14. CASE RunStarts
  BY <1>14 DEF RunStarts, Waiting
<1>15. CASE RunEnds
  BY <1>15 DEF RunEnds
<1>16. CASE Dies
  BY <1>16, NobodyTyped DEF Dies
<1>17. CASE Signalled
  <2>1. proc' = [proc EXCEPT !.signals = 1, !.drain = "ingress"]
    BY <1>17 DEF Signalled
  <2>2. /\ files' \subseteq Messages /\ known' \subseteq Messages /\ gone' \subseteq Messages
        /\ rows' \in [Messages -> Nat]
        /\ receipt' \in BOOLEAN /\ unfinished' \in BOOLEAN /\ blind' \in BOOLEAN
    BY <1>17 DEF Signalled
  <2>3. boots' \in 0..MaxBoots /\ faults' \in 0..MaxFaults
    BY <1>17 DEF Signalled
  <2>4. proc' \in Proc
    BY <2>1
  <2>. QED
    BY <2>2, <2>3, <2>4
<1>18. CASE IngressStopped
  <2>1. proc' \in Proc
    <3>1. CASE proc' = [proc EXCEPT !.drain = "wait", !.up = FALSE]
      BY <3>1
    <3>2. CASE proc' = [proc EXCEPT !.drain = "wait"]
      BY <3>2
    <3>. QED
      BY <1>18, <3>1, <3>2 DEF IngressStopped
  <2>2. /\ files' \subseteq Messages /\ known' \subseteq Messages /\ gone' \subseteq Messages
        /\ rows' \in [Messages -> Nat]
        /\ receipt' \in BOOLEAN /\ unfinished' \in BOOLEAN /\ blind' \in BOOLEAN
    BY <1>18 DEF IngressStopped
  <2>3. boots' \in 0..MaxBoots /\ faults' \in 0..MaxFaults
    BY <1>18 DEF IngressStopped
  <2>. QED
    BY <2>1, <2>2, <2>3
<1>19. CASE WaitEnds
  BY <1>19 DEF WaitEnds
<1>20. CASE PendingFlushed
  <2>1. proc' \in Proc
    BY <1>20 DEF PendingFlushed
  <2>2. /\ files' \subseteq Messages /\ known' \subseteq Messages /\ gone' \subseteq Messages
        /\ rows' \in [Messages -> Nat]
        /\ receipt' \in BOOLEAN /\ unfinished' \in BOOLEAN /\ blind' \in BOOLEAN
    BY <1>20 DEF PendingFlushed
  <2>3. boots' \in 0..MaxBoots /\ faults' \in 0..MaxFaults
    BY <1>20 DEF PendingFlushed
  <2>. QED
    BY <2>1, <2>2, <2>3
<1>21. CASE DatabaseClosed
  BY <1>21 DEF DatabaseClosed, Join
<1>22. CASE ReceiptWritten
  <2>1. proc' \in Proc
    BY <1>22 DEF ReceiptWritten, Join, PastRecovery
  <2>2. /\ files' \subseteq Messages /\ known' \subseteq Messages /\ gone' \subseteq Messages
        /\ rows' \in [Messages -> Nat]
        /\ receipt' \in BOOLEAN /\ unfinished' \in BOOLEAN /\ blind' \in BOOLEAN
    BY <1>22 DEF ReceiptWritten
  <2>3. boots' \in 0..MaxBoots /\ faults' \in 0..MaxFaults
    BY <1>22 DEF ReceiptWritten
  <2>. QED
    BY <2>1, <2>2, <2>3
<1>23. CASE Joined
  BY <1>23 DEF Joined
<1>24. CASE Released
  BY <1>24 DEF Released
<1>25. CASE Exits
  BY <1>25, NobodyTyped DEF Exits
<1>26. CASE UNCHANGED vars
  BY <1>26
<1>27. CASE IdentityStamped
  BY <1>27 DEF IdentityStamped
<1>. QED
  BY <1>1, <1>2, <1>3, <1>4, <1>5, <1>6, <1>7, <1>8, <1>9, <1>10, <1>11, <1>12, <1>13, <1>14,
     <1>15, <1>16, <1>17, <1>18, <1>19, <1>20, <1>21, <1>22, <1>23, <1>24, <1>25, <1>26, <1>27
     DEF Next, Boots, Drains, Crashes, Escalated, WatchdogFires

(* No step loses a message. *)
LEMMA SavedStep == Inv /\ [Next]_vars => Saved'
<1>. SUFFICES ASSUME Inv, [Next]_vars PROVE Saved'
  OBVIOUS
<1>. USE DrainAssumption DEF Inv, vars, disk, History, Fault, NoFault, TypeOK, Proc, Saved,
   InsertedFirst, SlotsCovered, Past
<1>1. CASE Started
  <2>1. proc.slots = {} /\ proc'.slots = {}
    BY <1>1, StarterEmpty DEF Started, Alive
  <2>. QED
    BY <1>1, <2>1 DEF Started
<1>2. CASE HomeClaimed
  BY <1>2 DEF HomeClaimed
<1>3. CASE DatabaseOpened
  BY <1>3 DEF DatabaseOpened
<1>4. ASSUME NEW m \in Messages, Kept(m) PROVE Saved'
  BY <1>4 DEF Kept
<1>5. ASSUME NEW m \in Messages, Replayed(m) PROVE Saved'
  BY <1>5 DEF Replayed
<1>6. CASE Unlinked
  BY <1>6 DEF Unlinked
<1>7. CASE TickerStarted
  BY <1>7 DEF TickerStarted
<1>8. CASE AdaptersConnected
  BY <1>8 DEF AdaptersConnected
<1>9. CASE ReceiptRead
  BY <1>9 DEF ReceiptRead
<1>10. CASE ReceiptConsumed
  BY <1>10 DEF ReceiptConsumed
<1>11. CASE StartupAborted
  BY <1>11 DEF StartupAborted
<1>12. CASE Recovered
  BY <1>12 DEF Recovered
<1>13. ASSUME NEW m \in Messages, Registers(m) PROVE Saved'
  BY <1>13 DEF Registers, Alive, Waiting
<1>14. CASE RunStarts
  BY <1>14 DEF RunStarts, Waiting
<1>15. CASE RunEnds
  BY <1>15 DEF RunEnds
<1>16. CASE Dies
  BY <1>16 DEF Dies, Nobody, Unseen, PastRecovery
<1>17. CASE Signalled
  BY <1>17 DEF Signalled, Alive
<1>18. CASE IngressStopped
  BY <1>18 DEF IngressStopped
<1>19. CASE WaitEnds
  BY <1>19 DEF WaitEnds
<1>20. CASE PendingFlushed
  BY <1>20 DEF PendingFlushed
<1>21. CASE DatabaseClosed
  BY <1>21 DEF DatabaseClosed, Join
<1>22. CASE ReceiptWritten
  BY <1>22 DEF ReceiptWritten, Join, PastRecovery
<1>23. CASE Joined
  BY <1>23 DEF Joined
<1>24. CASE Released
  BY <1>24 DEF Released
<1>25. CASE Exits
  BY <1>25, NobodyEmpty DEF Exits
<1>26. CASE UNCHANGED vars
  BY <1>26
<1>27. CASE IdentityStamped
  BY <1>27 DEF IdentityStamped
<1>. QED
  BY <1>1, <1>2, <1>3, <1>4, <1>5, <1>6, <1>7, <1>8, <1>9, <1>10, <1>11, <1>12, <1>13, <1>14,
     <1>15, <1>16, <1>17, <1>18, <1>19, <1>20, <1>21, <1>22, <1>23, <1>24, <1>25, <1>26, <1>27
     DEF Next, Boots, Drains, Crashes, Escalated, WatchdogFires

(* A message is inserted before its file may go. *)
LEMMA InsertedStep == Inv /\ [Next]_vars => InsertedFirst'
<1>. SUFFICES ASSUME Inv, [Next]_vars PROVE InsertedFirst'
  OBVIOUS
<1>. USE DrainAssumption DEF Inv, vars, disk, History, Fault, NoFault, TypeOK, Proc, InsertedFirst
<1>1. CASE Started
  BY <1>1 DEF Started, Alive, Nobody
<1>2. CASE HomeClaimed
  BY <1>2 DEF HomeClaimed
<1>3. CASE DatabaseOpened
  BY <1>3 DEF DatabaseOpened
<1>4. ASSUME NEW m \in Messages, Kept(m) PROVE InsertedFirst'
  BY <1>4 DEF Kept
<1>5. ASSUME NEW m \in Messages, Replayed(m) PROVE InsertedFirst'
  BY <1>5 DEF Replayed
<1>6. CASE Unlinked
  BY <1>6 DEF Unlinked
<1>7. CASE TickerStarted
  BY <1>7 DEF TickerStarted
<1>8. CASE AdaptersConnected
  BY <1>8 DEF AdaptersConnected
<1>9. CASE ReceiptRead
  BY <1>9 DEF ReceiptRead
<1>10. CASE ReceiptConsumed
  BY <1>10 DEF ReceiptConsumed
<1>11. CASE StartupAborted
  BY <1>11 DEF StartupAborted
<1>12. CASE Recovered
  BY <1>12 DEF Recovered
<1>13. ASSUME NEW m \in Messages, Registers(m) PROVE InsertedFirst'
  BY <1>13 DEF Registers, Alive, Waiting
<1>14. CASE RunStarts
  BY <1>14 DEF RunStarts, Waiting
<1>15. CASE RunEnds
  BY <1>15 DEF RunEnds
<1>16. CASE Dies
  BY <1>16 DEF Dies, Nobody, Unseen, PastRecovery
<1>17. CASE Signalled
  BY <1>17 DEF Signalled, Alive
<1>18. CASE IngressStopped
  BY <1>18 DEF IngressStopped
<1>19. CASE WaitEnds
  BY <1>19 DEF WaitEnds
<1>20. CASE PendingFlushed
  BY <1>20 DEF PendingFlushed
<1>21. CASE DatabaseClosed
  BY <1>21 DEF DatabaseClosed, Join
<1>22. CASE ReceiptWritten
  BY <1>22 DEF ReceiptWritten, Join, PastRecovery
<1>23. CASE Joined
  BY <1>23 DEF Joined
<1>24. CASE Released
  BY <1>24 DEF Released
<1>25. CASE Exits
  BY <1>25 DEF Exits, Nobody
<1>26. CASE UNCHANGED vars
  BY <1>26
<1>27. CASE IdentityStamped
  BY <1>27 DEF IdentityStamped
<1>. QED
  BY <1>1, <1>2, <1>3, <1>4, <1>5, <1>6, <1>7, <1>8, <1>9, <1>10, <1>11, <1>12, <1>13, <1>14,
     <1>15, <1>16, <1>17, <1>18, <1>19, <1>20, <1>21, <1>22, <1>23, <1>24, <1>25, <1>26, <1>27
     DEF Next, Boots, Drains, Crashes, Escalated, WatchdogFires

(* What is in the slots is still to be flushed, or given up. *)
LEMMA SlotsStep == Inv /\ [Next]_vars => SlotsCovered'
<1>. SUFFICES ASSUME Inv, [Next]_vars PROVE SlotsCovered'
  OBVIOUS
<1>. USE DrainAssumption DEF Inv, vars, disk, History, Fault, NoFault, TypeOK, Proc,
   SlotsCovered, Past
<1>1. CASE Started
  BY <1>1, StarterEmpty DEF Started, Alive
<1>2. CASE HomeClaimed
  BY <1>2 DEF HomeClaimed
<1>3. CASE DatabaseOpened
  BY <1>3 DEF DatabaseOpened
<1>4. ASSUME NEW m \in Messages, Kept(m) PROVE SlotsCovered'
  BY <1>4 DEF Kept
<1>5. ASSUME NEW m \in Messages, Replayed(m) PROVE SlotsCovered'
  BY <1>5 DEF Replayed
<1>6. CASE Unlinked
  BY <1>6 DEF Unlinked
<1>7. CASE TickerStarted
  BY <1>7 DEF TickerStarted
<1>8. CASE AdaptersConnected
  BY <1>8 DEF AdaptersConnected
<1>9. CASE ReceiptRead
  BY <1>9 DEF ReceiptRead
<1>10. CASE ReceiptConsumed
  BY <1>10 DEF ReceiptConsumed
<1>11. CASE StartupAborted
  BY <1>11 DEF StartupAborted
<1>12. CASE Recovered
  BY <1>12 DEF Recovered
<1>13. ASSUME NEW m \in Messages, Registers(m) PROVE SlotsCovered'
  BY <1>13 DEF Registers, Alive, Waiting
<1>14. CASE RunStarts
  BY <1>14 DEF RunStarts, Waiting
<1>15. CASE RunEnds
  BY <1>15 DEF RunEnds
<1>16. CASE Dies
  BY <1>16, NobodyEmpty DEF Dies
<1>17. CASE Signalled
  BY <1>17 DEF Signalled, Alive
<1>18. CASE IngressStopped
  BY <1>18 DEF IngressStopped
<1>19. CASE WaitEnds
  BY <1>19 DEF WaitEnds
<1>20. CASE PendingFlushed
  BY <1>20 DEF PendingFlushed
<1>21. CASE DatabaseClosed
  BY <1>21 DEF DatabaseClosed, Join
<1>22. CASE ReceiptWritten
  BY <1>22 DEF ReceiptWritten, Join, PastRecovery
<1>23. CASE Joined
  BY <1>23 DEF Joined
<1>24. CASE Released
  BY <1>24 DEF Released
<1>25. CASE Exits
  BY <1>25, NobodyEmpty DEF Exits
<1>26. CASE UNCHANGED vars
  BY <1>26
<1>27. CASE IdentityStamped
  BY <1>27 DEF IdentityStamped
<1>. QED
  BY <1>1, <1>2, <1>3, <1>4, <1>5, <1>6, <1>7, <1>8, <1>9, <1>10, <1>11, <1>12, <1>13, <1>14,
     <1>15, <1>16, <1>17, <1>18, <1>19, <1>20, <1>21, <1>22, <1>23, <1>24, <1>25, <1>26, <1>27
     DEF Next, Boots, Drains, Crashes, Escalated, WatchdogFires

(* No step hides a run that was cut. *)
LEMMA HiddenStep == Inv /\ [Next]_vars => Hidden'
<1>. SUFFICES ASSUME Inv, [Next]_vars PROVE Hidden'
  OBVIOUS
<1>. USE DrainAssumption DEF Inv, vars, disk, History, Fault, NoFault, TypeOK, Proc, Hidden,
   OwnReceipt, Past
<1>1. CASE Started
  BY <1>1 DEF Started, Alive, Nobody
<1>2. CASE HomeClaimed
  BY <1>2 DEF HomeClaimed
<1>3. CASE DatabaseOpened
  BY <1>3 DEF DatabaseOpened
<1>4. ASSUME NEW m \in Messages, Kept(m) PROVE Hidden'
  BY <1>4 DEF Kept
<1>5. ASSUME NEW m \in Messages, Replayed(m) PROVE Hidden'
  BY <1>5 DEF Replayed
<1>6. CASE Unlinked
  BY <1>6 DEF Unlinked
<1>7. CASE TickerStarted
  BY <1>7 DEF TickerStarted
<1>8. CASE AdaptersConnected
  BY <1>8 DEF AdaptersConnected
<1>9. CASE ReceiptRead
  BY <1>9 DEF ReceiptRead
<1>10. CASE ReceiptConsumed
  BY <1>10 DEF ReceiptConsumed
<1>11. CASE StartupAborted
  BY <1>11 DEF StartupAborted
<1>12. CASE Recovered
  BY <1>12 DEF Recovered
<1>13. ASSUME NEW m \in Messages, Registers(m) PROVE Hidden'
  BY <1>13 DEF Registers, Alive, Waiting
<1>14. CASE RunStarts
  BY <1>14 DEF RunStarts, Waiting
<1>15. CASE RunEnds
  BY <1>15 DEF RunEnds
<1>16. CASE Dies
  <2>1. /\ proc'.boot = "none" /\ receipt' = receipt
        /\ unfinished' = (unfinished \/ proc.run # "none")
        /\ blind' = (blind \/ (proc.run # "none" /\ receipt /\ Unseen))
    BY <1>16, NobodyEmpty DEF Dies
  <2>2. SUFFICES ASSUME receipt, unfinished' PROVE blind'
    BY <2>1
  <2>3. CASE unfinished
    BY <2>1, <2>2, <2>3
  <2>4. CASE proc.run # "none"
    <3>1. PastRecovery /\ ~ proc.stale => proc.run = "late"
      BY <2>2, <2>4 DEF PastRecovery
    <3>. QED
      BY <2>1, <2>2, <2>4, <3>1 DEF Unseen
  <2>. QED
    BY <2>1, <2>2, <2>3, <2>4
<1>17. CASE Signalled
  BY <1>17 DEF Signalled, Alive
<1>18. CASE IngressStopped
  BY <1>18 DEF IngressStopped
<1>19. CASE WaitEnds
  BY <1>19 DEF WaitEnds
<1>20. CASE PendingFlushed
  BY <1>20 DEF PendingFlushed
<1>21. CASE DatabaseClosed
  BY <1>21 DEF DatabaseClosed, Join
<1>22. CASE ReceiptWritten
  BY <1>22 DEF ReceiptWritten, Join, PastRecovery
<1>23. CASE Joined
  BY <1>23 DEF Joined
<1>24. CASE Released
  BY <1>24 DEF Released
<1>25. CASE Exits
  BY <1>25 DEF Exits, Nobody
<1>26. CASE UNCHANGED vars
  BY <1>26
<1>27. CASE IdentityStamped
  BY <1>27 DEF IdentityStamped
<1>. QED
  BY <1>1, <1>2, <1>3, <1>4, <1>5, <1>6, <1>7, <1>8, <1>9, <1>10, <1>11, <1>12, <1>13, <1>14,
     <1>15, <1>16, <1>17, <1>18, <1>19, <1>20, <1>21, <1>22, <1>23, <1>24, <1>25, <1>26, <1>27
     DEF Next, Boots, Drains, Crashes, Escalated, WatchdogFires

(* The order of the drain keeps its receipt honest. *)
LEMMA OwnReceiptStep == Inv /\ [Next]_vars => OwnReceipt'
<1>. SUFFICES ASSUME Inv, [Next]_vars PROVE OwnReceipt'
  OBVIOUS
<1>. USE DrainAssumption DEF Inv, vars, disk, History, Fault, NoFault, TypeOK, Proc, OwnReceipt,
   Past
<1>1. CASE Started
  BY <1>1 DEF Started, Alive, Nobody
<1>2. CASE HomeClaimed
  BY <1>2 DEF HomeClaimed
<1>3. CASE DatabaseOpened
  BY <1>3 DEF DatabaseOpened
<1>4. ASSUME NEW m \in Messages, Kept(m) PROVE OwnReceipt'
  BY <1>4 DEF Kept
<1>5. ASSUME NEW m \in Messages, Replayed(m) PROVE OwnReceipt'
  BY <1>5 DEF Replayed
<1>6. CASE Unlinked
  BY <1>6 DEF Unlinked
<1>7. CASE TickerStarted
  BY <1>7 DEF TickerStarted
<1>8. CASE AdaptersConnected
  BY <1>8 DEF AdaptersConnected
<1>9. CASE ReceiptRead
  BY <1>9 DEF ReceiptRead
<1>10. CASE ReceiptConsumed
  BY <1>10 DEF ReceiptConsumed
<1>11. CASE StartupAborted
  BY <1>11 DEF StartupAborted
<1>12. CASE Recovered
  BY <1>12 DEF Recovered
<1>13. ASSUME NEW m \in Messages, Registers(m) PROVE OwnReceipt'
  BY <1>13 DEF Registers, Alive, Waiting
<1>14. CASE RunStarts
  BY <1>14 DEF RunStarts, Waiting
<1>15. CASE RunEnds
  BY <1>15 DEF RunEnds
<1>16. CASE Dies
  BY <1>16 DEF Dies, Nobody, Unseen, PastRecovery
<1>17. CASE Signalled
  BY <1>17 DEF Signalled, Alive
<1>18. CASE IngressStopped
  BY <1>18 DEF IngressStopped
<1>19. CASE WaitEnds
  BY <1>19 DEF WaitEnds
<1>20. CASE PendingFlushed
  BY <1>20 DEF PendingFlushed
<1>21. CASE DatabaseClosed
  BY <1>21 DEF DatabaseClosed, Join
<1>22. CASE ReceiptWritten
  BY <1>22 DEF ReceiptWritten, Join, PastRecovery
<1>23. CASE Joined
  BY <1>23 DEF Joined
<1>24. CASE Released
  BY <1>24 DEF Released
<1>25. CASE Exits
  BY <1>25 DEF Exits, Nobody
<1>26. CASE UNCHANGED vars
  BY <1>26
<1>27. CASE IdentityStamped
  BY <1>27 DEF IdentityStamped
<1>. QED
  BY <1>1, <1>2, <1>3, <1>4, <1>5, <1>6, <1>7, <1>8, <1>9, <1>10, <1>11, <1>12, <1>13, <1>14,
     <1>15, <1>16, <1>17, <1>18, <1>19, <1>20, <1>21, <1>22, <1>23, <1>24, <1>25, <1>26, <1>27
     DEF Next, Boots, Drains, Crashes, Escalated, WatchdogFires

(* The strengthening is an invariant: no single part of it is inductive. *)
THEOREM InvHolds == Spec => []Inv
<1>1. Inv /\ [Next]_vars => Inv'
  BY TypeStep, SavedStep, InsertedStep, SlotsStep, HiddenStep, OwnReceiptStep DEF Inv
<1>. QED
  BY InvInit, <1>1, PTL DEF Spec

(* What was registered with the host is never lost by stops and boots
   (shutdown.ts flushPendingToFiles, recoverPendingToDb). *)
THEOREM SavedHolds == Spec => []Saved
<1>1. Inv => Saved
  BY DEF Inv
<1>. QED
  BY InvHolds, <1>1, PTL

(* A boot that finds the receipt has nothing to recover from, outside of
   the windows that blind names (lifecycle.ts runPostAdapterBootRecovery). *)
THEOREM CleanMeansFinishedHolds == Spec => []CleanMeansFinished
<1>1. Inv => CleanMeansFinished
  BY DEF Inv, Hidden, CleanMeansFinished
<1>. QED
  BY InvHolds, <1>1, PTL

----------------------------------------------------------------------------
(* TURNS OF A CHAT *)

\* The handlers that have a child in hand, and what is the matter with it.
Holding(t) == pc[t] \in {"start", "row", "work", "probe", "stopping"}

\* Whatever is in hand or in the table has been allocated.
HandAllocated(t) == Holding(t) => drives[t] \in Children /\ state[drives[t]] # "none"
Allocated ==
    /\ current # NoChild => state[current] # "none"
    /\ \A t \in Turns : HandAllocated(t)

\* The child in hand is the chat's, and in the state its handler left it in.
HoldsCurrent(t) == Holding(t) =>
    /\ drives[t] = current
    /\ pc[t] = "start" => state[current] = "starting"
    /\ Driving(t) => state[current] = "busy"
    /\ pc[t] = "stopping" => state[current] \in {"ready", "dead"}
SameHolder(t, u) == Holding(t) /\ Holding(u) => t = u
OwnedChild(c) == state[c] = "busy" => c = current /\ \E t \in Turns : Driving(t)
Owned == ~raced =>
    /\ \A t \in Turns : HoldsCurrent(t)
    /\ \A t, u \in Turns : SameHolder(t, u)
    /\ \A c \in Children : OwnedChild(c)

\* What was taken is what settled the dialog, and the reply is what settled it.
Told(d) ==
    /\ d \in accepted <=> outcome[d] = "value"
    /\ phase[d] = "answered" => reply[d] = outcome[d]

ChatInv == ChatTypeOK /\ Allocated /\ Owned /\ \A d \in Dialogs : Told(d)

\* The invariant holds at the start.
LEMMA ChatStart == ChatInit => ChatInv
<1> SUFFICES ASSUME ChatInit PROVE ChatInv
  OBVIOUS
<1>1. ChatTypeOK
  BY DEF ChatInit, ChatTypeOK
<1>2. ~raced => \A t \in Turns : ~Holding(t)
  BY DEF ChatInit, Holding
<1>3. \A c \in Children : state[c] = "none"
  BY DEF ChatInit
<1>4. Allocated /\ Owned
  BY <1>2, <1>3 DEF ChatInit, Allocated, HandAllocated, Holding, Owned, HoldsCurrent,
     SameHolder, OwnedChild
<1>5. \A d \in Dialogs : Told(d)
  BY DEF ChatInit, Told
<1> QED BY <1>1, <1>4, <1>5 DEF ChatInv

\* The number of a new child is one that was not given out.
LEMMA FirstUnused ==
  ASSUME NEW c, c = CHOOSE x \in Unused : \A y \in Unused : x <= y, Unused # {}
  PROVE  c \in Unused /\ c \in Children
<1>1. Unused \subseteq Nat
  BY ChatAssumption DEF Unused, Children
<1>2. PICK k \in Unused : \A y \in Unused : <<y, k>> \notin OpToRel(<, Nat)
  BY <1>1, WFMin, NatLessThanWellFounded, Zenon
<1>3. \A y \in Unused : ~(y < k)
  BY <1>1, <1>2, Zenon DEF OpToRel
<1>4. \A y \in Unused : k <= y
  BY <1>1, <1>3
<1> QED BY <1>4 DEF Unused

----------------------------------------------------------------------------
(* What the steps do to the table and to one handler *)

Rest(t) == \A u \in Turns \ {t} : pc'[u] = pc[u] /\ drives'[u] = drives[u]
RaceSeen == raced' = (raced \/ Stopping # {})

\* A handler without a child in hand goes on without one.
Passes(t) ==
    /\ ~Holding(t) /\ ~Holding(t)' /\ drives'[t] = drives[t] /\ Rest(t)
    /\ UNCHANGED <<current, state, raced>>

\* A new child takes the chat's place in the table.
Starts(t, c) ==
    /\ c \in Unused /\ c \in Children
    /\ pc'[t] = "start" /\ drives'[t] = c /\ Rest(t)
    /\ current' = c /\ state' = [state EXCEPT ![c] = "starting"]
    /\ \/ ~Holding(t) /\ Entry \in {"none", "dead"} /\ RaceSeen
       \/ pc[t] = "stopping" /\ raced' = raced

\* A handler takes the ready entry.
Takes(t) ==
    /\ ~Holding(t) /\ Entry = "ready" /\ RaceSeen
    /\ pc'[t] = "row" /\ drives'[t] = current /\ Rest(t)
    /\ current' = current /\ state' = [state EXCEPT ![current] = "busy"]

\* A handler goes on with a busy child in hand.
GoesOn(t) ==
    /\ \/ /\ pc[t] = "start" /\ pc'[t] = "row" /\ drives'[t] = drives[t]
          /\ state' = [state EXCEPT ![drives[t]] = "busy"]
       \/ /\ pc[t] \in {"row", "work"} /\ pc'[t] \in {"work", "probe"}
          /\ drives'[t] = drives[t] \/ (Entry = "busy" /\ drives'[t] = current)
          /\ state' = state
    /\ Rest(t) /\ UNCHANGED <<current, raced>>

\* A handler gives back the child in hand, or the chat's busy entry.
Leaves(t) ==
    /\ pc[t] \in {"start", "row", "work", "probe"} /\ pc'[t] = "done"
    /\ drives'[t] = drives[t] /\ Rest(t) /\ UNCHANGED <<current, raced>>
    /\ \/ \E c \in Children, s \in {"ready", "dead"} :
             /\ state' = [state EXCEPT ![c] = s]
             /\ c = drives[t] \/ (pc[t] = "work" /\ Entry = "busy" /\ c = current)
       \/ pc[t] = "work" /\ Entry # "busy" /\ state' = state

\* A handler begins to stop the chat's child.
Stops(t) ==
    /\ ~Holding(t) /\ Entry \in {"ready", "dead"} /\ RaceSeen
    /\ pc'[t] = "stopping" /\ drives'[t] = current /\ Rest(t)
    /\ UNCHANGED <<current, state>>

Moves(t) == \/ Passes(t) \/ Takes(t) \/ GoesOn(t) \/ Leaves(t) \/ Stops(t)
            \/ \E c \in Children : Starts(t, c)

TableStill == UNCHANGED <<pc, drives, current, state, raced>>

\* The chat's entry is the state of its current child.
LEMMA EntryOf ==
    ASSUME ChatTypeOK
    PROVE  /\ Entry # "none" => current \in Children /\ Entry = state[current]
           /\ current # NoChild => Entry = state[current]
  BY ChatAssumption DEF Entry, ChatTypeOK, Children, NoChild

\* What settles a dialog is an outcome.
LEMMA SettleTyped ==
    ASSUME ChatTypeOK, NEW ds, NEW o \in {"value", "cancelled"}, Settle(ds, o)
    PROVE  outcome' \in [Dialogs -> {"none", "value", "cancelled"}]
  BY DEF Settle, ChatTypeOK

\* A handler that starts a child takes a new one, and the chat with it.
LEMMA StartEffect ==
    ASSUME ChatTypeOK, NEW t \in Turns, StartNew(t),
           ~Holding(t), Entry \in {"none", "dead"}, RaceSeen, UNCHANGED <<main, dialogVars>>
    PROVE  ChatTypeOK' /\ \E c \in Children : Starts(t, c)
<1> DEFINE c == CHOOSE x \in Unused : \A y \in Unused : x <= y
<1>1. c \in Unused /\ c \in Children
  BY FirstUnused DEF StartNew
<1>2. /\ current' = c /\ state' = [state EXCEPT ![c] = "starting"]
      /\ drives' = [drives EXCEPT ![t] = c] /\ up' = up \cup {c} /\ Goto(t, "start")
  BY DEF StartNew
<1> HIDE DEF c
<1>3. Starts(t, c)
  BY <1>1, <1>2 DEF Starts, Rest, Goto, ChatTypeOK
<1>4. ChatTypeOK'
  BY <1>1, <1>2 DEF ChatTypeOK, Goto, RaceSeen, dialogVars
<1> QED BY <1>1, <1>3, <1>4

\* A handler that drives the ready child takes it.
LEMMA DriveEffect ==
    ASSUME ChatTypeOK, NEW t \in Turns, Drive(t, current), ~Holding(t), Entry = "ready",
           UNCHANGED <<main, current, up, dialogVars>>
    PROVE  ChatTypeOK' /\ Takes(t)
<1> current \in Children
  BY EntryOf
<1>1. Takes(t)
  BY DEF Drive, Takes, RaceSeen, Rest, Goto, ChatTypeOK
<1>2. ChatTypeOK'
  BY DEF Drive, ChatTypeOK, Goto, dialogVars
<1> QED BY <1>1, <1>2

\* The end of a handler's call, as far as the types and the table go.
LEMMA FinishEffect ==
    ASSUME ChatTypeOK, NEW t \in Turns, NEW next \in Turns \cup {NoTurn}, Finish(t, next)
    PROVE  /\ pc' \in [Turns -> {"idle", "ensure", "start", "release", "row", "work",
                                 "probe", "stopping", "done"}]
           /\ pc'[t] = "done" /\ \A u \in Turns \ {t} : pc'[u] = pc[u]
           /\ main' \in Turns \cup {NoTurn}
           /\ outcome' \in [Dialogs -> {"none", "value", "cancelled"}]
           /\ UNCHANGED <<asker, phase, accepted, reply>>
  BY SettleTyped DEF Finish, Goto, ChatTypeOK

\* Every return is the end of a call.
LEMMA ReturnEffect ==
    ASSUME ChatTypeOK, NEW t \in Turns, Return(t)
    PROVE  \E next \in Turns \cup {NoTurn} : Finish(t, next)
  BY DEF Return, ChatTypeOK

\* Passing by: nothing of the table changes.
LEMMA PassEffect ==
    ASSUME ChatTypeOK, NEW t \in Turns, ~Holding(t), Return(t),
           UNCHANGED <<drives, current, state, up, raced>>
    PROVE  ChatTypeOK' /\ Passes(t)
<1>1. PICK next \in Turns \cup {NoTurn} : Finish(t, next)
  BY ReturnEffect
<1>2. Passes(t)
  BY <1>1, FinishEffect DEF Passes, Holding, Rest
<1>3. ChatTypeOK'
  BY <1>1, FinishEffect DEF ChatTypeOK
<1> QED BY <1>2, <1>3

\* Giving a child back.
LEMMA LeaveEffect ==
    ASSUME ChatTypeOK, NEW t \in Turns, NEW next \in Turns \cup {NoTurn}, Finish(t, next),
           pc[t] \in {"start", "row", "work", "probe"},
           NEW c \in Children, NEW s \in {"ready", "dead"},
           state' = [state EXCEPT ![c] = s],
           c = drives[t] \/ (pc[t] = "work" /\ Entry = "busy" /\ c = current),
           UNCHANGED <<drives, current, up, raced>>
    PROVE  ChatTypeOK' /\ Leaves(t)
<1>1. Leaves(t)
  BY FinishEffect DEF Leaves, Rest
<1>2. ChatTypeOK'
  BY FinishEffect DEF ChatTypeOK
<1> QED BY <1>1, <1>2

\* The end of a turn whose entry is no longer busy gives nothing back.
LEMMA LeaveAsItIs ==
    ASSUME ChatTypeOK, NEW t \in Turns, NEW next \in Turns \cup {NoTurn}, Finish(t, next),
           pc[t] = "work", Entry # "busy", UNCHANGED <<drives, current, state, up, raced>>
    PROVE  ChatTypeOK' /\ Leaves(t)
<1>1. Leaves(t)
  BY FinishEffect DEF Leaves, Rest
<1>2. ChatTypeOK'
  BY FinishEffect DEF ChatTypeOK
<1> QED BY <1>1, <1>2

\* Arriving, and typing an answer to a dialog, pass by the table.
LEMMA ArriveEffect ==
    ASSUME ChatTypeOK, NEW t \in Turns, Arrive(t) \/ TakeText(t)
    PROVE  ChatTypeOK' /\ Passes(t)
<1>1. CASE Arrive(t)
  <2>1. Passes(t)
    BY <1>1 DEF Arrive, Goto, Passes, Holding, Rest, ChatTypeOK
  <2>2. ChatTypeOK'
    BY <1>1 DEF Arrive, Goto, ChatTypeOK, dialogVars
  <2> QED BY <2>1, <2>2
<1>2. CASE TakeText(t)
  <2>1. Passes(t)
    BY <1>2 DEF TakeText, Goto, Passes, Holding, Rest, ChatTypeOK
  <2>2. outcome' \in [Dialogs -> {"none", "value", "cancelled"}] /\ accepted' \subseteq Dialogs
    BY <1>2, SettleTyped DEF TakeText, ChatTypeOK, Live
  <2>3. pc' \in [Turns -> {"idle", "ensure", "start", "release", "row", "work",
                           "probe", "stopping", "done"}]
    BY <1>2 DEF TakeText, Goto, ChatTypeOK
  <2>4. ChatTypeOK'
    BY <1>2, <2>2, <2>3 DEF TakeText, ChatTypeOK
  <2> QED BY <2>1, <2>4
<1> QED BY <1>1, <1>2

\* What a turn finds in the table decides what it does to it.
LEMMA DispatchEffect ==
    ASSUME ChatTypeOK, NEW t \in Turns, Dispatch(t)
    PROVE  ChatTypeOK' /\ Moves(t)
<1> ~Holding(t)
  BY DEF Dispatch, Holding
<1>1. CASE /\ Entry \in {"none", "dead"} /\ StartNew(t)
           /\ raced' = (raced \/ Stopping # {}) /\ UNCHANGED <<main, dialogVars>>
  BY <1>1, StartEffect DEF RaceSeen, Moves
<1>2. CASE Entry = "ready" /\ Drive(t, current) /\ UNCHANGED <<main, current, up, dialogVars>>
  BY <1>2, DriveEffect DEF Moves
<1>3. CASE /\ Settle(Live, "cancelled") /\ Goto(t, "release")
           /\ UNCHANGED <<tableVars, asker, phase, accepted, reply>>
  <2>1. Passes(t)
    BY <1>3 DEF Goto, Passes, Holding, Rest, tableVars, ChatTypeOK
  <2>2. outcome' \in [Dialogs -> {"none", "value", "cancelled"}]
    BY <1>3, SettleTyped
  <2>3. ChatTypeOK'
    BY <1>3, <2>2 DEF Goto, tableVars, ChatTypeOK
  <2> QED BY <2>1, <2>3 DEF Moves
<1>4. CASE Return(t) /\ UNCHANGED <<drives, current, state, up, raced>>
  BY <1>4, PassEffect DEF Moves
<1> QED BY <1>1, <1>2, <1>3, <1>4 DEF Dispatch

\* So does what a turn finds when it has waited for the entry.
LEMMA ReleasedEffect ==
    ASSUME ChatTypeOK, NEW t \in Turns, EntryReleased(t)
    PROVE  ChatTypeOK' /\ Moves(t)
<1> ~Holding(t)
  BY DEF EntryReleased, Holding
<1>1. CASE Entry = "ready" /\ Drive(t, current) /\ UNCHANGED <<main, current, up, dialogVars>>
  BY <1>1, DriveEffect DEF Moves
<1>2. CASE Return(t) /\ UNCHANGED <<drives, current, state, up, raced>>
  BY <1>2, PassEffect DEF Moves
<1> QED BY <1>1, <1>2 DEF EntryReleased

\* A child that has started is driven by its turn, or is given up.
LEMMA StartedEffect ==
    ASSUME ChatTypeOK, NEW t \in Turns, HandAllocated(t), EntryStarted(t)
    PROVE  ChatTypeOK' /\ Moves(t)
<1> pc[t] = "start" /\ drives[t] \in Children /\ UNCHANGED <<drives, current, raced>>
  BY DEF EntryStarted, HandAllocated, Holding
<1>1. CASE /\ state' = [state EXCEPT ![drives[t]] = "busy"] /\ Goto(t, "row")
           /\ UNCHANGED <<main, up, dialogVars>>
  <2>1. GoesOn(t)
    BY <1>1 DEF Goto, GoesOn, Rest, ChatTypeOK
  <2>2. ChatTypeOK'
    BY <1>1 DEF Goto, ChatTypeOK, dialogVars
  <2> QED BY <2>1, <2>2 DEF Moves
<1>2. CASE state' = [state EXCEPT ![drives[t]] = "dead"] /\ Return(t) /\ UNCHANGED up
  BY <1>2, ReturnEffect, LeaveEffect DEF Moves
<1> QED BY <1>1, <1>2 DEF EntryStarted

\* The row of a turn is written while its child is busy, or the child is given back.
LEMMA RowEffect ==
    ASSUME ChatTypeOK, NEW t \in Turns, HandAllocated(t), Row(t)
    PROVE  ChatTypeOK' /\ Moves(t)
<1> pc[t] = "row" /\ drives[t] \in Children /\ UNCHANGED <<drives, current, up, raced>>
  BY DEF Row, HandAllocated, Holding
<1>1. CASE Goto(t, "work") /\ UNCHANGED <<main, state, dialogVars>>
  <2>1. GoesOn(t)
    BY <1>1 DEF Goto, GoesOn, Rest, ChatTypeOK
  <2>2. ChatTypeOK'
    BY <1>1 DEF Goto, ChatTypeOK, dialogVars
  <2> QED BY <2>1, <2>2 DEF Moves
<1>2. CASE state' = [state EXCEPT ![drives[t]] = "ready"] /\ Return(t)
  BY <1>2, ReturnEffect, LeaveEffect DEF Moves
<1> QED BY <1>1, <1>2 DEF Row

\* A turn that is done gives its child back.
LEMMA WorkEffect ==
    ASSUME ChatTypeOK, NEW t \in Turns, HandAllocated(t), WorkDone(t)
    PROVE  ChatTypeOK' /\ Moves(t)
<1> pc[t] = "work" /\ drives[t] \in Children /\ UNCHANGED <<drives, current, up, raced>>
  BY DEF WorkDone, HandAllocated, Holding
<1>1. PICK next \in Turns \cup {NoTurn} : Finish(t, next)
  BY ReturnEffect DEF WorkDone
<1>2. CASE Kinds[t] = "text"
  <2>1. state' = [state EXCEPT ![drives[t]] = "ready"]
    BY <1>2 DEF WorkDone
  <2> QED BY <1>1, <2>1, LeaveEffect DEF Moves
<1>3. CASE Kinds[t] # "text" /\ Entry = "busy"
  <2>1. state' = [state EXCEPT ![current] = "ready"] /\ current \in Children
    BY <1>3, EntryOf DEF WorkDone
  <2> QED BY <1>1, <1>3, <2>1, LeaveEffect DEF Moves
<1>4. CASE Kinds[t] # "text" /\ Entry # "busy"
  <2>1. state' = state
    BY <1>4 DEF WorkDone
  <2> QED BY <1>1, <1>4, <2>1, LeaveAsItIs DEF Moves
<1> QED BY <1>2, <1>3, <1>4

\* One that fails looks whether the chat's busy child lives, if there is one.
LEMMA FailEffect ==
    ASSUME ChatTypeOK, NEW t \in Turns, WorkFails(t)
    PROVE  ChatTypeOK' /\ Moves(t)
<1> pc[t] = "work" /\ UNCHANGED <<current, state, up, raced>>
  BY DEF WorkFails
<1>1. CASE /\ Entry = "busy" /\ drives' = [drives EXCEPT ![t] = current]
           /\ Goto(t, "probe") /\ UNCHANGED <<main, dialogVars>>
  <2>1. GoesOn(t)
    BY <1>1 DEF Goto, GoesOn, Rest, ChatTypeOK
  <2>2. ChatTypeOK'
    BY <1>1 DEF Goto, ChatTypeOK, dialogVars
  <2> QED BY <2>1, <2>2 DEF Moves
<1>2. CASE Entry # "busy" /\ Return(t) /\ UNCHANGED drives
  BY <1>2, ReturnEffect, LeaveAsItIs DEF Moves
<1> QED BY <1>1, <1>2 DEF WorkFails

\* A child that was probed is given back as ready or as dead.
LEMMA ProbeEffect ==
    ASSUME ChatTypeOK, NEW t \in Turns, HandAllocated(t), Probe(t)
    PROVE  ChatTypeOK' /\ Moves(t)
<1> pc[t] = "probe" /\ drives[t] \in Children /\ UNCHANGED <<drives, current, up, raced>>
  BY DEF Probe, HandAllocated, Holding
<1>1. PICK s \in {"ready", "dead"} : state' = [state EXCEPT ![drives[t]] = s]
  BY DEF Probe
<1>2. PICK next \in Turns \cup {NoTurn} : Finish(t, next)
  BY ReturnEffect DEF Probe
<1> QED BY <1>1, <1>2, LeaveEffect DEF Moves

\* A command about the working directory passes, starts a child or stops one.
LEMMA PathEffect ==
    ASSUME ChatTypeOK, NEW t \in Turns, Path(t)
    PROVE  ChatTypeOK' /\ Moves(t)
<1> ~Holding(t)
  BY DEF Path, Holding
<1>1. CASE Return(t) /\ UNCHANGED <<drives, current, state, up, raced>>
  BY <1>1, PassEffect DEF Moves
<1>2. CASE /\ current = NoChild /\ StartNew(t)
           /\ raced' = (raced \/ Stopping # {}) /\ UNCHANGED <<main, dialogVars>>
  BY <1>2, StartEffect DEF RaceSeen, Entry, Moves
<1>3. CASE /\ Entry \in {"ready", "dead"} /\ Goto(t, "stopping")
           /\ drives' = [drives EXCEPT ![t] = current]
           /\ raced' = (raced \/ Stopping # {})
           /\ UNCHANGED <<main, current, state, up, dialogVars>>
  <2>1. Stops(t)
    BY <1>3 DEF Goto, Stops, RaceSeen, Rest, ChatTypeOK
  <2>2. ChatTypeOK'
    BY <1>3 DEF Goto, ChatTypeOK, dialogVars
  <2> QED BY <2>1, <2>2 DEF Moves
<1> QED BY <1>1, <1>2, <1>3 DEF Path

\* The stop of a child makes room for another one.
LEMMA StoppedEffect ==
    ASSUME ChatTypeOK, NEW t \in Turns, Stopped(t)
    PROVE  ChatTypeOK' /\ Moves(t)
<1> DEFINE c == CHOOSE x \in Unused : \A y \in Unused : x <= y
<1>1. c \in Unused /\ c \in Children
  BY FirstUnused DEF Stopped
<1>2. /\ current' = c /\ state' = [state EXCEPT ![c] = "starting"]
      /\ drives' = [drives EXCEPT ![t] = c] /\ Goto(t, "start") /\ pc[t] = "stopping"
      /\ UNCHANGED <<main, raced, dialogVars>>
      /\ up' \subseteq up \cup {c}
  BY DEF Stopped
<1> HIDE DEF c
<1>3. Starts(t, c)
  BY <1>1, <1>2 DEF Starts, Rest, Goto, ChatTypeOK
<1>4. ChatTypeOK'
  BY <1>1, <1>2 DEF ChatTypeOK, Goto, dialogVars
<1> QED BY <1>1, <1>3, <1>4 DEF Moves

\* Dialogs and the death of a child do not touch the table.
LEMMA StillEffect ==
    ASSUME ChatTypeOK,
           \/ \E d \in Dialogs : \/ \E t \in Turns : AskDialog(d, t)
                                 \/ Sent(d) \/ Tap(d) \/ Expire(d) \/ Respond(d)
           \/ \E c \in Children : ChildDies(c)
           \/ UNCHANGED chatVars
    PROVE  ChatTypeOK' /\ TableStill
<1> DEFINE Goal == ChatTypeOK' /\ TableStill
<1> SUFFICES Goal
  BY Zenon
<1>1. ASSUME NEW d \in Dialogs, NEW t \in Turns, AskDialog(d, t)
      PROVE  Goal
  BY <1>1 DEF AskDialog, ChatTypeOK, TableStill, tableVars
<1>2. ASSUME NEW d \in Dialogs, Sent(d)
      PROVE  Goal
  <2>1. outcome' \in [Dialogs -> {"none", "value", "cancelled"}]
    BY <1>2, SettleTyped DEF Sent, ChatTypeOK
  <2> QED BY <1>2, <2>1 DEF Sent, ChatTypeOK, TableStill, tableVars
<1>3. ASSUME NEW d \in Dialogs, Tap(d)
      PROVE  Goal
  <2>1. outcome' \in [Dialogs -> {"none", "value", "cancelled"}]
    BY <1>3, SettleTyped DEF Tap, ChatTypeOK
  <2> QED BY <1>3, <2>1 DEF Tap, ChatTypeOK, TableStill, tableVars
<1>4. ASSUME NEW d \in Dialogs, Expire(d)
      PROVE  Goal
  <2>1. outcome' \in [Dialogs -> {"none", "value", "cancelled"}]
    BY <1>4, SettleTyped DEF Expire, ChatTypeOK
  <2> QED BY <1>4, <2>1 DEF Expire, ChatTypeOK, TableStill, tableVars
<1>5. ASSUME NEW d \in Dialogs, Respond(d)
      PROVE  Goal
  BY <1>5 DEF Respond, ChatTypeOK, TableStill, tableVars
<1>6. ASSUME NEW c \in Children, ChildDies(c)
      PROVE  Goal
  BY <1>6 DEF ChildDies, ChatTypeOK, TableStill, dialogVars
<1>7. ASSUME UNCHANGED chatVars
      PROVE  Goal
  BY <1>7 DEF chatVars, ChatTypeOK, TableStill
<1> HIDE DEF Goal
<1> QED BY <1>1, <1>2, <1>3, <1>4, <1>5, <1>6, <1>7, Zenon

\* Every step is one move of one handler, or leaves the table as it is.
LEMMA TableEffect ==
    ASSUME ChatTypeOK, Allocated, [ChatNext]_chatVars
    PROVE  ChatTypeOK' /\ (TableStill \/ \E t \in Turns : Moves(t))
<1>1. ASSUME NEW t \in Turns, Arrive(t) \/ Handler(t)
      PROVE  ChatTypeOK' /\ Moves(t)
  <2> HandAllocated(t)
    BY DEF Allocated
  <2>1. CASE Arrive(t) \/ TakeText(t)
    BY <2>1, ArriveEffect DEF Moves
  <2> QED
    BY <1>1, <2>1, DispatchEffect, ReleasedEffect, StartedEffect, RowEffect, WorkEffect,
       FailEffect, ProbeEffect, PathEffect, StoppedEffect, Zenon DEF Handler
<1>2. CASE \/ \E d \in Dialogs : \/ \E t \in Turns : AskDialog(d, t)
                                 \/ Sent(d) \/ Tap(d) \/ Expire(d) \/ Respond(d)
           \/ \E c \in Children : ChildDies(c)
           \/ UNCHANGED chatVars
  BY <1>2, StillEffect
<1> QED BY <1>1, <1>2, Zenon DEF ChatNext, AtRest

----------------------------------------------------------------------------
(* The parts of the invariant *)

\* A child that has been allocated stays so, and the chat's child is one.
LEMMA StaysAllocated ==
    ASSUME ChatTypeOK, Allocated, NEW t \in Turns, Moves(t)
    PROVE  /\ \A c \in Children : state[c] # "none" => state'[c] # "none"
           /\ current' # NoChild => state'[current'] # "none"
           /\ Holding(t)' => drives'[t] \in Children /\ state'[drives'[t]] # "none"
<1> HandAllocated(t) /\ (current # NoChild => state[current] # "none")
  BY DEF Allocated
<1> DEFINE Goal ==
      /\ \A c \in Children : state[c] # "none" => state'[c] # "none"
      /\ current' # NoChild => state'[current'] # "none"
      /\ Holding(t)' => drives'[t] \in Children /\ state'[drives'[t]] # "none"
<1> SUFFICES Goal
  BY Zenon
<1>1. CASE Passes(t)
  BY <1>1 DEF Passes
<1>2. CASE Takes(t)
  <2>1. current \in Children /\ Entry = state[current]
    BY <1>2, EntryOf DEF Takes
  <2> QED BY <1>2, <2>1 DEF Takes, ChatTypeOK
<1>3. CASE GoesOn(t)
  <2>1. drives[t] \in Children /\ state[drives[t]] # "none"
    BY <1>3 DEF GoesOn, HandAllocated, Holding
  <2>2. Entry = "busy" => current \in Children /\ Entry = state[current]
    BY EntryOf
  <2> QED BY <1>3, <2>1, <2>2 DEF GoesOn, ChatTypeOK
<1>4. CASE Leaves(t)
  <2>1. ~Holding(t)' /\ current' = current
    BY <1>4 DEF Leaves, Holding
  <2>2. \A c \in Children : state[c] # "none" => state'[c] # "none"
    BY <1>4 DEF Leaves, ChatTypeOK
  <2>3. current # NoChild => current \in Children
    BY DEF ChatTypeOK
  <2> QED BY <2>1, <2>2, <2>3
<1>5. CASE Stops(t)
  <2>1. current \in Children /\ Entry = state[current]
    BY <1>5, EntryOf DEF Stops
  <2> QED BY <1>5, <2>1 DEF Stops
<1>6. ASSUME NEW c \in Children, Starts(t, c)
      PROVE  Goal
  BY <1>6 DEF Starts, ChatTypeOK
<1> HIDE DEF Goal
<1> QED BY <1>1, <1>2, <1>3, <1>4, <1>5, <1>6 DEF Moves, Goal

\* Every step keeps what is in hand allocated.
LEMMA AllocatedStep ==
    ASSUME ChatTypeOK, Allocated, [ChatNext]_chatVars
    PROVE  Allocated'
<1>1. CASE TableStill
  BY <1>1 DEF TableStill, Allocated, HandAllocated, Holding
<1>2. ASSUME NEW t \in Turns, Moves(t)
      PROVE  Allocated'
  <2>1. \A u \in Turns \ {t} : pc'[u] = pc[u] /\ drives'[u] = drives[u]
    BY <1>2 DEF Moves, Passes, Takes, GoesOn, Leaves, Stops, Starts, Rest
  <2>2. \A u \in Turns \ {t} : HandAllocated(u)'
    BY <1>2, <2>1, StaysAllocated DEF Allocated, HandAllocated, Holding
  <2> QED BY <1>2, <2>2, StaysAllocated DEF Allocated, HandAllocated
<1> QED BY <1>1, <1>2, TableEffect

\* One handler's move keeps the hands apart, while no race was seen.
LEMMA OwnedMove ==
    ASSUME ChatTypeOK, ChatTypeOK', Allocated, Owned, NEW t \in Turns, Moves(t), ~raced'
    PROVE  /\ \A u \in Turns : HoldsCurrent(u)'
           /\ \A u, v \in Turns : SameHolder(u, v)'
           /\ \A c \in Children : OwnedChild(c)'
<1> DEFINE Goal ==
      /\ \A u \in Turns : HoldsCurrent(u)'
      /\ \A u, v \in Turns : SameHolder(u, v)'
      /\ \A c \in Children : OwnedChild(c)'
<1> SUFFICES Goal
  BY Zenon
<1>0. ~raced
  <2>1. RaceSeen \/ raced' = raced
    BY DEF Moves, Passes, Takes, GoesOn, Leaves, Stops, Starts
  <2>2. CASE RaceSeen
    BY <2>2, Zenon DEF RaceSeen
  <2> QED BY <2>1, <2>2
<1>1. ~raced /\ \A u \in Turns \ {t} : pc'[u] = pc[u] /\ drives'[u] = drives[u]
  BY <1>0 DEF Moves, Passes, Takes, GoesOn, Leaves, Stops, Starts, Rest
<1>2. /\ \A u \in Turns : HoldsCurrent(u)
      /\ \A u, v \in Turns : SameHolder(u, v)
      /\ \A c \in Children : OwnedChild(c)
  BY <1>1 DEF Owned
<1>3. \A u \in Turns \ {t} : Holding(u)' <=> Holding(u)
  BY <1>1 DEF Holding
\* Whoever takes the child in hand finds no other hand on it.
<1>4. ASSUME ~Holding(t), Entry # "busy", Entry # "starting", Stopping = {}
      PROVE  \A u \in Turns : ~Holding(u)
  <2> SUFFICES ASSUME NEW u \in Turns, Holding(u) PROVE FALSE
    OBVIOUS
  <2>1. drives[u] = current /\ drives[u] \in Children
    BY <1>2 DEF HoldsCurrent, Allocated, HandAllocated
  <2>2. Entry = state[current]
    BY <2>1, EntryOf, ChatAssumption DEF Children, NoChild
  <2>3. pc[u] # "stopping"
    BY <1>4 DEF Stopping
  <2> QED BY <1>2, <1>4, <2>2, <2>3 DEF HoldsCurrent, Holding, Driving
<1>5. CASE Passes(t)
  <2>1. \A u \in Turns : Holding(u)' <=> Holding(u)
    BY <1>3, <1>5 DEF Passes
  <2>2. \A u \in Turns : Holding(u) => pc'[u] = pc[u] /\ drives'[u] = drives[u]
    BY <1>1, <1>5 DEF Passes
  <2>3. current' = current /\ state' = state
    BY <1>5 DEF Passes
  <2>4. \A u \in Turns : Driving(u) => Driving(u)'
    BY <2>2 DEF Driving, Holding
  <2>5. \A u \in Turns : Holding(u) => (Driving(u)' <=> Driving(u))
    BY <2>2 DEF Driving
  <2>6. \A u \in Turns : HoldsCurrent(u)'
    BY <1>2, <2>1, <2>2, <2>3, <2>5 DEF HoldsCurrent
  <2>7. \A u, v \in Turns : SameHolder(u, v)'
    BY <1>2, <2>1 DEF SameHolder
  <2>8. \A c \in Children : OwnedChild(c)'
    BY <1>2, <2>3, <2>4 DEF OwnedChild
  <2> QED BY <2>6, <2>7, <2>8
<1>6. CASE Takes(t)
  <2>1. Stopping = {} /\ current \in Children /\ Entry = state[current]
    BY <1>6, EntryOf DEF Takes, RaceSeen
  <2>2. \A u \in Turns \ {t} : ~Holding(u)'
    BY <1>3, <1>4, <1>6, <2>1 DEF Takes
  <2>3. /\ pc'[t] = "row" /\ drives'[t] = current' /\ state'[current'] = "busy"
        /\ current' = current /\ \A c \in Children \ {current} : state'[c] = state[c]
    BY <1>6, <2>1 DEF Takes, ChatTypeOK
  <2>4. \A c \in Children : OwnedChild(c)'
    BY <1>2, <2>3 DEF OwnedChild, Driving
  <2> QED BY <2>2, <2>3, <2>4 DEF HoldsCurrent, SameHolder, Driving
<1>7. ASSUME Holding(t)
      PROVE  \A u \in Turns \ {t} : ~Holding(u)'
  BY <1>2, <1>3, <1>7 DEF SameHolder
<1>8. CASE GoesOn(t)
  <2>1. Holding(t) /\ drives[t] = current /\ current \in Children
    BY <1>2, <1>8 DEF GoesOn, Holding, HoldsCurrent, Allocated, HandAllocated
  <2>2. drives'[t] = current /\ current' = current
    BY <1>8, <2>1 DEF GoesOn
  <2>3. /\ pc'[t] \in {"row", "work", "probe"} /\ state'[current] = "busy"
        /\ \A c \in Children \ {current} : state'[c] = state[c]
    BY <1>2, <1>8, <2>1 DEF GoesOn, HoldsCurrent, Driving, ChatTypeOK
  <2>4. \A c \in Children : OwnedChild(c)'
    BY <1>2, <2>2, <2>3 DEF OwnedChild, Driving
  <2> QED BY <1>7, <2>1, <2>2, <2>3, <2>4 DEF HoldsCurrent, SameHolder, Driving
<1>9. CASE Leaves(t)
  <2>1. Holding(t) /\ drives[t] = current /\ current \in Children /\ Entry = state[current]
    BY <1>2, <1>9, EntryOf, ChatAssumption
       DEF Leaves, Holding, HoldsCurrent, Allocated, HandAllocated, Children, NoChild
  <2>2. \A u \in Turns : ~Holding(u)'
    BY <1>7, <1>9, <2>1 DEF Leaves, Holding
  <2>3. \A c \in Children : state'[c] # "busy"
    <3>1. \A c \in Children \ {current} : state[c] # "busy" /\ state'[c] = state[c]
      BY <1>2, <1>9, <2>1 DEF Leaves, OwnedChild, ChatTypeOK
    <3>2. state'[current] # "busy"
      BY <1>9, <2>1 DEF Leaves, ChatTypeOK
    <3> QED BY <3>1, <3>2
  <2> QED BY <2>2, <2>3 DEF HoldsCurrent, SameHolder, OwnedChild
<1>10. CASE Stops(t)
  <2>1. Stopping = {} /\ current \in Children /\ Entry = state[current]
    BY <1>10, EntryOf DEF Stops, RaceSeen
  <2>2. \A u \in Turns \ {t} : ~Holding(u)'
    BY <1>3, <1>4, <1>10, <2>1 DEF Stops
  <2>3. /\ pc'[t] = "stopping" /\ drives'[t] = current' /\ current' = current
        /\ state' = state /\ state[current] \in {"ready", "dead"}
    BY <1>10, <2>1 DEF Stops
  <2>4. \A c \in Children : OwnedChild(c)'
    BY <1>2, <2>3 DEF OwnedChild
  <2> QED BY <2>2, <2>3, <2>4 DEF HoldsCurrent, SameHolder, Driving
<1>11. ASSUME NEW c \in Children, Starts(t, c)
       PROVE  Goal
  <2>1. \A u \in Turns \ {t} : ~Holding(u)'
    <3>1. CASE pc[t] = "stopping"
      BY <1>7, <3>1 DEF Holding
    <3>2. CASE pc[t] # "stopping"
      BY <1>3, <1>4, <1>11, <3>2 DEF Starts, RaceSeen
    <3> QED BY <3>1, <3>2
  <2>2. /\ pc'[t] = "start" /\ drives'[t] = current' /\ current' = c /\ state'[c] = "starting"
        /\ \A e \in Children \ {c} : state'[e] = state[e]
    BY <1>11 DEF Starts, ChatTypeOK
  <2>3. \A e \in Children : state[e] # "busy"
    <3>1. \A e \in Children : state[e] = "busy" => e = current
      BY <1>2 DEF OwnedChild
    <3>2. CASE pc[t] = "stopping"
      BY <1>2, <3>1, <3>2 DEF HoldsCurrent, Holding
    <3>3. CASE pc[t] # "stopping"
      <4>1. Entry \in {"none", "dead"}
        BY <1>11, <3>3 DEF Starts
      <4> QED BY <3>1, <4>1, EntryOf, ChatAssumption DEF Children, NoChild
    <3> QED BY <3>2, <3>3
  <2>4. \A e \in Children : OwnedChild(e)'
    BY <2>2, <2>3 DEF OwnedChild
  <2> QED BY <2>1, <2>2, <2>4 DEF HoldsCurrent, SameHolder, Driving
<1> HIDE DEF Goal
<1> QED BY <1>5, <1>6, <1>8, <1>9, <1>10, <1>11 DEF Moves, Goal

\* Every step keeps the hands apart, while no race was seen.
LEMMA OwnedStep ==
    ASSUME ChatTypeOK, Allocated, Owned, [ChatNext]_chatVars
    PROVE  Owned'
<1>1. CASE TableStill
  BY <1>1 DEF TableStill, Owned, HoldsCurrent, SameHolder, OwnedChild, Holding, Driving
<1>2. ASSUME NEW t \in Turns, Moves(t)
      PROVE  Owned'
  BY <1>2, OwnedMove, TableEffect, Zenon DEF Owned
<1> QED BY <1>1, <1>2, TableEffect

\* What a step may do to a dialog: settle a live one, once, or tell its asker.
SameOutcome(d) == outcome'[d] = outcome[d] /\ (d \in accepted' <=> d \in accepted)
Cancelled(d) == d \in Live /\ outcome'[d] = "cancelled" /\ (d \in accepted' <=> d \in accepted)
Valued(d) == d \in Live /\ outcome'[d] = "value" /\ d \in accepted'
SameReply(d) == phase'[d] = "answered" => phase[d] = "answered" /\ reply'[d] = reply[d]
Answered(d) == phase[d] # "answered" /\ reply'[d] = outcome[d] /\ outcome'[d] = outcome[d]

\* A dialog that is not live is not settled again.
LEMMA SettleEffect ==
    ASSUME ChatTypeOK, NEW ds, NEW o, Settle(ds, o), NEW d \in Dialogs
    PROVE  IF d \in ds /\ d \in Live THEN outcome'[d] = o ELSE outcome'[d] = outcome[d]
  BY DEF Settle

\* Every step treats every dialog in one of these ways.
LEMMA DialogEffect ==
    ASSUME ChatTypeOK, [ChatNext]_chatVars, NEW x \in Dialogs
    PROVE  /\ SameOutcome(x) \/ Cancelled(x) \/ Valued(x)
           /\ SameReply(x) \/ (Answered(x) /\ SameOutcome(x))
<1> DEFINE Goal ==
      /\ SameOutcome(x) \/ Cancelled(x) \/ Valued(x)
      /\ SameReply(x) \/ (Answered(x) /\ SameOutcome(x))
<1> SUFFICES Goal
  BY Zenon
<1>1. ASSUME UNCHANGED dialogVars
      PROVE  Goal
  BY <1>1 DEF dialogVars, SameOutcome, SameReply
\* What only cancels.
<1>2. ASSUME NEW ds, Settle(ds, "cancelled"), accepted' = accepted, reply' = reply,
             phase'[x] = "answered" => phase[x] = "answered"
      PROVE  Goal
  BY <1>2, SettleEffect DEF SameOutcome, Cancelled, SameReply
\* What takes an answer of the user.
<1>3. ASSUME NEW d \in Live, Settle({d}, "value"), accepted' = accepted \cup {d},
             UNCHANGED <<phase, reply>>
      PROVE  Goal
  <2>1. CASE x = d
    BY <1>3, <2>1, SettleEffect DEF Valued, SameReply, Live
  <2>2. CASE x # d
    BY <1>3, <2>2, SettleEffect DEF SameOutcome, SameReply
  <2> QED BY <2>1, <2>2
<1>4. ASSUME NEW t \in Turns, NEW next, Finish(t, next)
      PROVE  Goal
  BY <1>2, <1>4 DEF Finish
<1>5. ASSUME NEW t \in Turns, Return(t)
      PROVE  Goal
  BY <1>4, <1>5 DEF Return
<1>6. ASSUME NEW t \in Turns, TakeText(t)
      PROVE  Goal
  <2>1. UNCHANGED <<asker, phase, reply>>
    BY <1>6 DEF TakeText
  <2>2. PICK d \in Live : \/ Settle({d}, "value") /\ accepted' = accepted \cup {d}
                          \/ UNCHANGED <<outcome, accepted>>
    BY <1>6 DEF TakeText
  <2> QED BY <1>1, <1>3, <2>1, <2>2 DEF dialogVars
<1>7. ASSUME NEW t \in Turns, Dispatch(t) \/ EntryReleased(t) \/ EntryStarted(t) \/ Row(t)
      PROVE  Goal
  <2>1. \/ UNCHANGED dialogVars \/ Return(t)
        \/ Settle(Live, "cancelled") /\ UNCHANGED <<phase, accepted, reply>>
    BY <1>7 DEF Dispatch, EntryReleased, EntryStarted, Row
  <2> QED BY <1>1, <1>2, <1>5, <2>1
<1>8. ASSUME NEW t \in Turns, \/ Arrive(t) \/ WorkDone(t) \/ WorkFails(t)
                               \/ Probe(t) \/ Path(t) \/ Stopped(t)
      PROVE  Goal
  <2>1. UNCHANGED dialogVars \/ Return(t) \/ Finish(t, NoTurn)
    BY <1>8 DEF Arrive, WorkDone, WorkFails, Probe, Path, Stopped
  <2> QED BY <1>1, <1>4, <1>5, <2>1
<1>9. ASSUME NEW d \in Dialogs, NEW t \in Turns, AskDialog(d, t)
      PROVE  Goal
  BY <1>9 DEF AskDialog, SameOutcome, SameReply, ChatTypeOK
<1>10. ASSUME NEW d \in Dialogs, Sent(d)
       PROVE  Goal
  <2>1. phase'[x] = "answered" => phase[x] = "answered"
    BY <1>10 DEF Sent, ChatTypeOK
  <2>2. CASE outcome' = outcome
    BY <1>10, <2>1, <2>2 DEF Sent, SameOutcome, SameReply
  <2>3. CASE Settle({d}, "cancelled")
    BY <1>2, <1>10, <2>1, <2>3 DEF Sent
  <2> QED BY <1>10, <2>2, <2>3 DEF Sent
<1>11. ASSUME NEW d \in Dialogs, Tap(d)
       PROVE  Goal
  BY <1>3, <1>11 DEF Tap
<1>12. ASSUME NEW d \in Dialogs, Expire(d)
       PROVE  Goal
  BY <1>2, <1>12 DEF Expire
<1>13. ASSUME NEW d \in Dialogs, Respond(d)
       PROVE  Goal
  BY <1>13 DEF Respond, SameOutcome, SameReply, Answered, ChatTypeOK
<1>14. ASSUME NEW c \in Children, ChildDies(c)
       PROVE  Goal
  BY <1>1, <1>14 DEF ChildDies
<1>15. ASSUME UNCHANGED chatVars
       PROVE  Goal
  BY <1>1, <1>15 DEF chatVars, dialogVars
<1> HIDE DEF Goal
<1> QED
  BY <1>6, <1>7, <1>8, <1>9, <1>10, <1>11, <1>12, <1>13, <1>14, <1>15, Zenon
     DEF ChatNext, Handler, AtRest

\* So what is told of a dialog stays true.
LEMMA ToldStep ==
    ASSUME ChatTypeOK, \A d \in Dialogs : Told(d), [ChatNext]_chatVars
    PROVE  \A d \in Dialogs : Told(d)'
<1> TAKE d \in Dialogs
<1>1. CASE SameOutcome(d)
  BY <1>1, DialogEffect DEF Told, SameOutcome, SameReply, Answered
<1>2. CASE Cancelled(d) \/ Valued(d)
  <2>1. phase[d] # "answered" /\ outcome[d] = "none"
    BY <1>2 DEF Cancelled, Valued, Live
  <2>2. SameReply(d)
    BY <1>2, <2>1, DialogEffect DEF SameOutcome, Cancelled, Valued
  <2> QED BY <1>2, <2>1, <2>2 DEF Told, Cancelled, Valued, SameReply
<1> QED BY <1>1, <1>2, DialogEffect

\* Every step keeps the invariant.
LEMMA ChatStep == ChatInv /\ [ChatNext]_chatVars => ChatInv'
  BY TableEffect, AllocatedStep, OwnedStep, ToldStep, Zenon DEF ChatInv

\* The inductive invariant of the chat turns.
LEMMA ChatSafe == ChatSpec => []ChatInv
  BY ChatStart, ChatStep, PTL DEF ChatSpec

\* A busy child has one turn that drives it and will give it back, for any number
\* of turns, children and dialogs, while no stop overlapped with a turn.
THEOREM BusyIsOwnedHolds == ChatSpec => []BusyIsOwned
<1>1. ChatInv => BusyIsOwned
  <2> SUFFICES ASSUME ChatInv PROVE BusyIsOwned
    OBVIOUS
  <2>1. ASSUME ~raced, NEW t \in Turns, NEW u \in Turns, Driving(t), Driving(u)
        PROVE  t = u
    BY <2>1 DEF ChatInv, Owned, SameHolder, Driving, Holding
  <2>2. ASSUME ~raced, NEW c \in Children, state[c] = "busy"
        PROVE  \E t \in Turns : Driving(t) /\ drives[t] = c
    BY <2>2 DEF ChatInv, Owned, OwnedChild, HoldsCurrent, Driving, Holding
  <2> QED BY <2>1, <2>2 DEF ChatInv, BusyIsOwned
<1> QED BY <1>1, ChatSafe, PTL

\* What an asker gets is a value exactly if an answer of the user was reported as
\* taken for it.
THEOREM DialogsHonestHolds == ChatSpec => []DialogsHonest
<1>1. ChatInv => DialogsHonest
  BY DEF ChatInv, Told, DialogsHonest
<1> QED BY <1>1, ChatSafe, PTL
=============================================================================
