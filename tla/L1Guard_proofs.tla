--------------------------- MODULE L1Guard_proofs ---------------------------
(***************************************************************************)
(* Proofs about the adapter guard of L1Guard, for any number of messages,  *)
(* senders and kinds of traffic: the safety properties of the l1 run, and  *)
(* the serial turns it implements under plain traffic.                     *)
(*                                                                         *)
(* The inductive invariant is the conjunction of seven parts, each with a  *)
(* step lemma of its own and each resting on the ones before it: the       *)
(* types; no message is twice in what was handled and what waits           *)
(* (Distinct); what waits has no frame yet (Unstarted); without commands   *)
(* owner, lock and program counters agree (Serial); nothing is lost        *)
(* (NoneLost); what waits speaks for one sender (Attribution); under plain *)
(* traffic nothing waits for a session without an owner (PlainTurns).      *)
(***************************************************************************)
EXTENDS L1Guard, TLAPS, SequenceTheorems

(* Messages of a sequence *)

\* The empty event holds no message.
LEMMA InEmpty == ASSUME NEW m PROVE ~In(m, <<>>)
  BY DEF In

\* The event of one message holds it and no other.
LEMMA InSingle == ASSUME NEW x \in Message, NEW m PROVE In(m, <<x>>) <=> m = x
  BY DEF In

\* A merged event holds the messages of both.
LEMMA InConcat ==
  ASSUME NEW s \in Seq(Message), NEW t \in Seq(Message), NEW m
  PROVE  In(m, s \o t) <=> In(m, s) \/ In(m, t)
<1>1. ASSUME In(m, s \o t) PROVE In(m, s) \/ In(m, t)
  <2>1. PICK i \in 1..Len(s) + Len(t) : (s \o t)[i] = m
    BY <1>1, ConcatProperties, LenProperties DEF In
  <2>2. CASE i <= Len(s)
    BY <2>1, <2>2, ConcatProperties, LenProperties DEF In
  <2>3. CASE i > Len(s)
    <3>1. i - Len(s) \in 1..Len(t)
      BY <2>1, <2>3, LenProperties
    <3>2. t[i - Len(s)] = m
      BY <2>1, <2>3, ConcatProperties, LenProperties
    <3> QED
      BY <3>1, <3>2, LenProperties DEF In
  <2> QED
    BY <2>1, <2>2, <2>3, LenProperties
<1>2. ASSUME In(m, s) PROVE In(m, s \o t)
  <2>1. PICK i \in 1..Len(s) : s[i] = m
    BY <1>2, LenProperties DEF In
  <2>2. i \in DOMAIN (s \o t) /\ (s \o t)[i] = m
    BY <2>1, ConcatProperties, LenProperties
  <2> QED
    BY <2>2 DEF In
<1>3. ASSUME In(m, t) PROVE In(m, s \o t)
  <2>1. PICK i \in 1..Len(t) : t[i] = m
    BY <1>3, LenProperties DEF In
  <2>2. i + Len(s) \in DOMAIN (s \o t) /\ (s \o t)[i + Len(s)] = m
    BY <2>1, ConcatProperties, LenProperties
  <2> QED
    BY <2>2 DEF In
<1> QED
  BY <1>1, <1>2, <1>3

\* The message that names an event is one of its messages.
LEMMA InHead == ASSUME NEW e \in Seq(Message), e # <<>> PROVE In(Head(e), e) /\ Head(e) \in Message
<1>1. 1 \in DOMAIN e /\ e[1] = Head(e)
  BY LenProperties, EmptySeq
<1> QED
  BY <1>1, HeadTailProperties DEF In

\* No message twice
Once(s) == \A i, j \in DOMAIN s : s[i] = s[j] => i = j
Apart(s, t) == \A m \in Message : ~(In(m, s) /\ In(m, t))

\* Joining two events without a common message repeats none.
LEMMA OnceConcat ==
  ASSUME NEW s \in Seq(Message), NEW t \in Seq(Message),
         Once(s), Once(t), Apart(s, t)
  PROVE  Once(s \o t)
<1> DEFINE u == s \o t
<1> SUFFICES ASSUME NEW i \in 1..Len(s) + Len(t), NEW j \in 1..Len(s) + Len(t),
                    u[i] = u[j]
             PROVE  i = j
  BY ConcatProperties, LenProperties DEF Once
<1>0. /\ Len(s) \in Nat /\ Len(t) \in Nat
      /\ DOMAIN s = 1..Len(s) /\ DOMAIN t = 1..Len(t)
      /\ \A k \in 1..Len(s) + Len(t) : u[k] = IF k <= Len(s) THEN s[k] ELSE t[k - Len(s)]
  BY ConcatProperties, LenProperties
<1>1. CASE i <= Len(s) /\ j <= Len(s)
  BY <1>0, <1>1 DEF Once
<1>2. CASE i > Len(s) /\ j > Len(s)
  <2>1. i - Len(s) \in DOMAIN t /\ j - Len(s) \in DOMAIN t
    BY <1>0, <1>2
  <2>2. t[i - Len(s)] = t[j - Len(s)]
    BY <1>0, <1>2
  <2> QED
    BY <1>0, <2>1, <2>2 DEF Once
<1>3. ASSUME NEW k \in 1..Len(s), NEW l \in 1..Len(t), s[k] = t[l] PROVE FALSE
  BY <1>0, <1>3, ElementOfSeq DEF Apart, In
<1>4. CASE i <= Len(s) /\ j > Len(s)
  <2>1. i \in 1..Len(s) /\ j - Len(s) \in 1..Len(t) /\ s[i] = t[j - Len(s)]
    BY <1>0, <1>4
  <2> QED
    BY <2>1, <1>3
<1>5. CASE i > Len(s) /\ j <= Len(s)
  <2>1. j \in 1..Len(s) /\ i - Len(s) \in 1..Len(t) /\ s[j] = t[i - Len(s)]
    BY <1>0, <1>5
  <2> QED
    BY <2>1, <1>3
<1> QED
  BY <1>0, <1>1, <1>2, <1>4, <1>5

\* Events of one message or none repeat nothing.
LEMMA OnceShort == Once(<<>>) /\ \A x \in Message : Once(<<x>>)
  BY DEF Once

-----------------------------------------------------------------------------
(* What the shared pieces of the handlers do *)

\* mergePendingEvent appends to what waits or replaces it.
LEMMA MergeType ==
  ASSUME NEW e \in Seq(Message), NEW f \in Seq(Message)
  PROVE  Merge(e, f) \in {e \o f, f} /\ Merge(e, f) \in Seq(Message)
  BY ConcatProperties DEF Merge

\* mergePendingEvent makes up no message.
LEMMA InMerge ==
  ASSUME NEW e \in Seq(Message), NEW f \in Seq(Message), NEW m, In(m, Merge(e, f))
  PROVE  In(m, e) \/ In(m, f)
<1>1. CASE Merge(e, f) = e \o f
  <2>1. In(m, e \o f)
    BY <1>1
  <2> QED
    BY <2>1, InConcat
<1>2. CASE Merge(e, f) = f
  BY <1>2
<1> QED
  BY <1>1, <1>2, MergeType

\* The burst stays, or it moves to the slot.
LEMMA FlushMoves ==
  ASSUME TypeOK, Flush
  PROVE  /\ pending' \in Seq(Message) /\ buffer' \in Seq(Message) /\ timer' = FALSE
         /\ \/ pending' = pending /\ buffer' = buffer
            \/ pending' \in {buffer, pending \o buffer} /\ buffer' = <<>>
  BY MergeType, EmptySeq DEF Flush, TypeOK

\* A debounced message extends the burst, begins one behind the flushed burst
\* of somebody else, joins the slot, or is dropped.
LEMMA DebouncedMoves ==
  ASSUME ArriveDebounced
  PROVE  /\ n < N /\ n' = n + 1 /\ timer' \in BOOLEAN
         /\ UNCHANGED <<traffic, active, owner, pc, locals, handled>>
         /\ \/ /\ buffer' = Append(buffer, n + 1) /\ pending' = pending
               /\ buffer # <<>> => CanMerge(buffer, <<n + 1>>)
            \/ /\ buffer' = <<n + 1>> /\ pending' = Merge(pending, buffer)
               /\ Flushes
            \/ /\ buffer' = buffer
               /\ pending' = IF CanMerge(pending, <<n + 1>>) THEN Merge(pending, <<n + 1>>)
                             ELSE pending
               /\ buffer # <<>> /\ ~CanMerge(buffer, <<n + 1>>) /\ ~Flushes
  BY DEF ArriveDebounced

\* The types are kept by a spawn of a frame for the event e.
LEMMA SpawnType ==
  ASSUME TypeOK, NEW e \in Seq(Message), e # <<>>, NEW g \in Message,
         NEW from \in Message, NEW next \in FramePcs, Spawn(e, g, from, next)
  PROVE  /\ active' \in Message /\ owner' \in Message
         /\ pc' \in [Message -> FramePcs \cup CmdPcs \cup {"none"}]
         /\ ev' \in [Message -> Seq(Message)]
         /\ ref' \in [Message -> Message \cup {Nobody}]
         /\ handled' \in Seq(Message)
<1>1. Head(e) \in Message
  BY HeadTailProperties
<1>2. handled \o e \in Seq(Message)
  BY ConcatProperties DEF TypeOK
<1>3. "handler" \in FramePcs
  BY DEF FramePcs, TurnPcs
<1> QED
  BY <1>1, <1>2, <1>3 DEF TypeOK, Spawn

\* Every step keeps the types.
LEMMA TypeStep == TypeOK /\ [Next]_vars => TypeOK'
<1> SUFFICES ASSUME TypeOK, [Next]_vars PROVE TypeOK'
  OBVIOUS
<1> USE L1GuardAssumption DEF Nobody
<1> USE DEF queues, traffic, input, locals
<1>0. \A m \in Message : m \in Nat /\ m # 0 /\ m \in 1..N
  BY DEF Message
<1>n. n < N => n + 1 \in Message /\ n + 1 \in 0..N
  BY DEF TypeOK, Message
<1>e. <<>> \in Seq(Message) /\ \A x \in Message : <<x>> \in Seq(Message)
  OBVIOUS
<1>p. TurnPcs \subseteq FramePcs /\ {"handler", "late", "ended", "done"} \subseteq FramePcs
  BY DEF FramePcs, TurnPcs
<1>1. CASE ArriveIdle
  <2> DEFINE m == n + 1
  <2>1. m \in Message /\ <<m>> \in Seq(Message) /\ <<m>> # <<>> /\ n' = m
        /\ Spawn(<<m>>, m, m, "handler")
    BY <1>1, <1>n, <1>e DEF ArriveIdle
  <2>2. pending' \in Seq(Message) /\ buffer' \in Seq(Message) /\ timer' \in BOOLEAN
    BY <1>1, <1>e DEF ArriveIdle, Discard, TypeOK
  <2> HIDE DEF m
  <2>3. /\ active' \in Message /\ owner' \in Message
        /\ pc' \in [Message -> FramePcs \cup CmdPcs \cup {"none"}]
        /\ ev' \in [Message -> Seq(Message)]
        /\ ref' \in [Message -> Message \cup {Nobody}]
        /\ handled' \in Seq(Message)
    BY <2>1, <1>p, SpawnType
  <2> QED
    BY <1>1, <1>n, <2>1, <2>2, <2>3 DEF ArriveIdle, TypeOK, m
<1>2. CASE ArriveSessionCommand
  BY <1>2, <1>n, <1>e DEF ArriveSessionCommand, Discard, TypeOK, CmdPcs
<1>3. CASE ArriveInline
  BY <1>3, <1>n DEF ArriveInline, TypeOK
<1>4. CASE ArriveMerged
  <2>1. pending' \in Seq(Message)
    BY <1>4, <1>n, <1>e, MergeType DEF ArriveMerged, TypeOK
  <2> QED
    BY <1>4, <2>1, <1>n DEF ArriveMerged, TypeOK
<1>5. CASE ArriveDebounced
  <2>1. \A e \in Seq(Message) : n < N => /\ Append(e, n + 1) \in Seq(Message)
                                         /\ Merge(e, <<n + 1>>) \in Seq(Message)
    BY <1>n, <1>e, MergeType, AppendProperties
  <2>2. pending' \in Seq(Message) /\ buffer' \in Seq(Message) /\ timer' \in BOOLEAN
    BY <1>5, <1>n, <1>e, <2>1, DebouncedMoves, MergeType DEF TypeOK
  <2> QED
    BY <1>5, <2>2, <1>n, DebouncedMoves DEF TypeOK
<1>6. CASE TimerFires
  BY <1>6, FlushMoves DEF TimerFires, TypeOK
<1>7. ASSUME NEW m \in Message, HandlerReturns(m) PROVE TypeOK'
  <2>1. pending' \in Seq(Message) /\ buffer' \in Seq(Message) /\ timer' \in BOOLEAN
    BY <1>7, FlushMoves DEF HandlerReturns, TypeOK
  <2>2. pc' \in [Message -> FramePcs \cup CmdPcs \cup {"none"}]
    BY <1>7 DEF HandlerReturns, Goto, TypeOK, FramePcs, TurnPcs
  <2> QED
    BY <1>7, <2>1, <2>2 DEF HandlerReturns, TypeOK
<1>8. ASSUME NEW m \in Message, NoticeSent(m) \/ ReplySent(m) \/ Unwound(m) PROVE TypeOK'
  <2>1. pending' \in Seq(Message) /\ buffer' \in Seq(Message) /\ timer' \in BOOLEAN
    BY <1>8, FlushMoves DEF NoticeSent, ReplySent, Unwound, TypeOK
  <2>2. pc' \in [Message -> FramePcs \cup CmdPcs \cup {"none"}]
    BY <1>8 DEF NoticeSent, ReplySent, Unwound, Goto, TypeOK, FramePcs, TurnPcs
  <2> QED
    BY <1>8, <2>1, <2>2 DEF NoticeSent, ReplySent, Unwound, TypeOK
<1>9. ASSUME NEW m \in Message, InBandDrain(m) PROVE TypeOK'
  <2>1. CASE pending # <<>>
    <3> DEFINE g == IF active = Nobody THEN Head(pending) ELSE active
    <3>1. g \in Message
      BY <2>1, HeadTailProperties DEF TypeOK
    <3>2. Spawn(pending, g, m, "late")
      BY <1>9, <2>1 DEF InBandDrain, SpawnDrain
    <3> HIDE DEF g
    <3>3. /\ active' \in Message /\ owner' \in Message
          /\ pc' \in [Message -> FramePcs \cup CmdPcs \cup {"none"}]
          /\ ev' \in [Message -> Seq(Message)]
          /\ ref' \in [Message -> Message \cup {Nobody}]
          /\ handled' \in Seq(Message)
      BY <2>1, <3>1, <3>2, <1>p, SpawnType DEF TypeOK
    <3> QED
      BY <1>9, <2>1, <3>3, <1>e DEF InBandDrain, Discard, TypeOK
  <2>2. CASE pending = <<>>
    <3>1. pc' \in [Message -> FramePcs \cup CmdPcs \cup {"none"}]
      BY <1>9, <2>2, <1>p DEF InBandDrain, Goto, TypeOK
    <3> QED
      BY <1>9, <2>2, <3>1, FlushMoves DEF InBandDrain, TypeOK
  <2> QED
    BY <2>1, <2>2
<1>10. ASSUME NEW m \in Message, LateDrain(m) PROVE TypeOK'
  <2> DEFINE g == IF active = Nobody THEN Head(pending) ELSE active
  <2>1. g \in Message /\ pending # <<>>
    BY <1>10, HeadTailProperties DEF TypeOK, LateDrain
  <2>2. Spawn(pending, g, m, "ended")
    BY <1>10 DEF LateDrain, SpawnDrain
  <2> HIDE DEF g
  <2>3. /\ active' \in Message /\ owner' \in Message
        /\ pc' \in [Message -> FramePcs \cup CmdPcs \cup {"none"}]
        /\ ev' \in [Message -> Seq(Message)]
        /\ ref' \in [Message -> Message \cup {Nobody}]
        /\ handled' \in Seq(Message)
    BY <2>1, <2>2, <1>p, SpawnType DEF TypeOK
  <2> QED
    BY <1>10, <2>3, <1>e DEF LateDrain, TypeOK
<1>11. ASSUME NEW m \in Message, LateRequeue(m) \/ Cleanup(m) \/ Settle(m) PROVE TypeOK'
  <2>1. pc' \in [Message -> FramePcs \cup CmdPcs \cup {"none"}]
    BY <1>11, <1>p DEF LateRequeue, Cleanup, Settle, Goto, TypeOK
  <2>2. active' \in Message \cup {Nobody} /\ owner' \in Message \cup {Nobody}
    BY <1>11 DEF LateRequeue, Cleanup, Settle, TypeOK
  <2> QED
    BY <1>11, <2>1, <2>2 DEF LateRequeue, Cleanup, Settle, TypeOK
<1>12. ASSUME NEW m \in Message, CommandHandled(m) \/ CommandReplied(m) PROVE TypeOK'
  <2>1. pc' \in [Message -> FramePcs \cup CmdPcs \cup {"none"}]
    BY <1>12 DEF CommandHandled, CommandReplied, CancelOwner, Goto, TypeOK, CmdPcs
  <2>2. target' \in [Message -> Message \cup {Nobody}] /\ owner' \in Message \cup {Nobody}
    BY <1>12 DEF CommandHandled, CommandReplied, CancelOwner, TypeOK
  <2>3. cancelled' \in [Message -> BOOLEAN]
    BY <1>12 DEF CommandHandled, CommandReplied, CancelOwner, TypeOK
  <2> QED
    BY <1>12, <2>1, <2>2, <2>3 DEF CommandHandled, CommandReplied, TypeOK
<1>13. ASSUME NEW m \in Message, CommandFails(m) \/ CancelWaitEnds(m) PROVE TypeOK'
  <2>1. CASE CommandFails(m)
    <3>1. active' \in Message \cup {Nobody}
      BY <2>1 DEF CommandFails, TypeOK
    <3> QED
      BY <2>1, <3>1, <1>p DEF CommandFails, Goto, TypeOK
  <2>2. CASE CancelWaitEnds(m)
    BY <2>2 DEF CancelWaitEnds, Goto, TypeOK, CmdPcs
  <2> QED
    BY <1>13, <2>1, <2>2
<1>14. ASSUME NEW m \in Message, CommandFlush(m) PROVE TypeOK'
  BY <1>14, FlushMoves DEF CommandFlush, Goto, TypeOK, CmdPcs
<1>15. ASSUME NEW m \in Message, CommandDrain(m) PROVE TypeOK'
  <2>1. CASE pending # <<>>
    <3>1. Head(pending) \in Message /\ Spawn(pending, Head(pending), m, "done")
      BY <1>15, <2>1, HeadTailProperties DEF CommandDrain, TypeOK
    <3>2. /\ active' \in Message /\ owner' \in Message
          /\ pc' \in [Message -> FramePcs \cup CmdPcs \cup {"none"}]
          /\ ev' \in [Message -> Seq(Message)]
          /\ ref' \in [Message -> Message \cup {Nobody}]
          /\ handled' \in Seq(Message)
      BY <2>1, <3>1, <1>p, SpawnType DEF TypeOK
    <3> QED
      BY <1>15, <2>1, <3>2, <1>e DEF CommandDrain, TypeOK
  <2>2. CASE pending = <<>>
    BY <1>15, <2>2, <1>p DEF CommandDrain, Goto, TypeOK
  <2> QED
    BY <2>1, <2>2
<1>16. CASE UNCHANGED vars
  BY <1>16 DEF vars, TypeOK
<1> QED
  BY <1>1, <1>2, <1>3, <1>4, <1>5, <1>6, <1>7, <1>8, <1>9, <1>10, <1>11,
     <1>12, <1>13, <1>14, <1>15, <1>16 DEF Next, Arrive, Frame, Command

-----------------------------------------------------------------------------
(* No message is handed over twice *)

\* A message is in one place at most: handled, in the slot or in the burst.
Distinct ==
    /\ Once(handled) /\ Once(pending) /\ Once(buffer)
    /\ Apart(handled, pending) /\ Apart(handled, buffer) /\ Apart(pending, buffer)
    /\ \A m \in Message : In(m, handled) \/ In(m, pending) \/ In(m, buffer) => m <= n

\* mergePendingEvent repeats no message.
LEMMA MergeDistinct ==
  ASSUME NEW e \in Seq(Message), NEW f \in Seq(Message), Once(e), Once(f), Apart(e, f)
  PROVE  /\ Once(Merge(e, f))
         /\ \A m \in Message : In(m, Merge(e, f)) => In(m, e) \/ In(m, f)
<1>1. CASE Merge(e, f) = e \o f
  BY <1>1, OnceConcat, InConcat
<1>2. CASE Merge(e, f) = f
  BY <1>2
<1> QED
  BY <1>1, <1>2, MergeType

\* A flush of the debounced burst repeats no message.
LEMMA FlushDistinct ==
  ASSUME TypeOK, Distinct, Flush, n' = n, handled' = handled
  PROVE  Distinct'
<1>1. CASE pending' = pending /\ buffer' = buffer
  BY <1>1 DEF Distinct, Once, Apart, In
<1>2. CASE pending' \in {buffer, pending \o buffer} /\ buffer' = <<>>
  <2>1. Once(pending') /\ \A m \in Message : In(m, pending') => In(m, pending) \/ In(m, buffer)
    <3>1. CASE pending' = buffer
      BY <3>1 DEF Distinct
    <3>2. CASE pending' = pending \o buffer
      BY <3>2, OnceConcat, InConcat DEF TypeOK, Distinct
    <3> QED
      BY <1>2, <3>1, <3>2
  <2>2. Once(handled') /\ Once(buffer')
    BY <1>2, OnceShort DEF Distinct
  <2>3. \A m \in Message : ~In(m, buffer') /\ (In(m, handled') <=> In(m, handled))
    BY <1>2, InEmpty
  <2> QED
    BY <2>1, <2>2, <2>3 DEF Distinct, Apart
<1> QED
  BY <1>1, <1>2, FlushMoves

\* The slot is handed over, and the burst takes its place or waits on.
LEMMA SpawnDistinct ==
  ASSUME TypeOK, Distinct, n' = n, handled' = handled \o pending,
         \/ pending' = buffer /\ buffer' = <<>>
         \/ pending' = <<>> /\ buffer' = buffer
  PROVE  Distinct'
<1>1. Once(handled') /\ \A m \in Message : In(m, handled') <=> In(m, handled) \/ In(m, pending)
  BY OnceConcat, InConcat DEF TypeOK, Distinct
<1>2. Once(pending') /\ Once(buffer')
  BY OnceShort DEF Distinct
<1>3. \A m \in Message : (In(m, pending') => In(m, buffer)) /\ (In(m, buffer') => In(m, buffer))
                          /\ ~(In(m, pending') /\ In(m, buffer'))
  BY InEmpty
<1> QED
  BY <1>1, <1>2, <1>3 DEF Distinct, Apart

\* No step hands a message over twice or lets it wait in two places.
LEMMA DistinctStep == TypeOK /\ Distinct /\ [Next]_vars => Distinct'
<1> SUFFICES ASSUME TypeOK, Distinct, [Next]_vars PROVE Distinct'
  OBVIOUS
<1> USE DEF queues, traffic, input, locals
<1>0. \A m \in Message : m \in Nat
  BY DEF Message
<1>n. /\ n \in Nat
      /\ \A m \in Message : In(m, handled) \/ In(m, pending) \/ In(m, buffer) => m # n + 1 /\ m <= n + 1
  BY <1>0, L1GuardAssumption DEF Distinct, TypeOK
<1>a. n < N => /\ n + 1 \in Message
               /\ <<n + 1>> \in Seq(Message) /\ Once(<<n + 1>>)
               /\ \A m : In(m, <<n + 1>>) <=> m = n + 1
  BY <1>n, InSingle, OnceShort, L1GuardAssumption DEF Message
<1>s. /\ handled \in Seq(Message) /\ pending \in Seq(Message) /\ buffer \in Seq(Message)
  BY DEF TypeOK
<1>1. CASE ArriveIdle
  <2>1. n < N /\ n' = n + 1 /\ handled' = handled \o <<n + 1>>
    BY <1>1 DEF ArriveIdle, Spawn
  <2>2. Once(handled')
    BY <2>1, <1>n, <1>a, <1>s, OnceConcat DEF Distinct, Apart
  <2>5. \A m \in Message : In(m, handled') <=> In(m, handled) \/ m = n + 1
    BY <2>1, <1>a, <1>s, InConcat
  <2>3. \/ pending' = pending /\ buffer' = buffer
        \/ pending' = <<>> /\ buffer' = <<>>
    BY <1>1 DEF ArriveIdle, Discard
  <2>4. /\ Once(pending') /\ Once(buffer')
        /\ \A m \in Message : (In(m, pending') => In(m, pending)) /\ (In(m, buffer') => In(m, buffer))
    BY <2>3, OnceShort, InEmpty DEF Distinct
  <2> QED
    BY <2>1, <2>2, <2>4, <2>5, <1>n, <1>0 DEF Distinct, Apart
<1>2. CASE ArriveSessionCommand
  <2>1. n' = n + 1 /\ handled' = handled /\ pending' = pending /\ buffer' = <<>>
    BY <1>2 DEF ArriveSessionCommand, Discard
  <2> QED
    BY <2>1, <1>n, InEmpty, OnceShort DEF Distinct, Apart
<1>3. CASE ArriveInline
  <2>1. n' = n + 1 /\ handled' = handled /\ pending' = pending /\ buffer' = buffer
    BY <1>3 DEF ArriveInline
  <2> QED
    BY <2>1, <1>n DEF Distinct, Apart
<1>4. CASE ArriveMerged
  <2>1. /\ n < N /\ n' = n + 1 /\ handled' = handled /\ buffer' = buffer
        /\ pending' = Merge(pending, <<n + 1>>)
    BY <1>4 DEF ArriveMerged
  <2>2. Once(pending') /\ \A m \in Message : In(m, pending') => In(m, pending) \/ m = n + 1
    BY <2>1, <1>n, <1>a, <1>s, MergeDistinct DEF Distinct, Apart
  <2> QED
    BY <2>1, <2>2, <1>n DEF Distinct, Apart
<1>5. CASE ArriveDebounced
  <2>0. n < N /\ n' = n + 1 /\ handled' = handled
    BY <1>5, DebouncedMoves DEF locals
  <2>1. CASE buffer' = Append(buffer, n + 1) /\ pending' = pending
    <3>1. Append(buffer, n + 1) = buffer \o <<n + 1>>
      BY <2>0, <1>a, <1>s, AppendIsConcat
    <3>2. Once(buffer')
      BY <2>0, <2>1, <3>1, <1>n, <1>a, <1>s, OnceConcat DEF Distinct, Apart
    <3>3. ASSUME NEW m \in Message, In(m, buffer') PROVE In(m, buffer) \/ m = n + 1
      <4>1. In(m, buffer \o <<n + 1>>) <=> In(m, buffer) \/ In(m, <<n + 1>>)
        BY <2>0, <1>a, <1>s, InConcat
      <4> QED
        BY <3>3, <4>1, <2>0, <2>1, <3>1, <1>a
    <3> QED
      BY <2>0, <2>1, <3>2, <3>3, <1>n DEF Distinct, Apart
  <2>2. CASE buffer' = <<n + 1>> /\ pending' = Merge(pending, buffer)
    <3>1. Once(pending') /\ \A m \in Message : In(m, pending') => In(m, pending) \/ In(m, buffer)
      BY <2>2, <1>s, MergeDistinct DEF Distinct
    <3> QED
      BY <2>0, <2>2, <3>1, <1>n, <1>a DEF Distinct, Apart
  <2>3. CASE buffer' = buffer /\ pending' \in {pending, Merge(pending, <<n + 1>>)}
    <3>1. Once(pending') /\ \A m \in Message : In(m, pending') => In(m, pending) \/ m = n + 1
      BY <2>0, <2>3, <1>n, <1>a, <1>s, MergeDistinct DEF Distinct, Apart
    <3> QED
      BY <2>0, <2>3, <3>1, <1>n DEF Distinct, Apart
  <2> QED
    BY <1>5, <2>1, <2>2, <2>3, DebouncedMoves
<1>6. CASE TimerFires
  BY <1>6, FlushDistinct DEF TimerFires
<1>7. ASSUME NEW m \in Message,
             HandlerReturns(m) \/ NoticeSent(m) \/ ReplySent(m) \/ Unwound(m) \/ CommandFlush(m)
      PROVE  Distinct'
  <2>1. n' = n /\ handled' = handled /\ (Flush \/ (pending' = pending /\ buffer' = buffer))
    BY <1>7 DEF HandlerReturns, NoticeSent, ReplySent, Unwound, CommandFlush
  <2> QED
    BY <2>1, FlushDistinct DEF Distinct
<1>8. ASSUME NEW m \in Message, InBandDrain(m) \/ LateDrain(m) \/ CommandDrain(m)
      PROVE  Distinct'
  <2>1. CASE pending # <<>>
    BY <1>8, <2>1, SpawnDistinct DEF InBandDrain, LateDrain, CommandDrain, SpawnDrain, Spawn,
       Discard
  <2>2. CASE pending = <<>>
    BY <1>8, <2>2, FlushDistinct DEF InBandDrain, LateDrain, CommandDrain, Distinct
  <2> QED
    BY <2>1, <2>2
<1>9. ASSUME NEW m \in Message,
             \/ LateRequeue(m) \/ Cleanup(m) \/ Settle(m) \/ CommandHandled(m)
             \/ CommandReplied(m) \/ CommandFails(m) \/ CancelWaitEnds(m)
      PROVE  Distinct'
  BY <1>9 DEF LateRequeue, Cleanup, Settle, CommandHandled, CommandReplied,
              CommandFails, CancelWaitEnds, Distinct
<1>10. CASE UNCHANGED vars
  BY <1>10 DEF vars, Distinct
<1> QED
  BY <1>1, <1>2, <1>3, <1>4, <1>5, <1>6, <1>7, <1>8, <1>9, <1>10
     DEF Next, Arrive, Frame, Command

-----------------------------------------------------------------------------
(* One turn at a time *)

\* A message that waits, or has not come yet, has no frame.
Unstarted ==
    \A m \in Message : m > n \/ In(m, pending) \/ In(m, buffer) => pc[m] = "none"

\* The frame of what waited starts; what still waits has no frame.
LEMMA SpawnUnstarted ==
  ASSUME TypeOK, Distinct, Unstarted, pending # <<>>, NEW g, NEW from \in Message, NEW next,
         Spawn(pending, g, from, next), pc[from] # "none", n' = n,
         \/ pending' = buffer /\ buffer' = <<>>
         \/ pending' = <<>> /\ buffer' = buffer
  PROVE  Unstarted'
<1> DEFINE d == Head(pending)
<1>1. d \in Message /\ In(d, pending)
  BY InHead DEF TypeOK
<1>2. SUFFICES ASSUME NEW m \in Message, m > n \/ In(m, buffer) PROVE pc'[m] = "none"
  BY InEmpty DEF Unstarted
<1>3. pc[m] = "none" /\ m # from
  BY <1>2 DEF Unstarted
<1>4. m # d
  BY <1>1, <1>2 DEF Distinct, Apart, TypeOK, Message
<1> HIDE DEF d
<1>5. pc' = [pc EXCEPT ![d] = "handler", ![from] = next]
  BY DEF Spawn, d
<1> QED
  BY <1>3, <1>4, <1>5 DEF TypeOK

\* A step of a frame that at most flushes starts no frame.
LEMMA FlushUnstarted ==
  ASSUME TypeOK, Unstarted, n' = n, Flush \/ UNCHANGED <<pending, buffer>>,
         NEW from \in Message, NEW next, pc[from] # "none", Goto(from, next)
  PROVE  Unstarted'
<1>1. \A m \in Message : In(m, pending') \/ In(m, buffer') => In(m, pending) \/ In(m, buffer)
  <2>1. CASE pending' = pending /\ buffer' = buffer
    BY <2>1
  <2>2. CASE pending' = buffer /\ buffer' = <<>>
    BY <2>2, InEmpty
  <2>3. CASE pending' = pending \o buffer /\ buffer' = <<>>
    BY <2>3, InEmpty, InConcat DEF TypeOK
  <2> QED
    BY <2>1, <2>2, <2>3, FlushMoves
<1> QED
  BY <1>1 DEF Unstarted, Goto, TypeOK

\* No step starts the frame of a message that keeps waiting.
LEMMA UnstartedStep == TypeOK /\ Distinct /\ Unstarted /\ [Next]_vars => Unstarted'
<1> SUFFICES ASSUME TypeOK, Distinct, Unstarted, [Next]_vars PROVE Unstarted'
  OBVIOUS
<1> USE DEF queues, traffic, input, locals
<1>n. n \in Nat /\ \A m \in Message : m \in Nat /\ (m > n + 1 => m > n) /\ n + 1 > n
  BY L1GuardAssumption DEF TypeOK, Message
<1>a. n < N => /\ n + 1 \in Message /\ <<n + 1>> \in Seq(Message) /\ pc[n + 1] = "none"
               /\ \A m : In(m, <<n + 1>>) <=> m = n + 1
  BY <1>n, InSingle, L1GuardAssumption DEF Message, Unstarted
<1>s. pending \in Seq(Message) /\ buffer \in Seq(Message)
  BY DEF TypeOK
<1>m. \A e \in Seq(Message), f \in Seq(Message), m \in Message :
         In(m, Merge(e, f)) => In(m, e) \/ In(m, f)
  BY InMerge
<1>1. CASE ArriveIdle
  <2>0. Head(<<n + 1>>) = n + 1
    OBVIOUS
  <2>1. /\ n < N /\ n' = n + 1
        /\ pc' = [pc EXCEPT ![n + 1] = "handler", ![n + 1] = "handler"]
        /\ \/ pending' = pending /\ buffer' = buffer
           \/ pending' = <<>> /\ buffer' = <<>>
    BY <1>1, <2>0 DEF ArriveIdle, Spawn, Discard
  <2>2. \A m \in Message : In(m, pending') \/ In(m, buffer') =>
           (In(m, pending) \/ In(m, buffer)) /\ m # n + 1
    BY <2>1, <1>n, InEmpty DEF Distinct
  <2> QED
    BY <2>1, <2>2, <1>n DEF Unstarted, TypeOK
<1>2. CASE ArriveSessionCommand
  <2>1. /\ n < N /\ n' = n + 1 /\ pc' = [pc EXCEPT ![n + 1] = "cmdHandler"]
        /\ pending' = pending /\ buffer' = <<>>
    BY <1>2 DEF ArriveSessionCommand, Discard
  <2>2. \A m \in Message : In(m, pending') \/ In(m, buffer') =>
           (In(m, pending) \/ In(m, buffer)) /\ m # n + 1
    BY <2>1, <1>n, InEmpty DEF Distinct
  <2> QED
    BY <2>1, <2>2, <1>n DEF Unstarted, TypeOK
<1>3. CASE ArriveInline
  BY <1>3, <1>n DEF ArriveInline, Unstarted
<1>4. CASE ArriveMerged
  <2>1. /\ n < N /\ n' = n + 1 /\ pc' = pc /\ buffer' = buffer
        /\ pending' = Merge(pending, <<n + 1>>)
    BY <1>4 DEF ArriveMerged
  <2>2. \A m \in Message : In(m, pending') => In(m, pending) \/ m = n + 1
    BY <2>1, <1>a, <1>m, <1>s
  <2> QED
    BY <2>1, <2>2, <1>a, <1>n DEF Unstarted
<1>5. CASE ArriveDebounced
  <2>0. n < N /\ n' = n + 1 /\ pc' = pc
    BY <1>5, DebouncedMoves
  <2>1. \A m \in Message : In(m, pending') \/ In(m, buffer') =>
           In(m, pending) \/ In(m, buffer) \/ m = n + 1
    <3>1. CASE buffer' = Append(buffer, n + 1) /\ pending' = pending
      <4>1. buffer' = buffer \o <<n + 1>>
        BY <2>0, <3>1, <1>a, <1>s, AppendIsConcat
      <4>2. \A m \in Message : In(m, buffer \o <<n + 1>>) <=> In(m, buffer) \/ In(m, <<n + 1>>)
        BY <2>0, <1>a, <1>s, InConcat
      <4> QED
        BY <4>1, <4>2, <2>0, <3>1, <1>a
    <3>2. CASE buffer' = <<n + 1>> /\ pending' = Merge(pending, buffer)
      BY <2>0, <3>2, <1>a, <1>m, <1>s
    <3>3. CASE buffer' = buffer /\ pending' \in {pending, Merge(pending, <<n + 1>>)}
      BY <2>0, <3>3, <1>a, <1>m, <1>s
    <3> QED
      BY <1>5, <3>1, <3>2, <3>3, DebouncedMoves
  <2> QED
    BY <2>0, <2>1, <1>a, <1>n DEF Unstarted
<1>6. CASE TimerFires
  <2>1. \A m \in Message : In(m, pending') \/ In(m, buffer') => In(m, pending) \/ In(m, buffer)
    <3>1. CASE pending' = pending /\ buffer' = buffer
      BY <3>1
    <3>2. CASE pending' = buffer /\ buffer' = <<>>
      BY <3>2, InEmpty
    <3>3. CASE pending' = pending \o buffer /\ buffer' = <<>>
      BY <3>3, InEmpty, InConcat DEF TypeOK
    <3> QED
      BY <1>6, <3>1, <3>2, <3>3, FlushMoves DEF TimerFires
  <2> QED
    BY <1>6, <2>1 DEF TimerFires, Unstarted
<1>7. ASSUME NEW m \in Message, HandlerReturns(m) \/ NoticeSent(m) \/ ReplySent(m) \/ Unwound(m)
                                \/ CommandFlush(m)
      PROVE  Unstarted'
  <2>1. n' = n /\ pc[m] # "none" /\ (Flush \/ UNCHANGED <<pending, buffer>>)
    BY <1>7 DEF HandlerReturns, NoticeSent, ReplySent, Unwound, CommandFlush
  <2>2. \E next : Goto(m, next)
    BY <1>7 DEF HandlerReturns, NoticeSent, ReplySent, Unwound, CommandFlush
  <2> QED
    BY <2>1, <2>2, FlushUnstarted
<1>8. ASSUME NEW m \in Message, InBandDrain(m) \/ LateDrain(m) \/ CommandDrain(m)
      PROVE  Unstarted'
  <2>0. n' = n /\ pc[m] # "none"
    BY <1>8 DEF InBandDrain, LateDrain, CommandDrain
  <2>1. CASE pending # <<>>
    <3>1. \E g, next : Spawn(pending, g, m, next)
      BY <1>8, <2>1 DEF InBandDrain, LateDrain, CommandDrain, SpawnDrain
    <3>2. \/ pending' = buffer /\ buffer' = <<>>
          \/ pending' = <<>> /\ buffer' = buffer
      BY <1>8, <2>1 DEF InBandDrain, LateDrain, CommandDrain, Discard
    <3> QED
      BY <2>0, <2>1, <3>1, <3>2, SpawnUnstarted
  <2>2. CASE pending = <<>>
    <3>1. (Flush \/ UNCHANGED <<pending, buffer>>) /\ \E next : Goto(m, next)
      BY <1>8, <2>2 DEF InBandDrain, LateDrain, CommandDrain
    <3> QED
      BY <2>0, <3>1, FlushUnstarted
  <2> QED
    BY <2>1, <2>2
<1>9. ASSUME NEW m \in Message,
             \/ LateRequeue(m) \/ Cleanup(m) \/ Settle(m) \/ CommandHandled(m)
             \/ CommandReplied(m) \/ CommandFails(m) \/ CancelWaitEnds(m)
      PROVE  Unstarted'
  <2>1. n' = n /\ pc[m] # "none" /\ UNCHANGED <<pending, buffer>>
    BY <1>9 DEF LateRequeue, Cleanup, Settle, CommandHandled, CommandReplied,
                CommandFails, CancelWaitEnds
  <2>2. \E next : Goto(m, next)
    BY <1>9 DEF LateRequeue, Cleanup, Settle, CommandHandled, CommandReplied,
                CommandFails, CancelWaitEnds, CancelOwner
  <2> QED
    BY <2>1, <2>2, FlushUnstarted
<1>10. CASE UNCHANGED vars
  BY <1>10 DEF vars, Unstarted
<1> QED
  BY <1>1, <1>2, <1>3, <1>4, <1>5, <1>6, <1>7, <1>8, <1>9, <1>10
     DEF Next, Arrive, Frame, Command

\* Without session commands the lock and the task move together: the frame that
\* is in its turn owns the session, and the owner holds the lock it adopted.
Serial ==
    ~Commands =>
        /\ \A m \in Message : pc[m] \notin CmdPcs /\ ~cancelled[m]
        /\ active # Nobody <=> owner # Nobody
        /\ owner # Nobody => active = ref[owner] /\ pc[owner] \in TurnPcs \cup {"late"}
        /\ \A m \in Message : pc[m] \in TurnPcs => owner = m

\* The owner, or a frame that nobody has relieved, hands over to the slot.
LEMMA SpawnSerial ==
  ASSUME TypeOK, Unstarted, Serial, ~Commands, ~Commands', pending # <<>>,
         NEW from \in Message, pc[from] \in TurnPcs \cup {"late"},
         owner \in {Nobody, from}, NEW next \in {"late", "ended"},
         SpawnDrain(from, next), UNCHANGED <<cancelled, target>>
  PROVE  Serial'
<1> DEFINE d == Head(pending)
           g == IF active = Nobody THEN d ELSE active
<1>1. d \in Message /\ pc[d] = "none"
  BY InHead DEF TypeOK, Unstarted
<1>2. d # from
  BY <1>1 DEF TurnPcs
<1>3. g \in Message /\ g # Nobody /\ d # Nobody
  BY <1>1 DEF TypeOK, Message, Nobody
<1>4. /\ active' = g /\ owner' = d
      /\ pc' = [pc EXCEPT ![d] = "handler", ![from] = next]
      /\ ref' = [ref EXCEPT ![d] = g]
  BY DEF SpawnDrain, Spawn
<1> HIDE DEF d, g
<1>5. /\ pc'[d] = "handler" /\ pc'[from] = next /\ ref'[d] = g
      /\ \A m \in Message : m \notin {d, from} => pc'[m] = pc[m]
  BY <1>1, <1>2, <1>4 DEF TypeOK
<1>6. ASSUME NEW m \in Message, pc'[m] \in TurnPcs PROVE m = d
  <2>1. CASE m = from
    BY <1>5, <1>6, <2>1 DEF TurnPcs
  <2>2. CASE m \notin {d, from}
    BY <1>5, <1>6, <2>2 DEF Serial, Nobody, Message
  <2> QED
    BY <2>1, <2>2
<1>7. \A m \in Message : pc'[m] \notin CmdPcs /\ ~cancelled'[m]
  BY <1>5 DEF Serial, CmdPcs
<1> QED
  BY <1>3, <1>4, <1>5, <1>6, <1>7 DEF Serial, TurnPcs

\* A frame goes on within its turn, or leaves it.
LEMMA GotoSerial ==
  ASSUME TypeOK, Serial, ~Commands, ~Commands',
         NEW m \in Message, NEW next \in FramePcs, Goto(m, next),
         next \in TurnPcs => pc[m] \in TurnPcs,
         owner = m => next \in TurnPcs \cup {"late"},
         UNCHANGED <<active, owner, ref, cancelled>>
  PROVE  Serial'
<1>1. \A x \in Message : pc'[x] = IF x = m THEN next ELSE pc[x]
  BY DEF Goto, TypeOK
<1>2. \A x \in Message : pc'[x] \notin CmdPcs /\ ~cancelled'[x]
  BY <1>1 DEF Serial, CmdPcs, FramePcs, TurnPcs
<1>3. owner \in Message \/ owner = Nobody
  BY DEF TypeOK
<1>4. owner # Nobody => pc'[owner] \in TurnPcs \cup {"late"}
  BY <1>1, <1>3 DEF Serial
<1>5. \A x \in Message : pc'[x] \in TurnPcs => owner = x
  BY <1>1 DEF Serial
<1> QED
  BY <1>2, <1>4, <1>5 DEF Serial

\* Without commands, every step keeps owner, lock and frames in agreement.
LEMMA SerialStep == TypeOK /\ Unstarted /\ Serial /\ [Next]_vars => Serial'
<1> SUFFICES ASSUME TypeOK, Unstarted, Serial, [Next]_vars, ~Commands' PROVE Serial'
  BY DEF Serial
<1> USE DEF queues, traffic, input, locals
<1>0. kind' = kind
  BY DEF Next, vars, Arrive, ArriveIdle, ArriveSessionCommand, ArriveInline, ArriveMerged,
         ArriveDebounced, TimerFires, Frame, Command, HandlerReturns, NoticeSent, ReplySent,
         Unwound, InBandDrain, LateDrain, LateRequeue, Cleanup, Settle, CommandHandled,
         CommandReplied, CommandFails, CancelWaitEnds, CommandFlush, CommandDrain
<1>c. ~Commands
  BY <1>0 DEF Commands
<1>o. owner # Nobody => owner \in Message
  BY DEF TypeOK
<1>1. CASE ArriveIdle
  <2>1. active = Nobody /\ owner = Nobody
    BY <1>1, <1>c DEF ArriveIdle, Busy, Stale, Serial, TurnPcs
  <2>2. n + 1 \in Message /\ n + 1 # Nobody
    BY <1>1, L1GuardAssumption DEF ArriveIdle, TypeOK, Message, Nobody
  <2>3. Head(<<n + 1>>) = n + 1
    OBVIOUS
  <2>4. /\ active' = n + 1 /\ owner' = n + 1 /\ cancelled' = cancelled
        /\ pc' = [pc EXCEPT ![n + 1] = "handler", ![n + 1] = "handler"]
        /\ ref' = [ref EXCEPT ![n + 1] = n + 1]
    BY <1>1, <2>3 DEF ArriveIdle, Spawn
  <2>5. /\ pc'[n + 1] = "handler" /\ ref'[n + 1] = n + 1
        /\ \A m \in Message : m # n + 1 => pc'[m] = pc[m]
    BY <2>2, <2>4 DEF TypeOK
  <2>6. \A m \in Message : pc[m] \notin TurnPcs
    BY <2>1, <1>c DEF Serial, Message, Nobody
  <2>7. \A m \in Message : pc'[m] \in TurnPcs => m = n + 1
    BY <2>5, <2>6
  <2>8. \A m \in Message : pc'[m] \notin CmdPcs /\ ~cancelled'[m]
    BY <2>4, <2>5, <1>c DEF Serial, CmdPcs
  <2> QED
    BY <2>2, <2>4, <2>5, <2>7, <2>8 DEF Serial, TurnPcs
<1>2. CASE ArriveSessionCommand
  <2>1. n + 1 \in Message
    BY <1>2, L1GuardAssumption DEF ArriveSessionCommand, TypeOK, Message
  <2> QED
    BY <1>2, <2>1, <1>c DEF ArriveSessionCommand, Commands
<1>3. CASE ArriveInline \/ ArriveMerged \/ TimerFires
  BY <1>3, <1>c DEF ArriveInline, ArriveMerged, TimerFires, Serial
<1>5. CASE ArriveDebounced
  BY <1>5, <1>c, DebouncedMoves DEF Serial
<1>6. ASSUME NEW m \in Message, HandlerReturns(m) \/ NoticeSent(m) \/ ReplySent(m) PROVE Serial'
  <2>1. /\ UNCHANGED <<active, owner, ref, cancelled>>
        /\ \E next \in TurnPcs : Goto(m, next)
    BY <1>6 DEF HandlerReturns, NoticeSent, ReplySent, TurnPcs
  <2>2. pc[m] \in TurnPcs
    BY <1>6 DEF HandlerReturns, NoticeSent, ReplySent, TurnPcs
  <2> QED
    BY <2>1, <2>2, <1>c, GotoSerial DEF FramePcs
<1>7. ASSUME NEW m \in Message, Unwound(m) PROVE Serial'
  <2>1. Goto(m, "late") /\ UNCHANGED <<active, owner, ref, cancelled>>
    BY <1>7 DEF Unwound
  <2> QED
    BY <2>1, <1>c, GotoSerial DEF FramePcs, TurnPcs
<1>8. ASSUME NEW m \in Message, InBandDrain(m) PROVE Serial'
  <2>1. pc[m] \in TurnPcs /\ owner = m
    BY <1>8, <1>c DEF InBandDrain, Serial, TurnPcs
  <2>2. CASE pending # <<>>
    BY <1>8, <1>c, <2>1, <2>2, SpawnSerial DEF InBandDrain
  <2>3. CASE pending = <<>>
    <3>1. Goto(m, "late") /\ UNCHANGED <<active, owner, ref, cancelled>>
      BY <1>8, <2>3 DEF InBandDrain
    <3> QED
      BY <3>1, <1>c, GotoSerial DEF FramePcs, TurnPcs
  <2> QED
    BY <2>2, <2>3
<1>9. ASSUME NEW m \in Message, LateDrain(m) PROVE Serial'
  BY <1>9, <1>c, SpawnSerial DEF LateDrain
<1>10. ASSUME NEW m \in Message, LateRequeue(m) PROVE Serial'
  <2>1. Goto(m, "ended") /\ owner # m /\ UNCHANGED <<active, owner, ref, cancelled>>
    BY <1>10 DEF LateRequeue
  <2> QED
    BY <2>1, <1>c, GotoSerial DEF FramePcs, TurnPcs
<1>11. ASSUME NEW m \in Message, Cleanup(m) PROVE Serial'
  <2>0. Goto(m, "ended") /\ UNCHANGED <<ref, cancelled>> /\ pc[m] = "late"
    BY <1>11 DEF Cleanup
  <2>1. CASE owner = m
    <3>1. active' = Nobody /\ owner' = Nobody
      BY <1>11, <1>c, <2>1 DEF Cleanup, Serial, Nobody, Message
    <3>2. \A x \in Message : pc'[x] = IF x = m THEN "ended" ELSE pc[x]
      BY <2>0 DEF Goto, TypeOK
    <3>3. \A x \in Message : pc[x] \in TurnPcs => x = m
      BY <2>1, <1>c DEF Serial
    <3>4. \A x \in Message : pc'[x] \notin TurnPcs
      BY <3>2, <3>3 DEF TurnPcs
    <3>5. \A x \in Message : pc'[x] \notin CmdPcs /\ ~cancelled'[x]
      BY <3>2, <2>0, <1>c DEF Serial, CmdPcs
    <3> QED
      BY <3>1, <3>4, <3>5 DEF Serial
  <2>2. CASE owner # m
    <3>1. UNCHANGED <<active, owner, ref, cancelled>>
      BY <1>11, <2>0, <2>2 DEF Cleanup
    <3> QED
      BY <2>0, <2>2, <3>1, <1>c, GotoSerial DEF FramePcs, TurnPcs
  <2> QED
    BY <2>1, <2>2
<1>12. ASSUME NEW m \in Message, Settle(m) PROVE Serial'
  <2>1. owner # m
    BY <1>12, <1>c DEF Settle, Serial, TurnPcs, Message, Nobody
  <2>2. Goto(m, "done") /\ UNCHANGED <<active, owner, ref, cancelled>>
    BY <1>12 DEF Settle
  <2> QED
    BY <2>1, <2>2, <1>c, GotoSerial DEF FramePcs, TurnPcs
<1>13. ASSUME NEW m \in Message, Command(m) PROVE Serial'
  <2>1. pc[m] \in CmdPcs
    BY <1>13 DEF Command, CommandHandled, CommandReplied, CommandFails, CancelWaitEnds,
                 CommandFlush, CommandDrain, CmdPcs
  <2> QED
    BY <2>1, <1>c DEF Serial
<1>14. CASE UNCHANGED vars
  BY <1>14, <1>c DEF vars, Serial
<1> QED
  BY <1>1, <1>2, <1>3, <1>5, <1>6, <1>7, <1>8, <1>9, <1>10, <1>11, <1>12,
     <1>13, <1>14 DEF Next, Arrive, Frame

-----------------------------------------------------------------------------
(* No message is lost *)

\* Without replacing media two events merge into both.
LEMMA MergeKeeps ==
  ASSUME TypeOK, ~Replacing, NEW e \in Seq(Message), NEW f \in Seq(Message), NEW m
  PROVE  In(m, e) \/ In(m, f) => In(m, Merge(e, f))
<1>1. \A x \in Seq(Message) : ~Has(x, "other")
  BY LenProperties DEF Has, Replacing
<1>2. Merge(e, f) = e \o f
  BY <1>1 DEF Merge, Combine
<1> QED
  BY <1>2, InConcat

\* A flush loses no message.
LEMMA FlushKeeps ==
  ASSUME TypeOK, ~Replacing, Flush, NEW m, In(m, pending) \/ In(m, buffer)
  PROVE  In(m, pending') \/ In(m, buffer')
<1>1. CASE Flushes
  <2>1. pending' = Merge(pending, buffer)
    BY <1>1 DEF Flush
  <2> QED
    BY <2>1, MergeKeeps DEF TypeOK
<1>2. CASE ~Flushes
  BY <1>2 DEF Flush
<1> QED
  BY <1>1, <1>2

\* A message of the slot is handled when the slot is drained.
LEMMA SpawnKeeps ==
  ASSUME TypeOK, handled' = handled \o pending, \/ pending' = buffer
                                                \/ buffer' = buffer,
         NEW m, In(m, handled) \/ In(m, pending) \/ In(m, buffer)
  PROVE  In(m, handled') \/ In(m, pending') \/ In(m, buffer')
<1>1. In(m, handled \o pending) <=> In(m, handled) \/ In(m, pending)
  BY InConcat DEF TypeOK
<1> QED
  BY <1>1

\* Of two speakers, one who did not speak the burst has spoken the slot that
\* the burst cannot join.
LEMMA TwoSpeakers ==
  ASSUME TypeOK, ~Crowded, queueMode, NEW m \in Message,
         buffer # <<>>, ~CanMerge(buffer, <<m>>), ~Flushes
  PROVE  CanMerge(pending, <<m>>)
<1>1. PICK a \in Senders \ {Anonymous}, b \in Senders \ {Anonymous} :
         \A x \in Message : sender[x] \in {a, b}
  BY DEF Crowded
<1>2. pending # <<>> /\ ~CanMerge(pending, buffer)
  BY DEF Flushes
<1>3. Head(pending) \in Message /\ Head(buffer) \in Message /\ Head(<<m>>) = m
  BY <1>2, HeadTailProperties DEF TypeOK
<1> QED
  BY <1>1, <1>2, <1>3 DEF CanMerge

\* No step changes what arrives.
LEMMA TrafficFixed ==
  [Next]_vars => UNCHANGED traffic
  BY DEF Next, vars, input, Arrive, ArriveIdle, ArriveSessionCommand, ArriveInline, ArriveMerged,
         ArriveDebounced, TimerFires, Frame, Command, HandlerReturns, NoticeSent, ReplySent,
         Unwound, InBandDrain, LateDrain, LateRequeue, Cleanup, Settle, CommandHandled,
         CommandReplied, CommandFails, CancelWaitEnds, CommandFlush, CommandDrain

\* Without commands, replacing media and third speakers no step loses a message.
LEMMA KeptStep == TypeOK /\ Serial /\ NoneLost /\ [Next]_vars => NoneLost'
<1> SUFFICES ASSUME TypeOK, Serial, NoneLost, [Next]_vars,
                    ~Commands', ~Replacing', ~Crowded',
                    NEW m \in Message, ForATurn(m)'
             PROVE  In(m, handled') \/ In(m, pending') \/ In(m, buffer')
  BY DEF NoneLost, Kept
<1> USE DEF queues, input, locals
<1>t. kind' = kind /\ sender' = sender /\ queueMode' = queueMode
  BY TrafficFixed DEF traffic
<1>c. ~Commands /\ ~Replacing /\ ~Crowded
  BY <1>t DEF Commands, Replacing, Crowded
<1>k. ForATurn(m) => In(m, handled) \/ In(m, pending) \/ In(m, buffer)
  BY <1>c DEF NoneLost, Kept
<1>w. m <= n \/ (m = n + 1 /\ n' = n + 1) \/ (n' # n /\ n' # n + 1)
  BY L1GuardAssumption DEF TypeOK, Message, ForATurn
<1>f. (m <= n => ForATurn(m)) /\ kind[m] \in {"text", "photo"}
  BY <1>t DEF ForATurn
<1>s. /\ handled \in Seq(Message) /\ pending \in Seq(Message) /\ buffer \in Seq(Message)
      /\ <<m>> \in Seq(Message) /\ In(m, <<m>>)
  BY InSingle DEF TypeOK
<1>1. CASE ArriveIdle
  <2>0. ~Stale
    BY <1>c DEF Stale, Serial, TurnPcs
  <2>1. UNCHANGED queues /\ handled' = handled \o <<n + 1>> /\ n' = n + 1 /\ n + 1 \in Message
    <3>1. UNCHANGED queues /\ handled' = handled \o <<n + 1>> /\ n' = n + 1 /\ n < N
      BY <1>1, <2>0 DEF ArriveIdle, Spawn
    <3> QED
      BY <3>1, L1GuardAssumption DEF TypeOK, Message
  <2>2. <<n + 1>> \in Seq(Message) /\ In(n + 1, <<n + 1>>)
    BY <2>1, InSingle
  <2>3. In(m, handled \o <<n + 1>>) <=> In(m, handled) \/ In(m, <<n + 1>>)
    BY <2>2, <1>s, InConcat
  <2> QED
    BY <2>1, <2>2, <2>3, <1>k, <1>w, <1>f, L1GuardAssumption DEF TypeOK
<1>2. CASE ArriveSessionCommand
  BY <1>2, <1>c, L1GuardAssumption DEF ArriveSessionCommand, Commands, Message, TypeOK
<1>3. CASE ArriveInline
  BY <1>3, <1>k, <1>w, <1>f, L1GuardAssumption DEF ArriveInline, TypeOK
<1>4. CASE ArriveMerged
  <2>1. /\ pending' = Merge(pending, <<n + 1>>) /\ n' = n + 1 /\ n + 1 \in Message
        /\ UNCHANGED <<handled, buffer>>
    BY <1>4, L1GuardAssumption DEF ArriveMerged, TypeOK, Message
  <2>2. <<n + 1>> \in Seq(Message) /\ In(n + 1, <<n + 1>>)
    BY <2>1, InSingle
  <2>3. In(m, pending) \/ In(m, <<n + 1>>) => In(m, Merge(pending, <<n + 1>>))
    BY <2>2, <1>c, <1>s, MergeKeeps
  <2> QED
    BY <2>1, <2>2, <2>3, <1>k, <1>w, <1>f, L1GuardAssumption DEF TypeOK
<1>5. CASE ArriveDebounced
  <2>0. /\ n' = n + 1 /\ n + 1 \in Message /\ handled' = handled
    BY <1>5, DebouncedMoves, L1GuardAssumption DEF TypeOK, Message
  <2>2. <<n + 1>> \in Seq(Message) /\ In(n + 1, <<n + 1>>)
    BY <2>0, InSingle
  <2>w. m <= n \/ m = n + 1
    BY <2>0, <1>w, L1GuardAssumption DEF TypeOK
  <2>3. In(m, pending) \/ In(m, <<n + 1>>) => In(m, Merge(pending, <<n + 1>>))
    BY <2>2, <1>c, <1>s, MergeKeeps
  <2>4. In(m, pending) \/ In(m, buffer) => In(m, Merge(pending, buffer))
    BY <1>c, <1>s, MergeKeeps
  <2>5. CASE buffer' = Append(buffer, n + 1) /\ pending' = pending
    <3>1. buffer' = buffer \o <<n + 1>>
      BY <2>0, <2>5, <1>s, AppendIsConcat
    <3>2. In(m, buffer \o <<n + 1>>) <=> In(m, buffer) \/ In(m, <<n + 1>>)
      BY <2>2, <1>s, InConcat
    <3> QED
      BY <3>1, <3>2, <2>0, <2>2, <2>5, <2>w, <1>k, <1>f
  <2>6. CASE buffer' = <<n + 1>> /\ pending' = Merge(pending, buffer)
    BY <2>6, <2>0, <2>2, <2>4, <2>w, <1>k, <1>f
  <2>7. CASE buffer # <<>> /\ ~CanMerge(buffer, <<n + 1>>) /\ ~Flushes /\ buffer' = buffer
               /\ pending' = IF CanMerge(pending, <<n + 1>>) THEN Merge(pending, <<n + 1>>)
                             ELSE pending
    <3>1. CanMerge(pending, <<n + 1>>)
      BY <1>5, <1>c, <2>0, <2>7, TwoSpeakers DEF ArriveDebounced
    <3> QED
      BY <3>1, <2>7, <2>0, <2>2, <2>3, <2>w, <1>k, <1>f
  <2> QED
    BY <1>5, <2>5, <2>6, <2>7, DebouncedMoves
<1>6. ASSUME n' = n, handled' = handled, Flush \/ UNCHANGED <<pending, buffer>>
      PROVE  In(m, handled') \/ In(m, pending') \/ In(m, buffer')
  <2>1. In(m, handled) \/ In(m, pending) \/ In(m, buffer)
    BY <1>6, <1>k, <1>t DEF ForATurn
  <2> QED
    BY <1>6, <1>c, <2>1, FlushKeeps
<1>7. CASE TimerFires
  BY <1>6, <1>7 DEF TimerFires
<1>8. ASSUME NEW x \in Message, HandlerReturns(x) \/ NoticeSent(x) \/ ReplySent(x) \/ Unwound(x)
                                \/ LateRequeue(x) \/ Cleanup(x) \/ Settle(x)
      PROVE  In(m, handled') \/ In(m, pending') \/ In(m, buffer')
  BY <1>6, <1>8 DEF HandlerReturns, NoticeSent, ReplySent, Unwound, LateRequeue, Cleanup, Settle
<1>9. ASSUME NEW x \in Message, InBandDrain(x) \/ LateDrain(x)
      PROVE  In(m, handled') \/ In(m, pending') \/ In(m, buffer')
  <2>1. CASE pending # <<>>
    <3>1. handled' = handled \o pending /\ (pending' = buffer \/ buffer' = buffer) /\ n' = n
      BY <1>9, <2>1 DEF InBandDrain, LateDrain, SpawnDrain, Spawn
    <3>2. In(m, handled) \/ In(m, pending) \/ In(m, buffer)
      BY <3>1, <1>k, <1>t DEF ForATurn
    <3> QED
      BY <3>1, <3>2, SpawnKeeps
  <2>2. CASE pending = <<>>
    BY <1>6, <1>9, <2>2 DEF InBandDrain, LateDrain
  <2> QED
    BY <2>1, <2>2
<1>10. ASSUME NEW x \in Message, Command(x) PROVE FALSE
  <2>1. pc[x] \in CmdPcs
    BY <1>10 DEF Command, CommandHandled, CommandReplied, CommandFails, CancelWaitEnds,
                 CommandFlush, CommandDrain, CmdPcs
  <2> QED
    BY <2>1, <1>c DEF Serial
<1>11. CASE UNCHANGED vars
  BY <1>6, <1>11 DEF vars
<1> QED
  BY <1>1, <1>2, <1>3, <1>4, <1>5, <1>7, <1>8, <1>9, <1>10, <1>11 DEF Next, Arrive, Frame

-----------------------------------------------------------------------------
(* A turn of texts speaks for one sender *)

Attributed(e) == TextOnly(e) => SpokenByOne(e)

\* Whatever waits or was handed over in queue mode is one speaker's.
Attribution ==
    queueMode => /\ Attributed(pending) /\ Attributed(buffer)
                 /\ \A m \in Message : Attributed(ev[m])

\* Events of one message or none speak for one sender.
LEMMA AttributedShort == Attributed(<<>>) /\ \A m : Attributed(<<m>>)
  BY DEF Attributed, SpokenByOne

\* Two events that CanMerge allows to join speak for one sender.
LEMMA MergeAttributed ==
  ASSUME NEW e \in Seq(Message), NEW f \in Seq(Message), Attributed(e), Attributed(f),
         f # <<>>, e # <<>> => CanMerge(e, f)
  PROVE  Attributed(Merge(e, f))
<1>0. Merge(e, f) = f \/ (Merge(e, f) = e \o f /\ e # <<>>)
  <2>1. <<>> \o f = f
    BY ConcatEmptySeq
  <2>2. Merge(e, f) \in {e \o f, f}
    BY MergeType
  <2> QED
    BY <2>1, <2>2
<1>1. SUFFICES ASSUME Merge(e, f) = e \o f, e # <<>>, TextOnly(e \o f)
               PROVE  SpokenByOne(e \o f)
  <2>1. CASE Merge(e, f) = f
    BY <2>1
  <2>2. CASE Merge(e, f) = e \o f /\ e # <<>>
    BY <2>2 DEF Attributed
  <2> QED
    BY <1>0, <2>1, <2>2
<1>2. /\ Len(e) \in Nat /\ Len(f) \in Nat /\ Len(e) >= 1 /\ Len(f) >= 1
      /\ DOMAIN e = 1..Len(e) /\ DOMAIN f = 1..Len(f) /\ DOMAIN (e \o f) = 1..Len(e) + Len(f)
      /\ \A i \in 1..Len(e) : (e \o f)[i] = e[i]
      /\ \A i \in 1..Len(f) : (e \o f)[i + Len(e)] = f[i]
      /\ \A i \in 1..Len(e) + Len(f) :
            (e \o f)[i] = IF i <= Len(e) THEN e[i] ELSE f[i - Len(e)]
  BY <1>1, ConcatProperties, LenProperties, EmptySeq
<1>3. TextOnly(e) /\ TextOnly(f)
  <2>1. \A i \in 1..Len(e) : kind[e[i]] = "text"
    BY <1>1, <1>2 DEF TextOnly
  <2>2. \A i \in 1..Len(f) : kind[f[i]] = "text"
    <3> SUFFICES ASSUME NEW i \in 1..Len(f) PROVE kind[f[i]] = "text"
      OBVIOUS
    <3>1. i + Len(e) \in DOMAIN (e \o f) /\ (e \o f)[i + Len(e)] = f[i]
      BY <1>2
    <3> QED
      BY <3>1, <1>1 DEF TextOnly
  <2> QED
    BY <1>2, <2>1, <2>2 DEF TextOnly
<1>4. /\ \A i \in 1..Len(e) : sender[e[i]] = sender[e[1]]
      /\ \A i \in 1..Len(f) : sender[f[i]] = sender[f[1]]
      /\ sender[e[1]] = sender[f[1]]
  <2>1. Head(e) = e[1] /\ Head(f) = f[1]
    OBVIOUS
  <2>2. sender[e[1]] = sender[f[1]]
    BY <1>1, <2>1 DEF CanMerge
  <2> QED
    BY <1>2, <1>3, <2>2 DEF Attributed, SpokenByOne
<1>5. \A i \in 1..Len(e) + Len(f) : sender[(e \o f)[i]] = sender[e[1]]
  <2> SUFFICES ASSUME NEW i \in 1..Len(e) + Len(f) PROVE sender[(e \o f)[i]] = sender[e[1]]
    OBVIOUS
  <2>1. CASE i <= Len(e)
    BY <1>2, <1>4, <2>1
  <2>2. CASE i > Len(e)
    <3>1. i - Len(e) \in 1..Len(f)
      BY <1>2, <2>2
    <3> QED
      BY <1>2, <1>4, <2>2, <3>1
  <2> QED
    BY <1>2, <2>1, <2>2
<1> QED
  BY <1>2, <1>5 DEF SpokenByOne

\* An event that a photo or a sticker has joined is not of texts.
LEMMA MediaAttributed ==
  ASSUME NEW e \in Seq(Message), NEW m \in Message, kind[m] # "text"
  PROVE  Attributed(Merge(e, <<m>>))
<1>1. <<m>> \in Seq(Message) /\ In(m, <<m>>)
  BY InSingle
<1>2. In(m, e \o <<m>>)
  BY <1>1, InConcat
<1>3. In(m, Merge(e, <<m>>))
  BY <1>1, <1>2, MergeType
<1> QED
  BY <1>3 DEF Attributed, TextOnly, In

\* No step of queue mode joins the texts of two senders.
LEMMA AttributionStep == TypeOK /\ Attribution /\ [Next]_vars => Attribution'
<1> SUFFICES ASSUME TypeOK, Attribution, [Next]_vars, queueMode'
             PROVE  /\ Attributed(pending)' /\ Attributed(buffer)'
                    /\ \A m \in Message : Attributed(ev[m])'
  BY DEF Attribution
<1> USE DEF queues, input, locals
<1>t. kind' = kind /\ sender' = sender /\ queueMode
  BY TrafficFixed DEF traffic
<1>q. Attributed(pending) /\ Attributed(buffer) /\ \A m \in Message : Attributed(ev[m])
  BY <1>t DEF Attribution
<1>s. pending \in Seq(Message) /\ buffer \in Seq(Message)
  BY DEF TypeOK
<1>g. SUFFICES /\ Attributed(pending') /\ Attributed(buffer')
               /\ \A m \in Message : Attributed(ev'[m])
  BY <1>t DEF Attributed, TextOnly, SpokenByOne
<1>1. ASSUME Flush PROVE Attributed(pending') /\ Attributed(buffer')
  BY <1>1, <1>q, <1>s, MergeAttributed, AttributedShort DEF Flush, Flushes
<1>2. ASSUME NEW e \in {pending} \cup {<<n + 1>>}, NEW g, NEW from, NEW next,
             Spawn(e, g, from, next)
      PROVE  \A m \in Message : Attributed(ev'[m])
  <2>1. Attributed(e)
    BY <1>q, AttributedShort
  <2>2. \A m \in Message : ev'[m] = ev[m] \/ ev'[m] = e
    BY <1>2 DEF Spawn, TypeOK
  <2> QED
    BY <2>1, <2>2, <1>q
<1>3. CASE ArriveIdle
  BY <1>2, <1>3, <1>q, AttributedShort DEF ArriveIdle, Discard
<1>4. CASE ArriveSessionCommand \/ ArriveInline
  BY <1>4, <1>q, AttributedShort DEF ArriveSessionCommand, ArriveInline, Discard
<1>5. CASE ArriveMerged
  <2>1. n + 1 \in Message /\ kind[n + 1] # "text" /\ pending' = Merge(pending, <<n + 1>>)
        /\ UNCHANGED <<buffer, ev>>
    BY <1>5, <1>t, L1GuardAssumption DEF ArriveMerged, TypeOK, Message
  <2> QED
    BY <2>1, <1>q, <1>s, MediaAttributed
<1>6. CASE ArriveDebounced
  <2>0. n + 1 \in Message /\ <<n + 1>> \in Seq(Message) /\ ev' = ev
    BY <1>6, DebouncedMoves, L1GuardAssumption DEF TypeOK, Message
  <2>1. CASE /\ buffer' = Append(buffer, n + 1) /\ pending' = pending
             /\ buffer # <<>> => CanMerge(buffer, <<n + 1>>)
    <3>1. buffer' = buffer \o <<n + 1>>
      BY <2>0, <2>1, <1>s, AppendIsConcat
    <3>2. kind[n + 1] = "text"
      BY <1>6 DEF ArriveDebounced
    <3>3. Attributed(Merge(buffer, <<n + 1>>))
      BY <2>0, <2>1, <1>q, <1>s, MergeAttributed, AttributedShort
    <3>4. CASE Merge(buffer, <<n + 1>>) = buffer \o <<n + 1>>
      BY <3>1, <3>3, <3>4, <2>0, <2>1, <1>q
    <3>5. CASE ~Combine(buffer, <<n + 1>>)
      <4>1. Has(buffer, "other")
        BY <3>2, <3>5 DEF Combine, Has
      <4>2. ~TextOnly(buffer \o <<n + 1>>)
        <5>1. PICK i \in 1..Len(buffer) : kind[buffer[i]] = "other"
          BY <4>1, <1>s, LenProperties DEF Has
        <5>2. i \in DOMAIN (buffer \o <<n + 1>>) /\ (buffer \o <<n + 1>>)[i] = buffer[i]
          BY <2>0, <1>s, ConcatProperties, LenProperties
        <5> QED
          BY <5>1, <5>2 DEF TextOnly
      <4> QED
        BY <3>1, <4>2, <2>0, <2>1, <1>q DEF Attributed
    <3> QED
      BY <3>4, <3>5 DEF Merge
  <2>2. CASE buffer' = <<n + 1>> /\ pending' = Merge(pending, buffer) /\ Flushes
    BY <2>0, <2>2, <1>q, <1>s, MergeAttributed, AttributedShort DEF Flushes
  <2>3. CASE buffer' = buffer /\ pending' = IF CanMerge(pending, <<n + 1>>)
                                            THEN Merge(pending, <<n + 1>>) ELSE pending
    BY <2>0, <2>3, <1>q, <1>s, MergeAttributed, AttributedShort
  <2> QED
    BY <1>6, <2>1, <2>2, <2>3, DebouncedMoves
<1>7. CASE TimerFires
  BY <1>1, <1>7, <1>q DEF TimerFires
<1>8. ASSUME NEW m \in Message,
             \/ HandlerReturns(m) \/ NoticeSent(m) \/ ReplySent(m) \/ Unwound(m)
             \/ LateRequeue(m) \/ Cleanup(m) \/ Settle(m) \/ CommandHandled(m)
             \/ CommandReplied(m) \/ CommandFails(m) \/ CancelWaitEnds(m) \/ CommandFlush(m)
      PROVE  /\ Attributed(pending') /\ Attributed(buffer')
             /\ \A x \in Message : Attributed(ev'[x])
  <2>1. ev' = ev /\ (Flush \/ UNCHANGED <<pending, buffer>>)
    BY <1>8 DEF HandlerReturns, NoticeSent, ReplySent, Unwound, LateRequeue, Cleanup, Settle,
                CommandHandled, CommandReplied, CommandFails, CancelWaitEnds, CommandFlush
  <2> QED
    BY <2>1, <1>1, <1>q
<1>9. ASSUME NEW m \in Message, InBandDrain(m) \/ LateDrain(m) \/ CommandDrain(m)
      PROVE  /\ Attributed(pending') /\ Attributed(buffer')
             /\ \A x \in Message : Attributed(ev'[x])
  <2>1. CASE pending # <<>>
    <3>1. \E g, next : Spawn(pending, g, m, next)
      BY <1>9, <2>1 DEF InBandDrain, LateDrain, CommandDrain, SpawnDrain
    <3>2. pending' \in {<<>>, buffer} /\ buffer' \in {<<>>, buffer}
      BY <1>9, <2>1 DEF InBandDrain, LateDrain, CommandDrain, Discard
    <3> QED
      BY <3>1, <3>2, <1>2, <1>q, AttributedShort
  <2>2. CASE pending = <<>>
    <3>1. ev' = ev /\ (Flush \/ UNCHANGED <<pending, buffer>>)
      BY <1>9, <2>2 DEF InBandDrain, LateDrain, CommandDrain
    <3> QED
      BY <3>1, <1>1, <1>q
  <2> QED
    BY <2>1, <2>2
<1>10. CASE UNCHANGED vars
  BY <1>10, <1>q DEF vars
<1> QED
  BY <1>3, <1>4, <1>5, <1>6, <1>7, <1>8, <1>9, <1>10 DEF Next, Arrive, Frame, Command

-----------------------------------------------------------------------------
(* Plain traffic: serial turns *)

Turn == IF owner = Nobody THEN <<>> ELSE ev[owner]

\* Without debouncing nothing is buffered; nothing waits for a session that
\* nobody owns, and an owner works on something.
PlainTurns ==
    Plain => /\ buffer = <<>>
             /\ owner = Nobody => pending = <<>>
             /\ owner # Nobody => ev[owner] # <<>>

\* Text and photos never replace what waits.
LEMMA PlainMerge ==
  ASSUME TypeOK, Plain, NEW m \in Message, NEW e \in Seq(Message)
  PROVE  Merge(e, <<m>>) = Append(e, m)
<1>1. ~Has(e, "other") /\ ~Has(<<m>>, "other")
  <2>1. /\ \A i \in DOMAIN e : e[i] \in Message
        /\ \A i \in DOMAIN <<m>> : <<m>>[i] \in Message
    OBVIOUS
  <2>2. \A x \in Message : kind[x] # "other"
    BY DEF Plain
  <2> QED
    BY <2>1, <2>2 DEF Has
<1>2. e \o <<m>> = Append(e, m)
  BY AppendIsConcat
<1> QED
  BY <1>1, <1>2 DEF Merge, Combine

\* A spawn makes its event the turn.
LEMMA SpawnTurn ==
  ASSUME TypeOK, NEW e \in Seq(Message), e # <<>>, NEW g, NEW from, NEW next,
         Spawn(e, g, from, next)
  PROVE  Turn' = e /\ owner' # Nobody /\ ev'[owner'] = e
<1>1. Head(e) \in Message /\ Head(e) # Nobody
  BY InHead DEF Message, Nobody
<1> QED
  BY <1>1 DEF Spawn, Turn, TypeOK

\* Under plain traffic a step of the guard answers an idle session's message,
\* lets a message wait, hands what waits to the next turn, rests, or changes
\* none of it.
LEMMA PlainStep ==
  ASSUME TypeOK, Serial, PlainTurns, Plain, [Next]_vars
  PROVE  /\ PlainTurns'
         /\ \/ \E m \in Message : /\ Turn = <<>> /\ pending = <<>> /\ Turn' = <<m>>
                                  /\ handled' = Append(handled, m) /\ pending' = pending
            \/ \E m \in Message : /\ Turn # <<>> /\ pending' = Append(pending, m)
                                  /\ Turn' = Turn /\ handled' = handled
            \/ /\ Turn # <<>> /\ pending # <<>> /\ Turn' = pending
               /\ handled' = handled \o pending /\ pending' = <<>>
            \/ Turn # <<>> /\ pending = <<>> /\ Turn' = <<>> /\ UNCHANGED <<pending, handled>>
            \/ Turn' = Turn /\ UNCHANGED <<pending, handled>>
<1> USE DEF queues, input, locals
<1>q. /\ ~queueMode /\ buffer = <<>> /\ (owner = Nobody => pending = <<>>)
      /\ (owner # Nobody => ev[owner] # <<>>)
  BY DEF Plain, PlainTurns
<1>c. ~Commands
  BY DEF Commands, Plain
<1>u. /\ \A m \in Message : pc[m] \notin CmdPcs
      /\ active # Nobody <=> owner # Nobody
      /\ owner # Nobody => pc[owner] \in TurnPcs \cup {"late"}
      /\ \A m \in Message : pc[m] \in TurnPcs => owner = m
  BY <1>c DEF Serial
<1>s. pending \in Seq(Message) /\ handled \in Seq(Message)
  BY DEF TypeOK
<1>1. CASE ArriveIdle
  <2>1. n + 1 \in Message /\ <<n + 1>> \in Seq(Message) /\ <<n + 1>> # <<>>
    BY <1>1, L1GuardAssumption DEF ArriveIdle, TypeOK, Message
  <2>2. ~Stale
    BY <1>u DEF Stale, TurnPcs
  <2>3. owner = Nobody /\ pending = <<>> /\ Turn = <<>>
    BY <1>1, <1>q, <1>u, <2>2 DEF ArriveIdle, Busy, Turn
  <2>4. /\ Spawn(<<n + 1>>, n + 1, n + 1, "handler") /\ pending' = pending /\ buffer' = buffer
        /\ handled' = handled \o <<n + 1>>
    BY <1>1, <2>2 DEF ArriveIdle, Spawn
  <2>5. Turn' = <<n + 1>> /\ owner' # Nobody /\ ev'[owner'] = <<n + 1>>
    BY <2>1, <2>4, SpawnTurn
  <2>6. handled' = Append(handled, n + 1)
    BY <1>s, <2>1, <2>4, AppendIsConcat
  <2> QED
    BY <1>q, <2>1, <2>3, <2>4, <2>5, <2>6 DEF PlainTurns
<1>2. CASE ArriveMerged
  <2>1. n + 1 \in Message /\ pending' = Merge(pending, <<n + 1>>)
        /\ UNCHANGED <<owner, ev, handled, buffer>>
    BY <1>2, L1GuardAssumption DEF ArriveMerged, TypeOK, Message
  <2>2. owner # Nobody
    BY <1>2, <1>u DEF ArriveMerged, Busy
  <2>3. pending' = Append(pending, n + 1)
    BY <1>s, <2>1, PlainMerge
  <2> QED
    BY <1>q, <2>1, <2>2, <2>3 DEF PlainTurns, Turn
<1>3. ASSUME UNCHANGED <<owner, ev, handled>>, Flush \/ UNCHANGED <<pending, buffer>>
      PROVE  PlainTurns' /\ Turn' = Turn /\ UNCHANGED <<pending, handled>>
  <2>1. pending' = pending /\ buffer' = buffer
    BY <1>3, <1>q DEF Flush, Flushes
  <2> QED
    BY <2>1, <1>3, <1>q DEF PlainTurns, Turn
<1>4. CASE ArriveInline \/ TimerFires \/ UNCHANGED vars
  BY <1>3, <1>4 DEF ArriveInline, TimerFires, vars
<1>5. ~ArriveSessionCommand /\ ~ArriveDebounced
  <2>1. n < N => n + 1 \in Message
    BY L1GuardAssumption DEF TypeOK, Message
  <2> QED
    BY <2>1, <1>q, <1>c DEF ArriveSessionCommand, ArriveDebounced, Commands
<1>6. ASSUME NEW m \in Message, HandlerReturns(m) \/ NoticeSent(m) \/ ReplySent(m) \/ Unwound(m)
                                \/ LateRequeue(m) \/ Settle(m)
      PROVE  PlainTurns' /\ Turn' = Turn /\ UNCHANGED <<pending, handled>>
  BY <1>3, <1>6 DEF HandlerReturns, NoticeSent, ReplySent, Unwound, LateRequeue, Settle
<1>7. ASSUME NEW m \in Message, InBandDrain(m) \/ LateDrain(m), pending # <<>>
      PROVE  /\ PlainTurns' /\ Turn # <<>> /\ Turn' = pending
             /\ handled' = handled \o pending /\ pending' = <<>>
  <2>1. Turn # <<>>
    BY <1>7, <1>q DEF Turn
  <2>2. PICK g, next : Spawn(pending, g, m, next)
    BY <1>7 DEF InBandDrain, LateDrain, SpawnDrain
  <2>3. pending' = <<>> /\ buffer' = <<>> /\ handled' = handled \o pending
    BY <1>7, <1>q, <2>2 DEF InBandDrain, LateDrain, Discard, Spawn
  <2>4. Turn' = pending /\ owner' # Nobody /\ ev'[owner'] = pending
    BY <1>7, <1>s, <2>2, SpawnTurn
  <2> QED
    BY <1>7, <2>1, <2>3, <2>4 DEF PlainTurns
<1>8. ASSUME NEW m \in Message, InBandDrain(m) \/ LateDrain(m), pending = <<>>
      PROVE  PlainTurns' /\ Turn' = Turn /\ UNCHANGED <<pending, handled>>
  BY <1>3, <1>8 DEF InBandDrain, LateDrain
<1>9. ASSUME NEW m \in Message, Cleanup(m)
      PROVE  /\ PlainTurns' /\ UNCHANGED <<pending, handled>>
             /\ Turn' = Turn \/ (Turn # <<>> /\ pending = <<>> /\ Turn' = <<>>)
  <2>1. pending = <<>> /\ UNCHANGED <<pending, buffer, handled, ev>>
    BY <1>9 DEF Cleanup
  <2>2. CASE owner = m /\ owner' = Nobody
    BY <2>1, <2>2, <1>q DEF PlainTurns, Turn, Message, Nobody
  <2>3. CASE owner' = owner
    BY <2>1, <2>3, <1>3
  <2> QED
    BY <1>9, <2>2, <2>3 DEF Cleanup
<1>10. ASSUME NEW m \in Message PROVE ~Command(m)
  <2>1. Command(m) => pc[m] \in CmdPcs
    BY DEF Command, CommandHandled, CommandReplied, CommandFails, CancelWaitEnds,
           CommandFlush, CommandDrain, CmdPcs
  <2> QED
    BY <2>1, <1>u
<1>11. CASE \E m \in Message : Frame(m)
  BY <1>6, <1>7, <1>8, <1>9, <1>11 DEF Frame
<1> QED
  BY <1>1, <1>2, <1>4, <1>5, <1>10, <1>11 DEF Next, Arrive

\* Every step of the guard is a step of serial turns, or changes nothing there;
\* of traffic that is not plain the mapping shows nothing.
LEMMA SessionStep ==
  TypeOK /\ Serial /\ PlainTurns /\ [Next]_vars =>
      PlainTurns' /\ [Session!Next]_<<IfPlain(pending), IfPlain(Turn), IfPlain(handled)>>
<1> SUFFICES ASSUME TypeOK, Serial, PlainTurns, [Next]_vars
             PROVE  /\ PlainTurns'
                    /\ [Session!Next]_<<IfPlain(pending), IfPlain(Turn), IfPlain(handled)>>
  OBVIOUS
<1>1. Plain' <=> Plain
  BY TrafficFixed DEF Plain, traffic
<1>2. CASE ~Plain
  BY <1>1, <1>2 DEF IfPlain, PlainTurns
<1>3. CASE Plain
  BY <1>1, <1>3, PlainStep
     DEF IfPlain, Turn, Session!Next, Session!Accept, Session!Wait, Session!Handoff, Session!Rest
<1> QED
  BY <1>2, <1>3

-----------------------------------------------------------------------------
(* The theorems *)

Inv == /\ TypeOK /\ Distinct /\ Unstarted /\ Serial
       /\ NoneLost /\ Attribution /\ PlainTurns

\* The invariant holds when the adapter starts.
LEMMA InitInv == Init => Inv
<1> SUFFICES ASSUME Init PROVE Inv
  OBVIOUS
<1>1. PICK t \in Traffics : kind = t.kind /\ sender = t.sender /\ queueMode = t.queue
  BY DEF Init
<1>2. kind \in [Message -> Kinds] /\ sender \in [Message -> Senders] /\ queueMode \in BOOLEAN
  BY <1>1, L1GuardAssumption
<1>3. TypeOK
  <2>1. n \in 0..N /\ <<>> \in Seq(Message)
    BY L1GuardAssumption DEF Init
  <2> QED
    BY <1>2, <2>1 DEF Init, TypeOK
<1>4. Distinct
  BY InEmpty, OnceShort DEF Init, Distinct, Apart
<1>5. Unstarted
  BY DEF Init, Unstarted
<1>6. Serial
  BY DEF Init, Serial, CmdPcs, TurnPcs
<1>7. NoneLost
  BY L1GuardAssumption DEF Init, NoneLost, Kept, ForATurn, Message
<1>8. Attribution
  BY AttributedShort DEF Init, Attribution
<1>9. PlainTurns
  BY DEF Init, PlainTurns
<1> QED
  BY <1>3, <1>4, <1>5, <1>6, <1>7, <1>8, <1>9 DEF Inv

\* No step of the guard breaks it.
LEMMA NextInv == Inv /\ [Next]_vars => Inv'
  BY TypeStep, DistinctStep, UnstartedStep, SerialStep, KeptStep, AttributionStep, SessionStep
     DEF Inv

\* The invariant holds in every state the guard reaches.
THEOREM InvHolds == Spec => []Inv
  BY InitInv, NextInv, PTL DEF Spec

\* While there are no session commands, two frames are never both in their
\* turns (l.226-228).
THEOREM OneTurnHolds == Spec => []OneTurn
<1>1. Inv => OneTurn
  BY DEF Inv, Serial, OneTurn, InTurn
<1> QED
  BY <1>1, InvHolds, PTL

\* Without session commands the lock is held exactly while its owner works.
THEOREM LockCoherentHolds == Spec => []LockCoherent
<1>1. Inv => LockCoherent
  BY DEF Inv, Serial, LockCoherent
<1> QED
  BY <1>1, InvHolds, PTL

\* Whatever is merged, drained late, requeued or taken over by a command, no
\* message is handed to two turns.
THEOREM HandledOnceHolds == Spec => []HandledOnce
<1>1. Inv => HandledOnce
  BY DEF Inv, Distinct, Once, HandledOnce
<1> QED
  BY <1>1, InvHolds, PTL

\* In queue mode a turn of texts speaks for one sender.
THEOREM OneSpeakerHolds == Spec => []OneSpeaker
<1>1. Inv => OneSpeaker
  BY DEF Inv, Attribution, Attributed, OneSpeaker
<1> QED
  BY <1>1, InvHolds, PTL

\* Without commands, replacing media and third speakers no message is lost.
THEOREM NoneLostHolds == Spec => []NoneLost
<1>1. Inv => NoneLost
  BY DEF Inv
<1> QED
  BY <1>1, InvHolds, PTL

\* Under plain traffic the guard implements the serial turns of one session.
THEOREM SerialTurnsRefined == Spec => ImplementsSerialTurns
<1>1. Init => Session!Init
  BY DEF Init, Session!Init, IfPlain
<1>2. Inv /\ [Next]_vars
        => [Session!Next]_<<IfPlain(pending), IfPlain(IF owner = Nobody THEN <<>> ELSE ev[owner]),
                            IfPlain(handled)>>
  BY SessionStep DEF Inv, Turn
<1> QED
  BY <1>1, <1>2, InvHolds, PTL DEF Spec, ImplementsSerialTurns, Session!Spec
=============================================================================
