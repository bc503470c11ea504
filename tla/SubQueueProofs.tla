--------------------------- MODULE SubQueueProofs ---------------------------
(***************************************************************************)
(* The safety properties of SubQueue for every number of receivers and     *)
(* closers, every depth, limit and policy.                                 *)
(***************************************************************************)
EXTENDS SubQueue, PushRulesProofs, TLAPS

---------------------------------------------------------------------------
(* The inductive invariant.                                                *)

\* Frames are offered in order: none that was accepted is still to come.
AcceptedOffered == \A f \in accepted : f <= offered

\* While one task is on its way from an empty pop to its await, a frame that
\* is pushed leaves a permit, so that the await returns at once.
PermitForQueued ==
  SingleReceiver =>
    \A t \in Receivers : pc[t] \in {"check", "listen"} /\ queue # <<>> => permit

\* final is reached on a closed channel only; the mark is set by the close.
CloseKnown ==
  /\ \A t \in Receivers : pc[t] = "final" => closed
  /\ closeMark <= offered

IInv ==
  /\ FieldTypes
  /\ AcceptedOffered
  /\ QueueBounded
  /\ FifoDelivery
  /\ LossOnlyByEviction
  /\ NoLostWakeup
  /\ PermitForQueued
  /\ CloseKnown
  /\ EndOfStreamDrained

LEMMA InitInv == Init => IInv
<1>. SUFFICES ASSUME Init PROVE IInv
  OBVIOUS
<1>1. FieldTypes
  <2>1. queue \in Seq(Frames)
    BY DEF Init
  <2>2. pc \in [Receivers -> RecvStates] /\ cpc \in [Closers -> CloseStates]
    BY DEF Init, RecvStates, CloseStates
  <2>3. rateCount \in 0..RateLimit /\ offered \in 0..MaxFrames /\ closeMark \in 0..MaxFrames
    BY SubQueueAssumption DEF Init
  <2>. QED
    BY <2>1, <2>2, <2>3 DEF Init, FieldTypes
<1>2. QueueBounded /\ FifoDelivery /\ LossOnlyByEviction /\ NoLostWakeup
  BY SubQueueAssumption
     DEF Init, QueueBounded, FifoDelivery, LossOnlyByEviction, NoLostWakeup, Queued
<1>3. AcceptedOffered /\ PermitForQueued /\ CloseKnown /\ EndOfStreamDrained
  BY DEF Init, AcceptedOffered, PermitForQueued, CloseKnown, EndOfStreamDrained
<1>. QED
  BY <1>1, <1>2, <1>3 DEF IInv

---------------------------------------------------------------------------
(* One lemma per kind of step.                                             *)

\* A pop keeps everything that is said about the queue.
LEMMA TakePreserves ==
  ASSUME IInv, NEW t \in Receivers, TakeFront(t), pc[t] \in {"pop", "final"},
         UNCHANGED <<policy, closed, rateCount, permit, cpc, offered, accepted,
                     closeMark>>
  PROVE  IInv'
<1>. USE DEF IInv
<1>1. /\ queue # <<>>
      /\ taken' = taken \union {queue[1]}
      /\ queue' \in Seq(Frames)
      /\ Len(queue) \in Nat \ {0}
      /\ Len(queue') = Len(queue) - 1
      /\ \A i \in 1..(Len(queue) - 1) : queue'[i] = queue[i + 1]
      /\ queue[1] \in Frames
      /\ pc' = [pc EXCEPT ![t] = "idle"]
      /\ ended' = ended
  BY TailFacts DEF TakeFront, FieldTypes
<1>2. FieldTypes'
  BY <1>1 DEF FieldTypes, RecvStates
<1>3. QueueBounded'
  BY <1>1, SubQueueAssumption DEF QueueBounded
<1>4. FifoDelivery'
  <2>1. \A i, j \in 1..Len(queue') : i < j => queue'[i] < queue'[j]
    BY <1>1 DEF FifoDelivery
  <2>2. \A g \in taken', i \in 1..Len(queue') : g < queue'[i]
    BY <1>1 DEF FifoDelivery
  <2>. QED
    BY <2>1, <2>2 DEF FifoDelivery
<1>5. (taken \union Queued)' = taken \union Queued
  <2>. DEFINE rest == {queue[i + 1] : i \in 1..(Len(queue) - 1)}
  <2>1. Queued = {queue[1]} \union rest
    <3>1. ASSUME NEW i \in 1..Len(queue) PROVE queue[i] \in {queue[1]} \union rest
      <4>1. CASE i # 1
        <5>1. i - 1 \in 1..(Len(queue) - 1) /\ queue[i] = queue[(i - 1) + 1]
          BY <1>1, <4>1
        <5>. QED
          BY <5>1
      <4>. QED
        BY <4>1
    <3>2. ASSUME NEW i \in 1..(Len(queue) - 1) PROVE i + 1 \in 1..Len(queue)
      BY <1>1
    <3>3. 1 \in 1..Len(queue)
      BY <1>1
    <3>. QED
      BY <3>1, <3>2, <3>3 DEF Queued
  <2>2. Queued' = rest
    BY <1>1 DEF Queued
  <2>. QED
    BY <1>1, <2>1, <2>2
<1>6. LossOnlyByEviction'
  BY <1>1, <1>5 DEF LossOnlyByEviction
<1>7. NoLostWakeup' /\ PermitForQueued'
  BY <1>1 DEF NoLostWakeup, PermitForQueued, SingleReceiver, FieldTypes, RecvStates
<1>8. EndOfStreamDrained' /\ CloseKnown' /\ AcceptedOffered'
  BY <1>1 DEF EndOfStreamDrained, CloseKnown, AcceptedOffered, FieldTypes
<1>. QED
  BY <1>2, <1>3, <1>4, <1>6, <1>7, <1>8

\* A push keeps the order, loses only what it evicts, and wakes or leaves a
\* permit.
LEMMA PushPreserves ==
  ASSUME IInv, PushAccepted
  PROVE  IInv'
<1>. USE DEF IInv
<1>. DEFINE f == offered + 1
<1>0. /\ f \in Frames
      /\ offered' = f
      /\ offered \in Nat
      /\ accepted' = accepted \union {f}
      /\ UNCHANGED <<policy, closed, cpc, taken, closeMark, ended>>
  BY SubQueueAssumption DEF PushAccepted, FieldTypes, Frames
<1>1. /\ queue' \in Seq(Frames)
      /\ \/ /\ policy = "DropOldest"
            /\ Len(queue) >= Capacity
            /\ queue # <<>>
            /\ Len(queue') = Len(queue)
            /\ \A i \in 1..(Len(queue) - 1) : queue'[i] = queue[i + 1]
         \/ /\ policy = "DropOldest" => Len(queue) < Capacity
            /\ Len(queue') = Len(queue) + 1
            /\ \A i \in 1..Len(queue) : queue'[i] = queue[i]
      /\ Len(queue') > 0
      /\ queue'[Len(queue')] = f
  BY <1>0, EnqueueFacts, SubQueueAssumption DEF PushAccepted, FieldTypes
<1>. HIDE DEF f
<1>2. \A g \in taken \union Queued : g \in accepted /\ g < f
  BY <1>0, SubQueueAssumption
     DEF LossOnlyByEviction, AcceptedOffered, FieldTypes, Frames, f
<1>3. FieldTypes'
  <2>1. rateCount' \in 0..RateLimit
    BY CountAfterType, SubQueueAssumption DEF PushAccepted, FieldTypes
  <2>2. permit' \in BOOLEAN /\ pc' \in [Receivers -> RecvStates]
    BY DEF PushAccepted, NotifyOne, Parked, FieldTypes, RecvStates
  <2>3. offered' \in 0..MaxFrames
    BY <1>0, SubQueueAssumption DEF Frames
  <2>. QED
    BY <1>0, <1>1, <2>1, <2>2, <2>3 DEF FieldTypes
<1>4. AcceptedOffered' /\ CloseKnown'
  <2>1. AcceptedOffered'
    BY <1>0, SubQueueAssumption DEF AcceptedOffered, FieldTypes, Frames, f
  <2>2. \A t \in Receivers : pc'[t] = "final" => pc[t] = "final"
    BY DEF PushAccepted, NotifyOne, Parked, FieldTypes
  <2>3. closeMark' <= offered'
    BY <1>0, SubQueueAssumption DEF CloseKnown, FieldTypes, Frames, f
  <2>. QED
    BY <1>0, <2>1, <2>2, <2>3 DEF CloseKnown
<1>5. QueueBounded'
  <2>1. policy = "DropNewest" => Len(queue) < Capacity
    BY SubQueueAssumption DEF PushAccepted, Accepts, IsFull, FieldTypes
  <2>2. Len(queue) \in Nat /\ Len(queue') \in Nat
    BY <1>1 DEF FieldTypes
  <2>. QED
    BY <1>0, <1>1, <2>1, <2>2, SubQueueAssumption
       DEF QueueBounded, FieldTypes, Policies
<1>6. FifoDelivery'
  <2>1. \A i \in 1..Len(queue) : queue[i] < f
    BY <1>2 DEF Queued
  <2>2. Len(queue) \in Nat /\ Len(queue') \in Nat
    BY <1>1 DEF FieldTypes
  <2>3. \A i, j \in 1..Len(queue') : i < j => queue'[i] < queue'[j]
    BY <1>1, <2>1, <2>2 DEF FifoDelivery
  <2>4. \A g \in taken, i \in 1..Len(queue') : g < queue'[i]
    BY <1>1, <1>2, <2>2 DEF FifoDelivery
  <2>. QED
    BY <1>0, <2>3, <2>4 DEF FifoDelivery
<1>7. LossOnlyByEviction'
  <2>1. Len(queue) \in Nat /\ Len(queue') \in Nat
    BY <1>1 DEF FieldTypes
  <2>2. f \in Queued'
    BY <1>1, <2>1 DEF Queued
  <2>3. (taken \union Queued)' \subseteq accepted'
    BY <1>0, <1>1, <1>2, <2>1 DEF Queued
  <2>4. ASSUME NEW g \in accepted' \ (taken \union Queued)'
        PROVE  policy = "DropOldest" /\ \A i \in 1..Len(queue') : g < queue'[i]
    <3>1. g \in accepted /\ g \notin taken /\ g # f
      BY <1>0, <2>2, <2>4
    <3>2. g < f
      BY <1>0, <3>1, SubQueueAssumption DEF AcceptedOffered, FieldTypes, Frames, f
    <3>3. CASE g \in Queued
      <4>1. PICK k \in 1..Len(queue) : g = queue[k]
        BY <3>3 DEF Queued
      <4>2. ~ \A i \in 1..Len(queue) : queue'[i] = queue[i] /\ i \in 1..Len(queue')
        BY <2>4, <4>1 DEF Queued
      <4>3. /\ policy = "DropOldest"
            /\ Len(queue') = Len(queue)
            /\ \A i \in 1..(Len(queue) - 1) : queue'[i] = queue[i + 1]
        BY <1>1, <2>1, <4>2
      <4>4. k = 1
        <5>1. ASSUME k # 1 PROVE FALSE
          <6>1. k - 1 \in 1..(Len(queue) - 1) /\ queue'[k - 1] = queue[k]
            BY <2>1, <4>1, <4>3, <5>1
          <6>. QED
            BY <2>1, <2>4, <4>1, <4>3, <6>1 DEF Queued
        <5>. QED
          BY <5>1
      <4>5. ASSUME NEW i \in 1..Len(queue') PROVE g < queue'[i]
        BY <1>1, <2>1, <3>2, <4>1, <4>3, <4>4, <4>5 DEF FifoDelivery
      <4>. QED
        BY <4>3, <4>5
    <3>4. CASE g \notin Queued
      <4>1. policy = "DropOldest" /\ \A i \in 1..Len(queue) : g < queue[i]
        BY <3>1, <3>4 DEF LossOnlyByEviction
      <4>. QED
        BY <1>1, <2>1, <3>2, <4>1
    <3>. QED
      BY <3>3, <3>4
  <2>. QED
    BY <1>0, <2>3, <2>4 DEF LossOnlyByEviction
<1>8. NoLostWakeup' /\ PermitForQueued'
  <2>1. /\ \A t \in Receivers : pc'[t] # "parked" \/ \E u \in Receivers : u # t
        /\ \A t \in Receivers :
             pc'[t] \in {"check", "listen"} => permit' \/ \E u \in Receivers : u # t
    BY DEF PushAccepted, NotifyOne, Parked, FieldTypes, RecvStates
  <2>. QED
    BY <2>1 DEF NoLostWakeup, PermitForQueued, SingleReceiver
<1>9. EndOfStreamDrained'
  <2>1. Len(queue) \in Nat /\ Len(queue') \in Nat /\ closeMark < f
    BY <1>0, <1>1, SubQueueAssumption DEF CloseKnown, FieldTypes, f
  <2>. QED
    BY <1>0, <1>1, <2>1 DEF EndOfStreamDrained
<1>. QED
  BY <1>3, <1>4, <1>5, <1>6, <1>7, <1>8, <1>9

\* A recv() step that moves the task only, or takes or leaves the permit.
LEMMA RecvPreserves ==
  ASSUME IInv, NEW t \in Receivers, CallRecv(t) \/ RecvStep(t) \/ Cancel(t)
  PROVE  IInv'
<1>. USE DEF IInv
\* Every step but a TakeFront leaves the queue and its history alone.
<1>1. ASSUME UNCHANGED <<policy, queue, closed, rateCount, cpc, offered,
                         accepted, taken, closeMark>>,
             permit' \in BOOLEAN,
             pc' \in [Receivers -> RecvStates],
             ended' \in BOOLEAN,
             ended' => ended \/ (closed /\ queue = <<>>),
             \A u \in Receivers : pc'[u] = "final" => closed,
             NoLostWakeup', PermitForQueued'
      PROVE  IInv'
  <2>1. FieldTypes'
    BY <1>1 DEF FieldTypes
  <2>2. Queued' = Queued
    BY <1>1 DEF Queued
  <2>3. QueueBounded' /\ FifoDelivery' /\ LossOnlyByEviction' /\ AcceptedOffered'
    BY <1>1, <2>2
       DEF QueueBounded, FifoDelivery, LossOnlyByEviction, AcceptedOffered
  <2>4. CloseKnown'
    BY <1>1 DEF CloseKnown
  <2>5. EndOfStreamDrained'
    BY <1>1 DEF EndOfStreamDrained
  <2>. QED
    BY <1>1, <2>1, <2>3, <2>4, <2>5
<1>2. CASE CallRecv(t)
  BY <1>1, <1>2 DEF CallRecv, FieldTypes, RecvStates, CloseKnown, NoLostWakeup,
                    PermitForQueued, SingleReceiver
<1>3. CASE Pop(t)
  <2>1. CASE TakeFront(t)
    BY <1>3, <2>1, TakePreserves DEF Pop
  <2>2. CASE ~TakeFront(t)
    BY <1>1, <1>3, <2>2 DEF Pop, FieldTypes, RecvStates, CloseKnown, NoLostWakeup,
                            PermitForQueued, SingleReceiver
  <2>. QED
    BY <2>1, <2>2
<1>4. CASE CheckClosed(t)
  BY <1>1, <1>4 DEF CheckClosed, FieldTypes, RecvStates, CloseKnown, NoLostWakeup,
                    PermitForQueued, SingleReceiver
<1>5. CASE FinalPop(t)
  <2>1. CASE TakeFront(t)
    BY <1>5, <2>1, TakePreserves DEF FinalPop
  <2>2. CASE ~TakeFront(t)
    BY <1>1, <1>5, <2>2 DEF FinalPop, FieldTypes, RecvStates, CloseKnown, NoLostWakeup,
                            PermitForQueued, SingleReceiver
  <2>. QED
    BY <2>1, <2>2
<1>6. CASE Listen(t)
  BY <1>1, <1>6 DEF Listen, FieldTypes, RecvStates, CloseKnown, NoLostWakeup,
                    PermitForQueued, SingleReceiver
<1>7. CASE Resume(t)
  BY <1>1, <1>7 DEF Resume, FieldTypes, RecvStates, CloseKnown, NoLostWakeup,
                    PermitForQueued, SingleReceiver
<1>8. CASE Cancel(t)
  BY <1>1, <1>8 DEF Cancel, Parked, FieldTypes, RecvStates, CloseKnown, NoLostWakeup,
                    PermitForQueued, SingleReceiver
<1>. QED
  BY <1>2, <1>3, <1>4, <1>5, <1>6, <1>7, <1>8 DEF RecvStep

\* A refused frame and the two steps of close() leave the queue alone.
LEMMA OtherPreserves ==
  ASSUME IInv, PushRefused \/ \E c \in Closers : StoreClosed(c) \/ WakeWaiters(c)
  PROVE  IInv'
<1>. USE DEF IInv
<1>0. UNCHANGED <<policy, queue, permit, accepted, taken, ended>>
  BY DEF PushRefused, StoreClosed, WakeWaiters
<1>1. Queued' = Queued
  BY <1>0 DEF Queued
<1>2. QueueBounded' /\ FifoDelivery' /\ LossOnlyByEviction'
  BY <1>0, <1>1 DEF QueueBounded, FifoDelivery, LossOnlyByEviction
<1>3. CASE PushRefused
  <2>1. offered \in Nat /\ offered' = offered + 1 /\ offered' \in 0..MaxFrames
    BY <1>3, SubQueueAssumption DEF PushRefused, FieldTypes
  <2>2. rateCount' \in 0..RateLimit
    BY <1>3, CountAfterType, SubQueueAssumption DEF PushRefused, FieldTypes
  <2>3. FieldTypes'
    BY <1>0, <1>3, <2>1, <2>2 DEF PushRefused, FieldTypes
  <2>4. AcceptedOffered'
    BY <1>0, <2>1 DEF AcceptedOffered, FieldTypes, Frames
  <2>5. /\ NoLostWakeup' /\ PermitForQueued' /\ EndOfStreamDrained'
        /\ \A t \in Receivers : pc'[t] = "final" => closed'
    BY <1>0, <1>3 DEF PushRefused, NoLostWakeup, PermitForQueued,
                      EndOfStreamDrained, CloseKnown
  <2>6. closeMark' <= offered'
    BY <1>3, <2>1, SubQueueAssumption DEF PushRefused, CloseKnown, FieldTypes
  <2>. QED
    BY <1>2, <2>3, <2>4, <2>5, <2>6 DEF CloseKnown
<1>4. ASSUME NEW c \in Closers, StoreClosed(c)
      PROVE  IInv'
  <2>1. FieldTypes'
    BY <1>0, <1>4, SubQueueAssumption DEF StoreClosed, FieldTypes, CloseStates
  <2>2. AcceptedOffered' /\ NoLostWakeup' /\ PermitForQueued'
    BY <1>0, <1>4 DEF StoreClosed, AcceptedOffered, NoLostWakeup, PermitForQueued
  <2>3. CloseKnown' /\ EndOfStreamDrained'
    BY <1>0, <1>4, SubQueueAssumption
       DEF StoreClosed, CloseKnown, EndOfStreamDrained, FieldTypes
  <2>. QED
    BY <1>2, <2>1, <2>2, <2>3
<1>5. ASSUME NEW c \in Closers, WakeWaiters(c)
      PROVE  IInv'
  <2>1. FieldTypes'
    BY <1>0, <1>5 DEF WakeWaiters, NotifyWaiters, FieldTypes, CloseStates, RecvStates
  <2>2. AcceptedOffered' /\ NoLostWakeup' /\ PermitForQueued' /\ CloseKnown'
        /\ EndOfStreamDrained'
    BY <1>0, <1>5 DEF WakeWaiters, NotifyWaiters, AcceptedOffered, NoLostWakeup,
                      PermitForQueued, CloseKnown, EndOfStreamDrained
  <2>. QED
    BY <1>2, <2>1, <2>2
<1>. QED
  BY <1>3, <1>4, <1>5

LEMMA NextInv == IInv /\ [Next]_vars => IInv'
<1>. SUFFICES ASSUME IInv, [Next]_vars PROVE IInv'
  OBVIOUS
<1>1. CASE PushAccepted
  BY <1>1, PushPreserves
<1>2. CASE PushRefused \/ \E c \in Closers : StoreClosed(c) \/ WakeWaiters(c)
  BY <1>2, OtherPreserves
<1>3. CASE \E t \in Receivers : CallRecv(t) \/ RecvStep(t) \/ Cancel(t)
  BY <1>3, RecvPreserves
<1>4. CASE UNCHANGED vars
  BY <1>4 DEF vars, IInv, FieldTypes, AcceptedOffered, QueueBounded, FifoDelivery,
              LossOnlyByEviction, Queued, NoLostWakeup, PermitForQueued,
              CloseKnown, EndOfStreamDrained
<1>. QED
  BY <1>1, <1>2, <1>3, <1>4 DEF Next

---------------------------------------------------------------------------
(* The theorems.                                                           *)

LEMMA Invariance == Spec => []IInv
BY InitInv, NextInv, PTL DEF Spec

\* Every variable of the channel keeps its type, and DropNewest and DropOldest keep
\* the queue within the channel depth.
THEOREM SubQueueTypeOK == Spec => []TypeOK
<1>1. IInv => TypeOK
  BY DEF IInv, TypeOK
<1>. QED
  BY <1>1, Invariance, PTL

\* recv() returns frames in push order, none of them twice.
THEOREM SubQueueFifo == Spec => []FifoDelivery
<1>1. IInv => FifoDelivery
  BY DEF IInv
<1>. QED
  BY <1>1, Invariance, PTL

\* Only an eviction by DropOldest loses a frame that push() accepted.
THEOREM SubQueueLoss == Spec => []LossOnlyByEviction
<1>1. IInv => LossOnlyByEviction
  BY DEF IInv
<1>. QED
  BY <1>1, Invariance, PTL

\* One task that receives never sleeps while a frame is queued.
THEOREM SubQueueNoLostWakeup == Spec => []NoLostWakeup
<1>1. IInv => NoLostWakeup
  BY DEF IInv
<1>. QED
  BY <1>1, Invariance, PTL

\* recv() returns None only after every frame accepted before the close.
THEOREM SubQueueDrained == Spec => []EndOfStreamDrained
<1>1. IInv => EndOfStreamDrained
  BY DEF IInv
<1>. QED
  BY <1>1, Invariance, PTL

---------------------------------------------------------------------------
(* What CloseEndsRecv owes to safety.                                      *)

\* A task that can see the close never loses sight of it: in this recv() and in
\* every later one it does not come to its await any more, and where it waits
\* there is a notify_waiters() to come.  A leaked future, one more push and one
\* more closer change nothing about that.
CloseStaysSeen == [][\A t \in Receivers : SeesClose(t) => SeesClose(t)']_vars

\* Whoever can see the close, sees it for good, among any number of receivers
\* and closers.
THEOREM SubQueueCloseSeen == Spec => CloseStaysSeen
<1>1. ASSUME FieldTypes, [Next]_vars, NEW t \in Receivers, SeesClose(t)
      PROVE  SeesClose(t)'
  <2>. USE DEF FieldTypes, SeesClose
  <2>1. closed'
    BY <1>1 DEF Next, vars, PushAccepted, PushRefused, CallRecv, RecvStep, Pop,
                CheckClosed, FinalPop, Listen, Resume, Cancel, StoreClosed,
                WakeWaiters
  <2>2. CASE UNCHANGED pc /\ UNCHANGED cpc
    BY <1>1, <2>1, <2>2
  <2>3. CASE PushAccepted
    <3>1. UNCHANGED cpc
      BY <2>3 DEF PushAccepted
    <3>2. pc'[t] = pc[t] \/ pc'[t] = "notified"
      BY <1>1, <2>3 DEF PushAccepted, NotifyOne
    <3>. QED
      BY <1>1, <2>1, <3>1, <3>2
  <2>4. CASE PushRefused
    BY <2>2, <2>4 DEF PushRefused
  <2>5. ASSUME NEW u \in Receivers, CallRecv(u) \/ RecvStep(u) \/ Cancel(u)
        PROVE  SeesClose(t)'
    <3>1. UNCHANGED cpc
      BY <2>5 DEF CallRecv, RecvStep, Pop, CheckClosed, FinalPop, Listen, Resume,
                  Cancel
    <3>2. CASE CallRecv(u) \/ RecvStep(u)
      <4>1. pc'[t] = pc[t] \/ pc'[t] \in {"idle", "pop", "check", "final"}
        BY <1>1, <3>2 DEF CallRecv, RecvStep, Pop, TakeFront, CheckClosed, FinalPop,
                          Listen, Resume
      <4>. QED
        BY <1>1, <2>1, <3>1, <4>1
    <3>3. CASE Cancel(u)
      <4>1. pc'[t] = pc[t] \/ pc'[t] \in {"idle", "notified"}
        BY <1>1, <3>3 DEF Cancel
      <4>. QED
        BY <1>1, <2>1, <3>1, <4>1
    <3>. QED
      BY <2>5, <3>2, <3>3
  <2>6. ASSUME NEW c \in Closers, StoreClosed(c) PROVE SeesClose(t)'
    BY <1>1, <2>1, <2>6 DEF StoreClosed
  <2>7. ASSUME NEW c \in Closers, WakeWaiters(c) PROVE SeesClose(t)'
    <3>1. pc'[t] # "listen" /\ pc'[t] # "parked"
      BY <1>1, <2>7 DEF WakeWaiters, NotifyWaiters
    <3>. QED
      BY <2>1, <3>1
  <2>. QED
    BY <1>1, <2>2, <2>3, <2>4, <2>5, <2>6, <2>7 DEF Next, vars
<1>2. FieldTypes /\ [Next]_vars =>
        \A t \in Receivers : SeesClose(t) => SeesClose(t)'
  BY <1>1
<1>3. IInv => FieldTypes
  BY DEF IInv
<1>. QED
  BY <1>2, <1>3, Invariance, PTL DEF Spec, CloseStaysSeen
=============================================================================
