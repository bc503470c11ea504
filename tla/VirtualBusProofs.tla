-------------------------- MODULE VirtualBusProofs --------------------------
(***************************************************************************)
(* The safety of VirtualBus, its implementation of BroadcastBus included,  *)
(* for every number of senders, subscriptions and closers, every depth and *)
(* policy.                                                                 *)
(***************************************************************************)
EXTENDS VirtualBus, PushRulesProofs, FiniteSetTheorems, TLAPS

---------------------------------------------------------------------------
(* The inductive invariant.                                                *)

\* Who pushes holds the lock, so one broadcast at most is under way; its frame
\* is the latest of all and goes to members of the list.
Broadcasting ==
  \A s \in Senders :
    /\ (spc[s] = "pushing") <=> (lock = s)
    /\ spc[s] = "pushing" =>
         log # <<>> /\ frame[s] = log[Len(log)] /\ rest[s] \subseteq subs

\* A subscription that has not joined has seen nothing.
Outsiders ==
  \A u \in Subs :
    /\ upc[u] # "on" =>
         u \notin subs /\ queue[u] = <<>> /\ got[u] = <<>> /\ closedBy[u] = "open"
    /\ joinedAt[u] <= Len(log)

\* close() takes the channels it closes off the list.
ClosedAreGone == \A u \in subs : closedBy[u] # "bus"

\* No frame is broadcast twice, or is about to be.
NoFrameTwice ==
  /\ \A i, j \in 1..Len(log) : log[i] = log[j] => i = j
  /\ \A i \in 1..Len(log) : log[i] \in used
  /\ \A s \in Senders : spc[s] = "checked" =>
       /\ frame[s] \in used
       /\ \A i \in 1..Len(log) : log[i] # frame[s]
       /\ \A t \in Senders : spc[t] = "checked" /\ frame[t] = frame[s] => t = s

Logged(f) == \E i \in 1..Len(log) : log[i] = f

\* What a subscriber has queued is wanted, came after what it got last, and
\* stands in the order of the broadcasts.
InOrderAt(u) ==
  /\ got[u] # <<>> => Logged(got[u][Len(got[u])])
  /\ \A k \in 1..Len(queue[u]) :
       /\ Logged(queue[u][k])
       /\ Matches(u, queue[u][k])
       /\ Place(u) < Index(queue[u][k])
  /\ \A k, l \in 1..Len(queue[u]) :
       k < l => Index(queue[u][k]) < Index(queue[u][l])

InOrder == \A u \in Subs : InOrderAt(u)

\* Whom the broadcast under way has not reached, has only older frames.
NotYetReached ==
  \A s \in Senders : spc[s] = "pushing" =>
    \A u \in rest[s] :
      /\ Place(u) < Len(log)
      /\ \A k \in 1..Len(queue[u]) : Index(queue[u][k]) < Len(log)

\* From the moment a drain has found the queues empty, no member of the list
\* has a frame from before the drain, and none is on its way.
Drained ==
  \A c \in Closers :
    /\ drainMark[c] <= Len(log)
    /\ cpc[c] \in {"closing", "exchanged"} /\ result[c] = "drained" =>
         /\ \A u \in subs : \A k \in 1..Len(queue[u]) :
              drainMark[c] < Index(queue[u][k])
         /\ \A s \in Senders : spc[s] = "pushing" => drainMark[c] < Len(log)

IInv ==
  /\ TypeOK
  /\ Broadcasting
  /\ Outsiders
  /\ ClosedAreGone
  /\ NoFrameTwice
  /\ InOrder
  /\ NotYetReached
  /\ Drained
---------------------------------------------------------------------------
(* What one push does.                                                     *)

\* Of the frames of u the first d are gone, and at the end f may have joined.
Shifted(u, d) ==
  \A k \in 1..Len(queue'[u]) :
    k + d \in 1..Len(queue[u]) /\ queue'[u][k] = queue[u][k + d]

ShiftedBehind(u, d, f) ==
  \A k \in 1..Len(queue'[u]) :
    \/ k + d \in 1..Len(queue[u]) /\ queue'[u][k] = queue[u][k + d]
    \/ k = Len(queue'[u]) /\ queue'[u][k] = f /\ Matches(u, f)

\* One push touches the queue of one subscriber, which may get the frame at its
\* end and lose its front to it.
PushedTo(s, u) ==
  /\ rest' = [rest EXCEPT ![s] = @ \ {u}]
  /\ \A v \in Subs : v # u => queue'[v] = queue[v]
  /\ \E d \in {0, 1} : ShiftedBehind(u, d, frame[s])

LEMMA PushFacts ==
  ASSUME TypeOK, Broadcasting, NEW s \in Senders, SendPush(s)
  PROVE  /\ frame[s] \in Frames
         /\ queue' \in [Subs -> Seq(Frames)]
         /\ \A u \in Subs : Policy[u] # "Block" => Len(queue'[u]) <= Depth[u]
         /\ delivered' \in [Senders -> Nat]
         /\ dropped' \in [Senders -> Nat]
         /\ evicted' \in Nat
         /\ \E u \in rest[s] : PushedTo(s, u)
<1>1. frame[s] \in Frames
  <2>1. log \in Seq(Frames) /\ spc[s] = "pushing"
    BY DEF TypeOK, SendPush
  <2>2. log # <<>> /\ frame[s] = log[Len(log)]
    BY <2>1 DEF Broadcasting
  <2>. QED
    BY <2>1, <2>2
<1>2. PICK u \in rest[s] :
        PushTo(s, u, frame[s]) /\ rest' = [rest EXCEPT ![s] = @ \ {u}]
  BY DEF SendPush
<1>3. u \in Subs /\ queue[u] \in Seq(Frames) /\ Policy[u] \in Policies
      /\ Depth[u] \in Nat \ {0}
      /\ delivered \in [Senders -> Nat] /\ dropped \in [Senders -> Nat]
  BY VirtualBusAssumption DEF TypeOK
<1>4. CASE queue' = queue /\ evicted' = evicted
  <2>1. delivered' \in [Senders -> Nat] /\ dropped' \in [Senders -> Nat]
    <3>1. Accepted(s) \/ Refused(s) \/ UNCHANGED <<delivered, dropped>>
      BY <1>2 DEF PushTo
    <3>. QED
      BY <1>3, <3>1 DEF Refused, Accepted
  <2>2. queue \in [Subs -> Seq(Frames)] /\ evicted \in Nat
        /\ \A v \in Subs : Policy[v] # "Block" => Len(queue[v]) <= Depth[v]
    BY DEF TypeOK
  <2>3. ShiftedBehind(u, 0, frame[s])
    BY <1>3, <1>4 DEF ShiftedBehind
  <2>. QED
    BY <1>1, <1>2, <1>4, <2>1, <2>2, <2>3 DEF PushedTo
<1>5. CASE /\ Matches(u, frame[s])
           /\ Accepts(Policy[u], queue[u], Depth[u])
           /\ queue' = [queue EXCEPT
                          ![u] = Enqueue(Policy[u], @, Depth[u], frame[s])]
           /\ evicted' = evicted + (Len(queue[u]) + 1 - Len(queue'[u]))
           /\ Accepted(s)
  <2>. DEFINE e == Enqueue(Policy[u], queue[u], Depth[u], frame[s])
  <2>0. queue'[u] = e /\ queue' = [queue EXCEPT ![u] = e]
    BY <1>3, <1>5 DEF TypeOK
  <2>. HIDE DEF e
  <2>1. /\ e \in Seq(Frames)
        /\ \/ /\ Policy[u] = "DropOldest"
              /\ Len(queue[u]) >= Depth[u]
              /\ Len(e) = Len(queue[u])
              /\ \A k \in 1..(Len(queue[u]) - 1) : e[k] = queue[u][k + 1]
           \/ /\ Policy[u] = "DropOldest" => Len(queue[u]) < Depth[u]
              /\ Len(e) = Len(queue[u]) + 1
              /\ \A k \in 1..Len(queue[u]) : e[k] = queue[u][k]
        /\ Len(e) > 0
        /\ e[Len(e)] = frame[s]
    BY <1>1, <1>3, EnqueueFacts, SMTT(30) DEF e
  <2>3. queue' \in [Subs -> Seq(Frames)]
        /\ \A v \in Subs : v # u => queue'[v] = queue[v]
    BY <2>1, <2>0 DEF TypeOK
  <2>4. delivered' \in [Senders -> Nat] /\ dropped' \in [Senders -> Nat]
    BY <1>5 DEF Accepted, TypeOK
  <2>5. Policy[u] # "Block" => Len(e) <= Depth[u]
    <3>1. Policy[u] # "Block" => Len(queue[u]) <= Depth[u]
      BY <1>3 DEF TypeOK
    <3>2. Policy[u] = "DropNewest" => ~(Len(queue[u]) >= Depth[u])
      BY <1>5 DEF Accepts, IsFull
    <3>. QED
      BY <1>3, <2>1, <3>1, <3>2 DEF Policies
  <2>6. \E d \in {0, 1} : ShiftedBehind(u, d, frame[s])
    <3>1. CASE /\ Len(e) = Len(queue[u])
               /\ \A k \in 1..(Len(queue[u]) - 1) : e[k] = queue[u][k + 1]
      <4>1. ShiftedBehind(u, 1, frame[s])
        BY <1>3, <1>5, <2>0, <2>1, <3>1 DEF ShiftedBehind
      <4>. QED
        BY <4>1
    <3>2. CASE /\ Len(e) = Len(queue[u]) + 1
               /\ \A k \in 1..Len(queue[u]) : e[k] = queue[u][k]
      <4>1. ShiftedBehind(u, 0, frame[s])
        BY <1>3, <1>5, <2>0, <2>1, <3>2 DEF ShiftedBehind
      <4>. QED
        BY <4>1
    <3>. QED
      BY <2>1, <3>1, <3>2
  <2>7. evicted' \in Nat
    BY <1>3, <1>5, <2>1, <2>0 DEF TypeOK
  <2>8. \A v \in Subs : Policy[v] # "Block" => Len(queue'[v]) <= Depth[v]
    <3>1. \A v \in Subs : Policy[v] # "Block" => Len(queue[v]) <= Depth[v]
      BY DEF TypeOK
    <3>. QED
      BY <2>0, <2>3, <2>5, <3>1
  <2>. QED
    BY <1>1, <1>2, <2>3, <2>4, <2>6, <2>7, <2>8 DEF PushedTo
<1>. QED
  BY <1>2, <1>4, <1>5 DEF PushTo

---------------------------------------------------------------------------
(* One lemma per conjunct of the invariant.                                *)

\* Every step keeps the types.
LEMMA TypePreserved ==
  ASSUME IInv, [Next]_vars
  PROVE TypeOK'
<1>. USE VirtualBusAssumption DEF IInv, TypeOK,
         senderVars, subVars, closerVars, countVars, histVars
<1>1. ASSUME NEW s \in Senders, NEW f \in Frames, SendError(s, f) PROVE TypeOK'
  BY <1>1 DEF SendError
<1>2. ASSUME NEW s \in Senders, NEW f \in Frames, SendCheck(s, f) PROVE TypeOK'
  BY <1>2 DEF SendCheck
<1>3. ASSUME NEW s \in Senders, SendLock(s) PROVE TypeOK'
  <2>1. frame[s] \in Frames
    BY <1>3 DEF SendLock, NoFrameTwice
  <2>2. log' \in Seq(Frames)
    BY <1>3, <2>1 DEF SendLock
  <2>3. subs' \in SUBSET Subs /\ rest' \in [Senders -> SUBSET Subs]
    BY <1>3 DEF SendLock, Open
  <2>. QED
    BY <1>3, <2>2, <2>3 DEF SendLock
<1>4. ASSUME NEW s \in Senders, SendPush(s) PROVE TypeOK'
  <2>1. rest' \in [Senders -> SUBSET Subs]
    BY <1>4 DEF SendPush
  <2>. QED
    BY <1>4, <2>1, PushFacts DEF SendPush
<1>5. ASSUME NEW s \in Senders, SendUnlock(s) PROVE TypeOK'
  BY <1>5 DEF SendUnlock, Unlock
<1>6. ASSUME NEW s \in Senders, SendCount(s) PROVE TypeOK'
  <2>1. /\ delivered' \in [Senders -> Nat] /\ dropped' \in [Senders -> Nat]
        /\ deliverCount' \in Nat /\ dropCount' \in Nat
    BY <1>6 DEF SendCount
  <2>2. /\ spc' \in [Senders -> {"idle", "checked", "pushing", "counting"}]
        /\ frame' \in [Senders -> Frames \union {NoFrame}]
    BY <1>6 DEF SendCount
  <2>. QED
    BY <1>6, <2>1, <2>2 DEF SendCount
<1>7. ASSUME NEW u \in Subs, SubscribeCheck(u) PROVE TypeOK'
  BY <1>7 DEF SubscribeCheck
<1>8. ASSUME NEW u \in Subs, SubscribeJoin(u) PROVE TypeOK'
  BY <1>8 DEF SubscribeJoin
<1>9. ASSUME NEW u \in Subs, Receive(u) PROVE TypeOK'
  <2>1. queue' \in [Subs -> Seq(Frames)] /\ got' \in [Subs -> Seq(Frames)]
    BY <1>9 DEF Receive
  <2>2. \A v \in Subs : Len(queue'[v]) <= Len(queue[v])
    BY <1>9 DEF Receive
  <2>3. \A v \in Subs : Policy[v] # "Block" => Len(queue'[v]) <= Depth[v]
    BY <2>1, <2>2
  <2>. QED
    BY <1>9, <2>1, <2>3 DEF Receive
<1>10. ASSUME NEW u \in Subs, ReceiverClose(u) PROVE TypeOK'
  BY <1>10 DEF ReceiverClose
<1>11. ASSUME NEW c \in Closers, CloseCall(c) PROVE TypeOK'
  BY <1>11 DEF CloseCall
<1>12. ASSUME NEW c \in Closers, CloseExchange(c) PROVE TypeOK'
  BY <1>12 DEF CloseExchange
<1>13. ASSUME NEW c \in Closers, CloseSubs(c) PROVE TypeOK'
  BY <1>13 DEF CloseSubs, ClosedChannels
<1>14. ASSUME NEW c \in Closers, DrainCall(c) PROVE TypeOK'
  BY <1>14 DEF DrainCall
<1>15. ASSUME NEW c \in Closers, DrainExpire(c) PROVE TypeOK'
  BY <1>15 DEF DrainExpire
<1>16. ASSUME NEW c \in Closers, DrainScan(c) PROVE TypeOK'
  BY <1>16 DEF DrainScan
<1>17. CASE UNCHANGED vars
  BY <1>17 DEF vars
<1>. QED
  BY <1>1, <1>2, <1>3, <1>4, <1>5, <1>6, <1>7, <1>8, <1>9,
     <1>10, <1>11, <1>12, <1>13, <1>14, <1>15, <1>16, <1>17 DEF Next

\* The lock keeps broadcasts apart; only its holder, or nobody, touches the list.
LEMMA BroadcastingPreserved ==
  ASSUME IInv, [Next]_vars
  PROVE Broadcasting'
<1>. USE VirtualBusAssumption DEF IInv, TypeOK, Broadcasting,
         senderVars, subVars, closerVars, countVars, histVars
<1>1. ASSUME NEW s \in Senders, NEW f \in Frames, SendError(s, f)
      PROVE Broadcasting'
  BY <1>1 DEF SendError
<1>2. ASSUME NEW s \in Senders, NEW f \in Frames, SendCheck(s, f)
      PROVE Broadcasting'
  BY <1>2 DEF SendCheck
<1>3. ASSUME NEW s \in Senders, SendLock(s) PROVE Broadcasting'
  BY <1>3 DEF SendLock, Free, Open
<1>4. ASSUME NEW s \in Senders, SendPush(s) PROVE Broadcasting'
  BY <1>4 DEF SendPush
<1>5. ASSUME NEW s \in Senders, SendUnlock(s) PROVE Broadcasting'
  BY <1>5 DEF SendUnlock, Unlock
<1>6. ASSUME NEW s \in Senders, SendCount(s) PROVE Broadcasting'
  BY <1>6 DEF SendCount
<1>7. ASSUME NEW u \in Subs, SubscribeCheck(u) PROVE Broadcasting'
  BY <1>7 DEF SubscribeCheck
<1>8. ASSUME NEW u \in Subs, SubscribeJoin(u) PROVE Broadcasting'
  BY <1>8 DEF SubscribeJoin, Free
<1>9. ASSUME NEW u \in Subs, Receive(u) PROVE Broadcasting'
  BY <1>9 DEF Receive
<1>10. ASSUME NEW u \in Subs, ReceiverClose(u) PROVE Broadcasting'
  BY <1>10 DEF ReceiverClose
<1>11. ASSUME NEW c \in Closers, CloseCall(c) PROVE Broadcasting'
  BY <1>11 DEF CloseCall
<1>12. ASSUME NEW c \in Closers, CloseExchange(c) PROVE Broadcasting'
  BY <1>12 DEF CloseExchange
<1>13. ASSUME NEW c \in Closers, CloseSubs(c) PROVE Broadcasting'
  BY <1>13 DEF CloseSubs, Free
<1>14. ASSUME NEW c \in Closers, DrainCall(c) PROVE Broadcasting'
  BY <1>14 DEF DrainCall
<1>15. ASSUME NEW c \in Closers, DrainExpire(c) PROVE Broadcasting'
  BY <1>15 DEF DrainExpire
<1>16. ASSUME NEW c \in Closers, DrainScan(c) PROVE Broadcasting'
  BY <1>16 DEF DrainScan
<1>17. CASE UNCHANGED vars
  BY <1>17 DEF vars
<1>. QED
  BY <1>1, <1>2, <1>3, <1>4, <1>5, <1>6, <1>7, <1>8, <1>9,
     <1>10, <1>11, <1>12, <1>13, <1>14, <1>15, <1>16, <1>17 DEF Next

\* A broadcast pushes to members only.
LEMMA OutsidersPreserved ==
  ASSUME IInv, [Next]_vars
  PROVE Outsiders'
<1>. USE VirtualBusAssumption DEF IInv, TypeOK, Broadcasting, Outsiders,
         senderVars, subVars, closerVars, countVars, histVars
<1>1. ASSUME NEW s \in Senders, NEW f \in Frames, SendError(s, f)
      PROVE Outsiders'
  BY <1>1 DEF SendError
<1>2. ASSUME NEW s \in Senders, NEW f \in Frames, SendCheck(s, f)
      PROVE Outsiders'
  BY <1>2 DEF SendCheck
<1>3. ASSUME NEW s \in Senders, SendLock(s) PROVE Outsiders'
  BY <1>3 DEF SendLock, Open
<1>4. ASSUME NEW s \in Senders, SendPush(s) PROVE Outsiders'
  <2>1. spc[s] = "pushing" /\ rest[s] \subseteq subs
    BY <1>4 DEF SendPush
  <2>2. PICK u \in rest[s] : \A v \in Subs : v # u => queue'[v] = queue[v]
    BY <1>4, PushFacts DEF PushedTo
  <2>. QED
    BY <1>4, <2>1, <2>2 DEF SendPush
<1>5. ASSUME NEW s \in Senders, SendUnlock(s) PROVE Outsiders'
  BY <1>5 DEF SendUnlock
<1>6. ASSUME NEW s \in Senders, SendCount(s) PROVE Outsiders'
  BY <1>6 DEF SendCount
<1>7. ASSUME NEW u \in Subs, SubscribeCheck(u) PROVE Outsiders'
  BY <1>7 DEF SubscribeCheck
<1>8. ASSUME NEW u \in Subs, SubscribeJoin(u) PROVE Outsiders'
  BY <1>8 DEF SubscribeJoin
<1>9. ASSUME NEW u \in Subs, Receive(u) PROVE Outsiders'
  BY <1>9 DEF Receive
<1>10. ASSUME NEW u \in Subs, ReceiverClose(u) PROVE Outsiders'
  BY <1>10 DEF ReceiverClose
<1>11. ASSUME NEW c \in Closers, CloseCall(c) PROVE Outsiders'
  BY <1>11 DEF CloseCall
<1>12. ASSUME NEW c \in Closers, CloseExchange(c) PROVE Outsiders'
  BY <1>12 DEF CloseExchange
<1>13. ASSUME NEW c \in Closers, CloseSubs(c) PROVE Outsiders'
  BY <1>13 DEF CloseSubs, ClosedChannels
<1>14. ASSUME NEW c \in Closers, DrainCall(c) PROVE Outsiders'
  BY <1>14 DEF DrainCall
<1>15. ASSUME NEW c \in Closers, DrainExpire(c) PROVE Outsiders'
  BY <1>15 DEF DrainExpire
<1>16. ASSUME NEW c \in Closers, DrainScan(c) PROVE Outsiders'
  BY <1>16 DEF DrainScan
<1>17. CASE UNCHANGED vars
  BY <1>17 DEF vars
<1>. QED
  BY <1>1, <1>2, <1>3, <1>4, <1>5, <1>6, <1>7, <1>8, <1>9,
     <1>10, <1>11, <1>12, <1>13, <1>14, <1>15, <1>16, <1>17 DEF Next

\* Whom a close closes it also removes.
LEMMA ClosedAreGonePreserved ==
  ASSUME IInv, [Next]_vars
  PROVE ClosedAreGone'
<1>. USE VirtualBusAssumption DEF IInv, TypeOK, Outsiders, ClosedAreGone,
         senderVars, subVars, closerVars, countVars, histVars
<1>1. ASSUME NEW s \in Senders, NEW f \in Frames, SendError(s, f)
      PROVE ClosedAreGone'
  BY <1>1 DEF SendError
<1>2. ASSUME NEW s \in Senders, NEW f \in Frames, SendCheck(s, f)
      PROVE ClosedAreGone'
  BY <1>2 DEF SendCheck
<1>3. ASSUME NEW s \in Senders, SendLock(s) PROVE ClosedAreGone'
  BY <1>3 DEF SendLock, Open
<1>4. ASSUME NEW s \in Senders, SendPush(s) PROVE ClosedAreGone'
  BY <1>4 DEF SendPush
<1>5. ASSUME NEW s \in Senders, SendUnlock(s) PROVE ClosedAreGone'
  BY <1>5 DEF SendUnlock
<1>6. ASSUME NEW s \in Senders, SendCount(s) PROVE ClosedAreGone'
  BY <1>6 DEF SendCount
<1>7. ASSUME NEW u \in Subs, SubscribeCheck(u) PROVE ClosedAreGone'
  BY <1>7 DEF SubscribeCheck
<1>8. ASSUME NEW u \in Subs, SubscribeJoin(u) PROVE ClosedAreGone'
  BY <1>8 DEF SubscribeJoin
<1>9. ASSUME NEW u \in Subs, Receive(u) PROVE ClosedAreGone'
  BY <1>9 DEF Receive
<1>10. ASSUME NEW u \in Subs, ReceiverClose(u) PROVE ClosedAreGone'
  BY <1>10 DEF ReceiverClose
<1>11. ASSUME NEW c \in Closers, CloseCall(c) PROVE ClosedAreGone'
  BY <1>11 DEF CloseCall
<1>12. ASSUME NEW c \in Closers, CloseExchange(c) PROVE ClosedAreGone'
  BY <1>12 DEF CloseExchange
<1>13. ASSUME NEW c \in Closers, CloseSubs(c) PROVE ClosedAreGone'
  BY <1>13 DEF CloseSubs, ClosedChannels
<1>14. ASSUME NEW c \in Closers, DrainCall(c) PROVE ClosedAreGone'
  BY <1>14 DEF DrainCall
<1>15. ASSUME NEW c \in Closers, DrainExpire(c) PROVE ClosedAreGone'
  BY <1>15 DEF DrainExpire
<1>16. ASSUME NEW c \in Closers, DrainScan(c) PROVE ClosedAreGone'
  BY <1>16 DEF DrainScan
<1>17. CASE UNCHANGED vars
  BY <1>17 DEF vars
<1>. QED
  BY <1>1, <1>2, <1>3, <1>4, <1>5, <1>6, <1>7, <1>8, <1>9,
     <1>10, <1>11, <1>12, <1>13, <1>14, <1>15, <1>16, <1>17 DEF Next

\* A frame is passed to send() once, and its send takes the lock once.
LEMMA NoFrameTwicePreserved ==
  ASSUME IInv, [Next]_vars
  PROVE NoFrameTwice'
<1>. USE VirtualBusAssumption DEF IInv, TypeOK, Broadcasting, NoFrameTwice,
         senderVars, subVars, closerVars, countVars, histVars
<1>1. ASSUME NEW s \in Senders, NEW f \in Frames, SendError(s, f)
      PROVE NoFrameTwice'
  BY <1>1 DEF SendError
<1>2. ASSUME NEW s \in Senders, NEW f \in Frames, SendCheck(s, f)
      PROVE NoFrameTwice'
  BY <1>2 DEF SendCheck
<1>3. ASSUME NEW s \in Senders, SendLock(s) PROVE NoFrameTwice'
  BY <1>3 DEF SendLock
<1>4. ASSUME NEW s \in Senders, SendPush(s) PROVE NoFrameTwice'
  BY <1>4 DEF SendPush
<1>5. ASSUME NEW s \in Senders, SendUnlock(s) PROVE NoFrameTwice'
  BY <1>5 DEF SendUnlock
<1>6. ASSUME NEW s \in Senders, SendCount(s) PROVE NoFrameTwice'
  BY <1>6 DEF SendCount
<1>7. ASSUME NEW u \in Subs, SubscribeCheck(u) PROVE NoFrameTwice'
  BY <1>7 DEF SubscribeCheck
<1>8. ASSUME NEW u \in Subs, SubscribeJoin(u) PROVE NoFrameTwice'
  BY <1>8 DEF SubscribeJoin
<1>9. ASSUME NEW u \in Subs, Receive(u) PROVE NoFrameTwice'
  BY <1>9 DEF Receive
<1>10. ASSUME NEW u \in Subs, ReceiverClose(u) PROVE NoFrameTwice'
  BY <1>10 DEF ReceiverClose
<1>11. ASSUME NEW c \in Closers, CloseCall(c) PROVE NoFrameTwice'
  BY <1>11 DEF CloseCall
<1>12. ASSUME NEW c \in Closers, CloseExchange(c) PROVE NoFrameTwice'
  BY <1>12 DEF CloseExchange
<1>13. ASSUME NEW c \in Closers, CloseSubs(c) PROVE NoFrameTwice'
  BY <1>13 DEF CloseSubs
<1>14. ASSUME NEW c \in Closers, DrainCall(c) PROVE NoFrameTwice'
  BY <1>14 DEF DrainCall
<1>15. ASSUME NEW c \in Closers, DrainExpire(c) PROVE NoFrameTwice'
  BY <1>15 DEF DrainExpire
<1>16. ASSUME NEW c \in Closers, DrainScan(c) PROVE NoFrameTwice'
  BY <1>16 DEF DrainScan
<1>17. CASE UNCHANGED vars
  BY <1>17 DEF vars
<1>. QED
  BY <1>1, <1>2, <1>3, <1>4, <1>5, <1>6, <1>7, <1>8, <1>9,
     <1>10, <1>11, <1>12, <1>13, <1>14, <1>15, <1>16, <1>17 DEF Next

---------------------------------------------------------------------------
(* Positions in the log.                                                   *)

\* Frames differ, so each has one position.
LEMMA IndexFacts ==
  ASSUME TypeOK, NoFrameTwice
  PROVE  /\ log \in Seq(Frames)
         /\ \A i \in 1..Len(log) : Index(log[i]) = i
         /\ \A f : Logged(f) => Index(f) \in 1..Len(log) /\ log[Index(f)] = f
<1>1. log \in Seq(Frames) /\ \A i, j \in 1..Len(log) : log[i] = log[j] => i = j
  BY DEF TypeOK, NoFrameTwice
<1>2. ASSUME NEW f, Logged(f)
      PROVE Index(f) \in 1..Len(log) /\ log[Index(f)] = f
  BY <1>2 DEF Index, Logged
<1>3. ASSUME NEW i \in 1..Len(log) PROVE Index(log[i]) = i
  <2>1. Logged(log[i])
    BY DEF Logged
  <2>. QED
    BY <1>1, <1>2, <2>1
<1>. QED
  BY <1>1, <1>2, <1>3

\* Where a subscriber stands is a position, or the beginning.
LEMMA PlaceType ==
  ASSUME IInv, NEW u \in Subs, upc[u] = "on"
  PROVE  Place(u) \in 0..Len(log)
<1>1. joinedAt[u] \in 0..Len(log) /\ log \in Seq(Frames)
  BY DEF IInv, TypeOK, Outsiders
<1>2. CASE got[u] = <<>>
  BY <1>1, <1>2 DEF Place
<1>3. CASE got[u] # <<>>
  BY <1>1, <1>3, IndexFacts DEF Place, Last, IInv, InOrder, InOrderAt
<1>. QED
  BY <1>2, <1>3

\* A step that publishes, queues, reads and joins nothing keeps all positions.
Quiet ==
  /\ UNCHANGED <<log, queue, got, joinedAt, rest>>
  /\ subs' \subseteq subs
  /\ \A u \in Subs : (upc'[u] = "on") <=> (upc[u] = "on")
  /\ \A s \in Senders : spc'[s] = "pushing" => spc[s] = "pushing"

\* The other steps.
LEMMA StepKinds ==
  ASSUME IInv, [Next]_vars
  PROVE  \/ Quiet
         \/ \E s \in Senders : SendLock(s) \/ SendPush(s)
         \/ \E u \in Subs : SubscribeJoin(u) \/ Receive(u)
BY DEF IInv, TypeOK, Quiet, Next, vars, SendError, SendCheck, SendUnlock, SendCount,
       SubscribeCheck, ReceiverClose, CloseCall, CloseExchange, CloseSubs, DrainCall,
       DrainExpire, DrainScan, senderVars, subVars, histVars

\* What the positions are after a quiet step.
LEMMA QuietFacts ==
  ASSUME Quiet
  PROVE  /\ \A f : Index(f)' = Index(f) /\ (Logged(f)' <=> Logged(f))
         /\ \A u \in Subs : Place(u)' = Place(u)
BY DEF Quiet, Index, Logged, Place

\* A published frame gets the position after all others, which keep theirs.
LEMMA LogGrows ==
  ASSUME IInv, NEW s \in Senders, SendLock(s)
  PROVE  /\ Len(log') = Len(log) + 1
         /\ \A f : Logged(f) => Logged(f)' /\ Index(f)' = Index(f)
         /\ \A u \in Subs : Place(u)' = Place(u)
<1>1. /\ frame[s] \in Frames
      /\ log' = Append(log, frame[s])
      /\ UNCHANGED <<got, joinedAt, upc>>
  BY DEF IInv, TypeOK, NoFrameTwice, SendLock, subVars
<1>2. /\ Len(log') = Len(log) + 1
      /\ \A i \in 1..Len(log) : log'[i] = log[i]
  BY <1>1, IndexFacts DEF IInv
<1>3. TypeOK' /\ NoFrameTwice'
  BY TypePreserved, NoFrameTwicePreserved DEF Next
<1>4. ASSUME NEW f, Logged(f) PROVE Logged(f)' /\ Index(f)' = Index(f)
  <2>1. Index(f) \in 1..Len(log) /\ log[Index(f)] = f
    BY <1>4, IndexFacts DEF IInv
  <2>2. Index(f) \in 1..Len(log') /\ log'[Index(f)] = f
    BY <1>2, <2>1, IndexFacts DEF IInv
  <2>3. Logged(f)'
    BY <2>2 DEF Logged
  <2>4. Index(f)' \in 1..Len(log') /\ log'[Index(f)'] = f
    BY <2>2 DEF Index
  <2>5. Index(f)' = Index(f)
    BY <1>3, <2>2, <2>4 DEF NoFrameTwice
  <2>. QED
    BY <2>3, <2>5
<1>5. ASSUME NEW u \in Subs PROVE Place(u)' = Place(u)
  <2>1. CASE upc[u] = "on" /\ got[u] # <<>>
    BY <1>1, <1>4, <2>1 DEF Place, Last, IInv, InOrder, InOrderAt
  <2>2. CASE ~(upc[u] = "on" /\ got[u] # <<>>)
    BY <1>1, <2>2 DEF Place
  <2>. QED
    BY <2>1, <2>2
<1>. QED
  BY <1>2, <1>4, <1>5

\* A receiver moves on to the frame at the front of its queue.
LEMMA ReceiveFacts ==
  ASSUME IInv, NEW u \in Subs, Receive(u)
  PROVE  /\ upc[u] = "on"
         /\ queue[u] \in Seq(Frames)
         /\ queue'[u] \in Seq(Frames)
         /\ 1 \in 1..Len(queue[u])
         /\ Shifted(u, 1)
         /\ got'[u] # <<>>
         /\ got'[u][Len(got'[u])] = queue[u][1]
         /\ Place(u)' = Index(queue[u][1])
         /\ \A v \in Subs : v # u =>
              queue'[v] = queue[v] /\ got'[v] = got[v] /\ Place(v)' = Place(v)
         /\ \A f : Index(f)' = Index(f) /\ (Logged(f)' <=> Logged(f))
<1>1. /\ upc[u] = "on" /\ queue[u] # <<>>
      /\ queue[u] \in Seq(Frames)
      /\ queue' = [queue EXCEPT ![u] = Tail(queue[u])]
      /\ got' = [got EXCEPT ![u] = Append(got[u], Head(queue[u]))]
      /\ queue \in [Subs -> Seq(Frames)] /\ got \in [Subs -> Seq(Frames)]
      /\ UNCHANGED <<log, upc, joinedAt>>
  BY DEF Receive, IInv, TypeOK, subVars
<1>2. /\ queue'[u] \in Seq(Frames)
      /\ Len(queue[u]) = Len(queue'[u]) + 1
      /\ \A k \in 1..Len(queue'[u]) : queue'[u][k] = queue[u][k + 1]
      /\ Head(queue[u]) = queue[u][1] /\ queue[u][1] \in Frames
  BY <1>1, TailFacts
<1>3. got'[u] # <<>> /\ got'[u][Len(got'[u])] = queue[u][1]
  BY <1>1, <1>2
<1>4. \A f : Index(f)' = Index(f) /\ (Logged(f)' <=> Logged(f))
  BY <1>1 DEF Index, Logged
<1>5. Place(u)' = Index(queue[u][1])
  BY <1>1, <1>3, <1>4 DEF Place, Last
<1>6. \A v \in Subs : v # u =>
        queue'[v] = queue[v] /\ got'[v] = got[v] /\ Place(v)' = Place(v)
  BY <1>1, <1>4 DEF Place
<1>. QED
  BY <1>1, <1>2, <1>3, <1>4, <1>5, <1>6 DEF Shifted

\* A frame joins a queue as the latest of all and leaves it as the first.
LEMMA InOrderPreserved ==
  ASSUME IInv, [Next]_vars
  PROVE InOrder'
<1>. USE DEF InOrder, InOrderAt, Matches,
         senderVars, subVars, closerVars, countVars, histVars
<1>0. TypeOK /\ NoFrameTwice /\ Broadcasting /\ Outsiders /\ InOrder /\ NotYetReached
  BY DEF IInv, TypeOK
<1>1. ASSUME NEW s \in Senders, SendLock(s) PROVE InOrder'
  <2>1. UNCHANGED <<queue, got>>
    BY <1>1 DEF SendLock
  <2>. QED
    BY <1>0, <1>1, <2>1, LogGrows
<1>2. ASSUME NEW s \in Senders, SendPush(s) PROVE InOrder'
  <2>1. Logged(frame[s]) /\ Index(frame[s]) = Len(log) /\ rest[s] \subseteq Subs
    <3>1. /\ spc[s] = "pushing" /\ rest[s] \subseteq Subs
          /\ Len(log) \in 1..Len(log) /\ frame[s] = log[Len(log)]
      BY <1>0, <1>2 DEF SendPush, Broadcasting, TypeOK
    <3>. QED
      BY <1>0, <3>1, IndexFacts DEF Logged
  <2>2. /\ \A f : Index(f)' = Index(f) /\ (Logged(f)' <=> Logged(f))
        /\ \A v \in Subs : Place(v)' = Place(v)
        /\ UNCHANGED got
    BY <1>2 DEF SendPush, Index, Logged, Place
  <2>3. PICK u \in rest[s] : PushedTo(s, u)
    BY <1>0, <1>2, PushFacts
  <2>4. ASSUME NEW v \in Subs, v # u PROVE InOrderAt(v)'
    <3>1. queue'[v] = queue[v]
      BY <2>3, <2>4 DEF PushedTo
    <3>. QED
      BY <1>0, <2>2, <3>1
  <2>5. InOrderAt(u)'
    <3>1. PICK d \in {0, 1} : ShiftedBehind(u, d, frame[s])
      BY <2>3 DEF PushedTo
    <3>2. /\ Place(u) < Len(log)
          /\ \A k \in 1..Len(queue[u]) : Index(queue[u][k]) < Len(log)
      BY <1>0, <1>2, <2>1 DEF NotYetReached, SendPush
    <3>3. InOrderAt(u)
      BY <1>0, <2>1
    <3>4. got'[u] # <<>> => Logged(got'[u][Len(got'[u])])
      BY <2>2, <3>3
    <3>5. \A k \in 1..Len(queue'[u]) :
            /\ Logged(queue'[u][k])
            /\ Matches(u, queue'[u][k])
            /\ Place(u) < Index(queue'[u][k])
      BY <2>1, <3>1, <3>2, <3>3 DEF ShiftedBehind
    <3>6. Len(queue'[u]) \in Nat
      BY <1>0, <1>2, <2>1, PushFacts
    <3>7. ASSUME NEW k \in 1..Len(queue'[u]), NEW l \in 1..Len(queue'[u]), k < l
          PROVE  Index(queue'[u][k]) < Index(queue'[u][l])
      <4>1. k + d \in 1..Len(queue[u]) /\ queue'[u][k] = queue[u][k + d]
        BY <3>1, <3>6, <3>7 DEF ShiftedBehind
      <4>2. CASE l + d \in 1..Len(queue[u]) /\ queue'[u][l] = queue[u][l + d]
        BY <3>3, <3>7, <4>1, <4>2
      <4>3. CASE queue'[u][l] = frame[s]
        BY <2>1, <3>2, <4>1, <4>3
      <4>. QED
        BY <3>1, <4>2, <4>3 DEF ShiftedBehind
    <3>8. \A k, l \in 1..Len(queue'[u]) :
            k < l => Index(queue'[u][k]) < Index(queue'[u][l])
      BY <3>7
    <3>9. \A k \in 1..Len(queue'[u]) :
            /\ Logged(queue[u][k])'
            /\ Place(u)' < Index(queue[u][k])'
      BY <2>1, <2>2, <3>5
    <3>10. \A k, l \in 1..Len(queue'[u]) :
             k < l => Index(queue[u][k])' < Index(queue[u][l])'
      BY <2>2, <3>8
    <3>. QED
      BY <2>2, <3>4, <3>5, <3>9, <3>10
  <2>. QED
    BY <2>4, <2>5
<1>3. ASSUME NEW u \in Subs, SubscribeJoin(u) PROVE InOrder'
  <2>1. /\ queue[u] = <<>> /\ got[u] = <<>>
        /\ \A f : Index(f)' = Index(f) /\ (Logged(f)' <=> Logged(f))
        /\ \A v \in Subs : v # u => Place(v)' = Place(v)
        /\ UNCHANGED <<queue, got>>
    BY <1>0, <1>3 DEF SubscribeJoin, Outsiders, Index, Logged, Place, TypeOK
  <2>2. ASSUME NEW v \in Subs, v # u PROVE InOrderAt(v)'
    BY <1>0, <2>1, <2>2
  <2>3. InOrderAt(u)'
    BY <2>1
  <2>. QED
    BY <2>2, <2>3
<1>4. ASSUME NEW u \in Subs, Receive(u) PROVE InOrder'
  <2>1. ASSUME NEW v \in Subs, v # u PROVE InOrderAt(v)'
    <3>1. /\ queue'[v] = queue[v] /\ got'[v] = got[v] /\ Place(v)' = Place(v)
          /\ \A f : Index(f)' = Index(f) /\ (Logged(f)' <=> Logged(f))
      BY <1>4, <2>1, ReceiveFacts
    <3>. QED
      BY <1>0, <3>1
  <2>2. InOrderAt(u)'
    <3>1. /\ Shifted(u, 1) /\ 1 \in 1..Len(queue[u])
          /\ got'[u][Len(got'[u])] = queue[u][1]
          /\ Place(u)' = Index(queue[u][1])
          /\ \A f : Index(f)' = Index(f) /\ (Logged(f)' <=> Logged(f))
          /\ Len(queue'[u]) \in Nat
      BY <1>4, ReceiveFacts
    <3>2. InOrderAt(u)
      BY <1>0
    <3>3. \A k \in 1..Len(queue'[u]) :
            /\ Logged(queue'[u][k])
            /\ Matches(u, queue'[u][k])
            /\ Place(u)' < Index(queue'[u][k])
      BY <3>1, <3>2 DEF Shifted
    <3>4. \A k, l \in 1..Len(queue'[u]) :
            k < l => Index(queue'[u][k]) < Index(queue'[u][l])
      BY <3>1, <3>2 DEF Shifted
    <3>. QED
      BY <3>1, <3>2, <3>3, <3>4
  <2>. QED
    BY <2>1, <2>2
<1>5. CASE Quiet
  BY <1>0, <1>5, QuietFacts DEF Quiet
<1>. QED
  BY <1>1, <1>2, <1>3, <1>4, <1>5, StepKinds

\* A new broadcast is later than all there is, and nobody else publishes.
LEMMA NotYetReachedPreserved ==
  ASSUME IInv, [Next]_vars
  PROVE NotYetReached'
<1>. USE DEF NotYetReached,
         senderVars, subVars, closerVars, countVars, histVars
<1>0. /\ TypeOK /\ NoFrameTwice /\ Broadcasting /\ Outsiders /\ InOrder
      /\ NotYetReached /\ subs \subseteq Subs /\ rest \in [Senders -> SUBSET Subs]
      /\ spc \in [Senders -> {"idle", "checked", "pushing", "counting"}]
  BY DEF IInv, TypeOK
<1>1. ASSUME NEW s \in Senders, SendLock(s) PROVE NotYetReached'
  <2>1. UNCHANGED queue /\ rest'[s] \subseteq subs
        /\ \A t \in Senders : spc'[t] = "pushing" => t = s
    BY <1>0, <1>1, VirtualBusAssumption DEF SendLock, Free, Open, Broadcasting
  <2>2. ASSUME NEW u \in subs
        PROVE  /\ Place(u)' < Len(log')
               /\ \A k \in 1..Len(queue[u]) : Index(queue[u][k])' < Len(log')
    <3>1. u \in Subs /\ upc[u] = "on" /\ InOrderAt(u)
      BY <1>0 DEF Outsiders, InOrder
    <3>2. Len(log') = Len(log) + 1 /\ Len(log) \in Nat
      BY <1>0, <1>1, LogGrows, IndexFacts
    <3>3. Place(u)' < Len(log')
      BY <1>1, <3>1, <3>2, PlaceType, LogGrows
    <3>4. ASSUME NEW k \in 1..Len(queue[u]) PROVE Index(queue[u][k])' < Len(log')
      <4>1. Logged(queue[u][k])
        BY <3>1 DEF InOrderAt
      <4>2. Index(queue[u][k]) \in 1..Len(log)
        BY <1>0, <4>1, IndexFacts
      <4>3. \A f : Logged(f) => Index(f)' = Index(f)
        BY <1>1, LogGrows
      <4>. QED
        BY <2>1, <3>2, <4>1, <4>2, <4>3
    <3>. QED
      BY <3>3, <3>4
  <2>. QED
    BY <2>1, <2>2
<1>2. ASSUME NEW s \in Senders, SendPush(s) PROVE NotYetReached'
  <2>1. /\ \A f : Index(f)' = Index(f)
        /\ \A v \in Subs : Place(v)' = Place(v)
        /\ UNCHANGED <<log, spc>>
    BY <1>2 DEF SendPush, Index, Place
  <2>2. PICK u \in rest[s] : PushedTo(s, u)
    BY <1>0, <1>2, PushFacts
  <2>3. \A t \in Senders : spc[t] = "pushing" => t = s
    BY <1>0, <1>2 DEF SendPush, Broadcasting
  <2>4. \A v \in rest'[s] : v \in rest[s] /\ v \in Subs /\ queue'[v] = queue[v]
    BY <1>0, <2>2 DEF PushedTo
  <2>. QED
    BY <1>0, <2>1, <2>3, <2>4
<1>3. ASSUME NEW u \in Subs, SubscribeJoin(u) PROVE NotYetReached'
  <2>1. \A s \in Senders : spc'[s] # "pushing"
    BY <1>0, <1>3, VirtualBusAssumption DEF SubscribeJoin, Free, Broadcasting
  <2>. QED
    BY <2>1
<1>4. ASSUME NEW u \in Subs, Receive(u) PROVE NotYetReached'
  <2>1. UNCHANGED <<log, spc, rest>>
    BY <1>4 DEF Receive
  <2>2. ASSUME NEW s \in Senders, spc[s] = "pushing", NEW v \in rest[s]
        PROVE  /\ Place(v)' < Len(log)
               /\ \A k \in 1..Len(queue'[v]) : Index(queue'[v][k]) < Len(log)
    <3>1. /\ v \in Subs /\ Place(v) < Len(log)
          /\ \A k \in 1..Len(queue[v]) : Index(queue[v][k]) < Len(log)
      BY <1>0, <2>2
    <3>2. CASE v = u
      BY <1>4, <3>1, <3>2, ReceiveFacts DEF Shifted
    <3>3. CASE v # u
      <4>1. queue'[v] = queue[v] /\ Place(v)' = Place(v)
        BY <1>4, <3>1, <3>3, ReceiveFacts
      <4>2. Place(v)' < Len(log)
        BY <3>1, <4>1
      <4>3. \A k \in 1..Len(queue'[v]) : Index(queue'[v][k]) < Len(log)
        BY <3>1, <4>1
      <4>. QED
        BY <4>2, <4>3
    <3>. QED
      BY <3>2, <3>3
  <2>3. \A f : Index(f)' = Index(f)
    BY <1>4, ReceiveFacts
  <2>. QED
    BY <2>1, <2>2, <2>3
<1>5. CASE Quiet
  BY <1>0, <1>5, QuietFacts DEF Quiet
<1>. QED
  BY <1>1, <1>2, <1>3, <1>4, <1>5, StepKinds

\* What is pushed after the queues were found empty was published after the drain
\* began.
LEMMA DrainedPreserved ==
  ASSUME IInv, [Next]_vars
  PROVE Drained'
<1>. USE DEF Drained,
         senderVars, subVars, closerVars, countVars, histVars
<1>0. /\ TypeOK /\ NoFrameTwice /\ Broadcasting /\ Outsiders /\ InOrder /\ Drained
      /\ subs \subseteq Subs /\ log \in Seq(Frames)
      /\ cpc \in [Closers -> {"idle", "draining", "closing", "exchanged", "done"}]
      /\ result \in [Closers -> {"none", "closed", "drained", "timeout"}]
      /\ drainMark \in [Closers -> Nat]
      /\ spc \in [Senders -> {"idle", "checked", "pushing", "counting"}]
  BY DEF IInv, TypeOK
<1>1. ASSUME NEW s \in Senders, SendLock(s) PROVE Drained'
  <2>1. /\ subs' \subseteq subs
        /\ UNCHANGED <<queue, cpc, result, drainMark>>
    BY <1>1 DEF SendLock, Open
  <2>2. \A u \in subs : \A k \in 1..Len(queue[u]) :
          Index(queue[u][k])' = Index(queue[u][k])
    <3>1. \A u \in subs : \A k \in 1..Len(queue[u]) : Logged(queue[u][k])
      BY <1>0 DEF InOrder, InOrderAt
    <3>2. \A f : Logged(f) => Index(f)' = Index(f)
      BY <1>1, LogGrows
    <3>. QED
      BY <2>1, <3>1, <3>2
  <2>3. Len(log') = Len(log) + 1 /\ Len(log) \in Nat
    BY <1>0, <1>1, LogGrows
  <2>4. ASSUME NEW c \in Closers
        PROVE  drainMark[c] <= Len(log) /\ drainMark[c] < Len(log')
    BY <1>0, <2>3
  <2>5. ASSUME NEW c \in Closers, cpc[c] \in {"closing", "exchanged"},
               result[c] = "drained", NEW u \in subs, NEW k \in 1..Len(queue[u])
        PROVE  drainMark[c] < Index(queue[u][k])'
    BY <1>0, <2>2, <2>5
  <2>6. ASSUME NEW c \in Closers, cpc'[c] \in {"closing", "exchanged"},
               result'[c] = "drained", NEW u \in subs', NEW k \in 1..Len(queue'[u])
        PROVE  drainMark'[c] < Index(queue[u][k])'
    BY <2>1, <2>5, <2>6
  <2>7. \A c \in Closers : drainMark'[c] <= Len(log') /\ drainMark'[c] < Len(log')
    BY <1>0, <2>1, <2>3, <2>4
  <2>8. \A c \in Closers : cpc'[c] \in {"closing", "exchanged"} /\ result'[c] = "drained"
          => \A u \in subs' : \A k \in 1..Len(queue'[u]) :
               drainMark'[c] < Index(queue[u][k])'
    BY <2>6
  <2>. QED
    BY <2>7, <2>8
<1>2. ASSUME NEW s \in Senders, SendPush(s) PROVE Drained'
  <2>1. /\ \A f : Index(f)' = Index(f)
        /\ UNCHANGED <<log, spc, subs, cpc, result, drainMark>>
    BY <1>2 DEF SendPush, Index
  <2>2. spc[s] = "pushing" /\ Index(frame[s]) = Len(log)
    <3>1. spc[s] = "pushing" /\ Len(log) \in 1..Len(log) /\ frame[s] = log[Len(log)]
      BY <1>0, <1>2 DEF SendPush, Broadcasting
    <3>. QED
      BY <1>0, <3>1, IndexFacts
  <2>3. PICK u \in rest[s] : PushedTo(s, u)
    BY <1>0, <1>2, PushFacts
  <2>4. ASSUME NEW v \in subs, NEW k \in 1..Len(queue'[v])
        PROVE  \/ Index(queue'[v][k]) = Len(log)
               \/ \E l \in 1..Len(queue[v]) : queue'[v][k] = queue[v][l]
    <3>1. CASE v # u
      <4>1. queue'[v] = queue[v]
        BY <1>0, <2>3, <3>1 DEF PushedTo
      <4>. QED
        BY <4>1
    <3>2. CASE v = u
      <4>1. PICK d \in {0, 1} : ShiftedBehind(u, d, frame[s])
        BY <2>3 DEF PushedTo
      <4>. QED
        BY <2>2, <3>2, <4>1 DEF ShiftedBehind
    <3>. QED
      BY <3>1, <3>2
  <2>5. ASSUME NEW c \in Closers, cpc[c] \in {"closing", "exchanged"},
               result[c] = "drained", NEW v \in subs, NEW k \in 1..Len(queue'[v])
        PROVE  drainMark[c] < Index(queue'[v][k])
    <3>1. /\ \A l \in 1..Len(queue[v]) : drainMark[c] < Index(queue[v][l])
          /\ drainMark[c] < Len(log)
      BY <1>0, <2>2, <2>5
    <3>. QED
      BY <2>4, <3>1
  <2>. QED
    BY <1>0, <2>1, <2>5
<1>3. ASSUME NEW u \in Subs, SubscribeJoin(u) PROVE Drained'
  <2>1. /\ queue[u] = <<>>
        /\ \A f : Index(f)' = Index(f)
        /\ subs' = subs \union {u}
        /\ UNCHANGED <<queue, log, spc, cpc, result, drainMark>>
    BY <1>0, <1>3 DEF SubscribeJoin, Outsiders, Index
  <2>2. ASSUME NEW c \in Closers, cpc[c] \in {"closing", "exchanged"},
               result[c] = "drained", NEW v \in subs', NEW k \in 1..Len(queue[v])
        PROVE  drainMark[c] < Index(queue[v][k])
    <3>1. v \in subs
      BY <2>1
    <3>. QED
      BY <1>0, <2>2, <3>1
  <2>3. ASSUME NEW c \in Closers PROVE drainMark'[c] <= Len(log')
    BY <1>0, <2>1
  <2>4. ASSUME NEW c \in Closers, cpc[c] \in {"closing", "exchanged"},
               result[c] = "drained", NEW s \in Senders, spc[s] = "pushing"
        PROVE  drainMark[c] < Len(log)
    BY <1>0, <2>4
  <2>. QED
    BY <2>1, <2>2, <2>3, <2>4
<1>4. ASSUME NEW u \in Subs, Receive(u) PROVE Drained'
  <2>1. /\ \A f : Index(f)' = Index(f)
        /\ UNCHANGED <<log, spc, subs, cpc, result, drainMark>>
    BY <1>4 DEF Receive, Index
  <2>2. ASSUME NEW v \in subs, NEW k \in 1..Len(queue'[v])
        PROVE  \E l \in 1..Len(queue[v]) : queue'[v][k] = queue[v][l]
    <3>1. CASE v = u
      BY <1>4, <3>1, ReceiveFacts DEF Shifted
    <3>2. CASE v # u
      <4>1. queue'[v] = queue[v]
        BY <1>0, <1>4, <3>2, ReceiveFacts
      <4>. QED
        BY <4>1
    <3>. QED
      BY <3>1, <3>2
  <2>3. ASSUME NEW c \in Closers, cpc[c] \in {"closing", "exchanged"},
               result[c] = "drained", NEW v \in subs, NEW k \in 1..Len(queue'[v])
        PROVE  drainMark[c] < Index(queue'[v][k])
    <3>1. PICK l \in 1..Len(queue[v]) : queue'[v][k] = queue[v][l]
      BY <2>2
    <3>2. drainMark[c] < Index(queue[v][l])
      BY <1>0, <2>3
    <3>. QED
      BY <3>1, <3>2
  <2>4. ASSUME NEW c \in Closers PROVE drainMark'[c] <= Len(log')
    BY <1>0, <2>1
  <2>5. ASSUME NEW c \in Closers, cpc[c] \in {"closing", "exchanged"},
               result[c] = "drained", NEW s \in Senders, spc[s] = "pushing"
        PROVE  drainMark[c] < Len(log)
    BY <1>0, <2>5
  <2>. QED
    BY <2>1, <2>3, <2>4, <2>5
<1>5. CASE Quiet
  <2>1. \A f : Index(f)' = Index(f)
    BY <1>5, QuietFacts
  <2>2. ASSUME NEW c \in Closers
        PROVE  /\ drainMark'[c] <= Len(log)
               /\ cpc'[c] \in {"closing", "exchanged"} /\ result'[c] = "drained" =>
                    \/ /\ cpc[c] \in {"closing", "exchanged"}
                       /\ result[c] = "drained"
                       /\ drainMark'[c] = drainMark[c]
                    \/ DrainScan(c)
    BY <1>0, <1>5
      DEF Next, vars, SendError, SendCheck, SendLock, SendPush, SendUnlock,
      SendCount, SubscribeCheck, SubscribeJoin, Receive, ReceiverClose, CloseCall,
      CloseExchange, CloseSubs, DrainCall, DrainExpire, DrainScan, Quiet
  <2>3. ASSUME NEW c \in Closers, DrainScan(c)
        PROVE  /\ \A u \in subs : queue[u] = <<>>
               /\ \A s \in Senders : spc[s] # "pushing"
    BY <1>0, <2>3, VirtualBusAssumption
      DEF DrainScan, AllEmpty, Free, Broadcasting
  <2>. QED
    BY <1>0, <1>5, <2>1, <2>2, <2>3 DEF Quiet
<1>. QED
  BY <1>1, <1>2, <1>3, <1>4, <1>5, StepKinds

---------------------------------------------------------------------------
(* The theorems.                                                           *)

\* The invariant holds at the start and through every step.
LEMMA InitInv == Init => IInv
<1>. SUFFICES ASSUME Init PROVE IInv
  OBVIOUS
<1>. USE VirtualBusAssumption
<1>1. TypeOK
  <2>1. /\ queue \in [Subs -> Seq(Frames)] /\ got \in [Subs -> Seq(Frames)]
        /\ log \in Seq(Frames)
    BY DEF Init
  <2>2. \A u \in Subs : Policy[u] # "Block" => Len(queue[u]) <= Depth[u]
    BY DEF Init
  <2>3. /\ closedBy \in [Subs -> {"open", "owner", "bus"}]
        /\ upc \in [Subs -> {"new", "refused", "checked", "on"}]
        /\ spc \in [Senders -> {"idle", "checked", "pushing", "counting"}]
        /\ frame \in [Senders -> Frames \union {NoFrame}]
        /\ rest \in [Senders -> SUBSET Subs]
    BY DEF Init
  <2>. QED
    BY <2>1, <2>2, <2>3 DEF Init, TypeOK
<1>2. Broadcasting /\ Outsiders /\ ClosedAreGone /\ NoFrameTwice
  BY DEF Init, Broadcasting, Outsiders, ClosedAreGone, NoFrameTwice
<1>3. InOrder /\ NotYetReached /\ Drained
  BY DEF Init, InOrder, InOrderAt, NotYetReached, Drained
<1>. QED
  BY <1>1, <1>2, <1>3 DEF IInv

LEMMA InvPreserved == IInv /\ [Next]_vars => IInv'
<1>. SUFFICES ASSUME IInv, [Next]_vars PROVE IInv'
  OBVIOUS
<1>1. TypeOK' /\ Broadcasting' /\ Outsiders' /\ ClosedAreGone' /\ NoFrameTwice'
  BY TypePreserved, BroadcastingPreserved, OutsidersPreserved,
     ClosedAreGonePreserved, NoFrameTwicePreserved
<1>2. InOrder' /\ NotYetReached' /\ Drained'
  BY InOrderPreserved, NotYetReachedPreserved, DrainedPreserved
<1>. QED
  BY <1>1, <1>2 DEF IInv

LEMMA InvHolds == Spec => []IInv
BY InitInv, InvPreserved, PTL DEF Spec

\* The fields and locals of the bus keep their types, and a queue that drops
\* stays within its depth.
THEOREM VirtualBusTypeOK == Spec => []TypeOK
<1>1. IInv => TypeOK
  BY DEF IInv
<1>. QED
  BY <1>1, InvHolds, PTL

\* A drain that succeeded closes no channel on a frame from before it.
THEOREM VirtualBusDrainDelivers == Spec => []DrainDelivers
<1>1. ASSUME IInv PROVE DrainDelivers
  <2>. SUFFICES ASSUME NEW c \in Closers,
                       cpc[c] = "exchanged", result[c] = "drained",
                       NEW u \in subs, NEW i \in 1..drainMark[c],
                       log[i] \in ToSet(queue[u])
                PROVE  FALSE
    BY DEF DrainDelivers
  <2>1. /\ queue[u] \in Seq(Frames) /\ log \in Seq(Frames)
        /\ drainMark[c] \in Nat
    BY <1>1 DEF IInv, TypeOK
  <2>2. i \in 1..Len(log)
    BY <1>1, <2>1 DEF IInv, Drained
  <2>3. PICK k \in 1..Len(queue[u]) : log[i] = queue[u][k]
    BY <2>1 DEF ToSet
  <2>4. drainMark[c] < Index(queue[u][k])
    BY <1>1 DEF IInv, Drained
  <2>5. Index(log[i]) = i
    BY <1>1, <2>2, IndexFacts DEF IInv
  <2>. QED
    BY <2>1, <2>3, <2>4, <2>5
<1>. QED
  BY <1>1, InvHolds, PTL

\* Taking the front leaves a suffix.
LEMMA SuffixFacts ==
  ASSUME NEW S, NEW q \in Seq(S)
  PROVE  IsSuffix(q, q) /\ (q # <<>> => IsSuffix(Tail(q), q))
<1>1. IsSuffix(q, q)
  BY DEF IsSuffix, IsPrefix, Reverse
<1>2. ASSUME q # <<>> PROVE IsSuffix(Tail(q), q)
  <2>. DEFINE t == Tail(q)
              rt == [i \in 1..Len(t) |-> t[Len(t) - i + 1]]
              rq == [i \in 1..Len(q) |-> q[Len(q) - i + 1]]
  <2>1. /\ t \in Seq(S) /\ Len(q) \in Nat \ {0}
        /\ Len(t) = Len(q) - 1
        /\ \A i \in 1..(Len(q) - 1) : t[i] = q[i + 1]
    BY <1>2, TailFacts
  <2>. HIDE DEF t
  <2>2. rt \in Seq(S) /\ rq \in Seq(S) /\ Len(rt) = Len(t) /\ Len(rq) = Len(q)
    BY <2>1
  <2>3. ASSUME NEW i \in 1..Len(t) PROVE rt[i] = rq[i]
    <3>1. /\ Len(t) - i + 1 \in 1..(Len(q) - 1)
          /\ (Len(t) - i + 1) + 1 = Len(q) - i + 1
          /\ i \in 1..Len(q)
      BY <2>1
    <3>2. t[Len(t) - i + 1] = q[Len(q) - i + 1]
      BY <2>1, <3>1
    <3>. QED
      BY <3>1, <3>2
  <2>. HIDE DEF rt, rq
  <2>4. SubSeq(rt, 1, Len(rt)) = SubSeq(rq, 1, Len(rt))
    BY <2>1, <2>2, <2>3
  <2>5. IsPrefix(rt, rq)
    BY <2>1, <2>2, <2>4 DEF IsPrefix
  <2>. QED
    BY <2>5 DEF IsSuffix, Reverse, t, rt, rq
<1>. QED
  BY <1>1, <1>2

\* No send delivers to a channel that close() has closed, not even one that was
\* past its own check of `closed`.
THEOREM VirtualBusSilence == Spec => BusClosedStaysSilent
<1>1. ASSUME IInv, [Next]_vars, NEW u \in Subs, closedBy[u] = "bus"
      PROVE  IsSuffix(queue'[u], queue[u])
  <2>1. queue \in [Subs -> Seq(Frames)]
    BY <1>1 DEF IInv, TypeOK
  <2>2. ASSUME queue'[u] = queue[u] PROVE IsSuffix(queue'[u], queue[u])
    BY <2>1, <2>2, SuffixFacts
  <2>3. CASE \E s \in Senders : SendPush(s)
    <3>1. PICK s \in Senders : SendPush(s)
      BY <2>3
    <3>2. PICK v \in rest[s] : PushedTo(s, v)
      BY <1>1, <3>1, PushFacts DEF IInv
    <3>3. v \in subs
      BY <1>1, <3>1 DEF IInv, Broadcasting, SendPush
    <3>4. v # u
      BY <1>1, <3>3 DEF IInv, ClosedAreGone
    <3>. QED
      BY <2>2, <3>2, <3>4 DEF PushedTo
  <2>4. CASE \E v \in Subs : Receive(v)
    <3>1. PICK v \in Subs : Receive(v)
      BY <2>4
    <3>2. CASE v = u
      <4>1. queue[u] # <<>> /\ queue'[u] = Tail(queue[u])
        BY <2>1, <3>1, <3>2 DEF Receive
      <4>. QED
        BY <2>1, <4>1, SuffixFacts
    <3>3. CASE v # u
      BY <2>1, <2>2, <3>1, <3>3 DEF Receive
    <3>. QED
      BY <3>2, <3>3
  <2>5. CASE Quiet \/ (\E s \in Senders : SendLock(s))
             \/ (\E v \in Subs : SubscribeJoin(v))
    BY <2>2, <2>5 DEF Quiet, SendLock, SubscribeJoin
  <2>. QED
    BY <1>1, <2>3, <2>4, <2>5, StepKinds
<1>2. IInv /\ [Next]_vars =>
        \A u \in Subs : closedBy[u] = "bus" => IsSuffix(queue'[u], queue[u])
  BY <1>1
<1>. QED
  BY <1>2, InvHolds, PTL DEF Spec, BusClosedStaysSilent

\* Every receiver that is open is on the list, where gc(), a subscribe() and another
\* close() leave it.
OpenAreListed == \A u \in Subs : upc[u] = "on" /\ closedBy[u] = "open" => u \in subs

\* Who holds the lock can give it back: it pushes to a member that is left, or
\* unlocks, and no push waits for a receiver.
HolderGoesOn == lock # NoTask => lock \in Senders /\ spc[lock] = "pushing"

\* The close that has won the exchange, when it gets the lock, closes every receiver
\* that has joined by then.
CloseSweeps ==
  [][\A c \in Closers :
       cpc[c] = "exchanged" /\ cpc'[c] = "done" =>
         \A u \in Subs : upc[u] = "on" => closedBy'[u] # "open"]_vars

LEMMA OpenAreListedAlways == Spec => []OpenAreListed
<1>1. Init => OpenAreListed
  BY DEF Init, OpenAreListed
<1>2. TypeOK /\ OpenAreListed /\ [Next]_vars => OpenAreListed'
  <2>. SUFFICES ASSUME TypeOK, OpenAreListed, [Next]_vars PROVE OpenAreListed'
    OBVIOUS
  <2>. USE DEF TypeOK, OpenAreListed, subVars
  <2>1. ASSUME NEW s \in Senders, SendLock(s) PROVE OpenAreListed'
    BY <2>1 DEF SendLock, Open
  <2>2. ASSUME NEW u \in Subs, SubscribeJoin(u) PROVE OpenAreListed'
    BY <2>2 DEF SubscribeJoin
  <2>3. ASSUME NEW c \in Closers, CloseSubs(c) PROVE OpenAreListed'
    BY <2>3 DEF CloseSubs, ClosedChannels
  <2>4. ASSUME NEW u \in Subs, SubscribeCheck(u) \/ ReceiverClose(u)
        PROVE  OpenAreListed'
    BY <2>4 DEF SubscribeCheck, ReceiverClose
  <2>5. CASE UNCHANGED <<subs, closedBy, upc>>
    BY <2>5
  <2>6. ASSUME NEW s \in Senders,
               \/ \E f \in Frames : SendError(s, f) \/ SendCheck(s, f)
               \/ SendPush(s) \/ SendUnlock(s) \/ SendCount(s)
        PROVE  OpenAreListed'
    BY <2>5, <2>6 DEF SendError, SendCheck, SendPush, SendUnlock, SendCount
  <2>7. ASSUME NEW u \in Subs, Receive(u) PROVE OpenAreListed'
    BY <2>5, <2>7 DEF Receive
  <2>8. ASSUME NEW c \in Closers,
               \/ CloseCall(c) \/ CloseExchange(c)
               \/ DrainCall(c) \/ DrainExpire(c) \/ DrainScan(c)
        PROVE  OpenAreListed'
    BY <2>5, <2>8 DEF CloseCall, CloseExchange, DrainCall, DrainExpire, DrainScan
  <2>9. CASE UNCHANGED vars
    BY <2>5, <2>9 DEF vars
  <2>. QED
    BY <2>1, <2>2, <2>3, <2>4, <2>6, <2>7, <2>8, <2>9 DEF Next
<1>. QED
  BY <1>1, <1>2, VirtualBusTypeOK, PTL DEF Spec

\* What SendReturns, CloseReturns and CloseReachesMembers owe to safety, for every
\* number of senders, subscriptions and closers: the holder of the lock can always
\* go on, no open receiver is off the list, and the close that gets the lock leaves
\* none open that has joined.
THEOREM VirtualBusCloseSweeps == Spec => [](HolderGoesOn /\ OpenAreListed) /\ CloseSweeps
<1>1. IInv => HolderGoesOn
  BY VirtualBusAssumption DEF IInv, TypeOK, Broadcasting, HolderGoesOn
<1>2. ASSUME TypeOK, OpenAreListed, [Next]_vars, NEW c \in Closers,
             cpc[c] = "exchanged", cpc'[c] = "done",
             NEW u \in Subs, upc[u] = "on"
      PROVE  closedBy'[u] # "open"
  <2>1. CASE \E d \in Closers : CloseSubs(d)
    BY <1>2, <2>1 DEF TypeOK, OpenAreListed, CloseSubs, ClosedChannels
  <2>2. ASSUME NEW d \in Closers,
               \/ CloseCall(d) \/ CloseExchange(d)
               \/ DrainCall(d) \/ DrainExpire(d) \/ DrainScan(d)
        PROVE  FALSE
    BY <1>2, <2>2 DEF TypeOK, CloseCall, CloseExchange, DrainCall, DrainExpire,
                      DrainScan
  <2>3. ASSUME NEW s \in Senders,
               \/ \E f \in Frames : SendError(s, f) \/ SendCheck(s, f)
               \/ SendLock(s) \/ SendPush(s) \/ SendUnlock(s) \/ SendCount(s)
        PROVE  FALSE
    BY <1>2, <2>3 DEF SendError, SendCheck, SendLock, SendPush, SendUnlock,
                      SendCount, closerVars
  <2>4. ASSUME NEW v \in Subs,
               SubscribeCheck(v) \/ SubscribeJoin(v) \/ Receive(v) \/ ReceiverClose(v)
        PROVE  FALSE
    BY <1>2, <2>4 DEF SubscribeCheck, SubscribeJoin, Receive, ReceiverClose, closerVars
  <2>5. CASE UNCHANGED vars
    BY <1>2, <2>5 DEF vars, closerVars
  <2>. QED
    BY <1>2, <2>1, <2>2, <2>3, <2>4, <2>5 DEF Next
<1>3. TypeOK /\ OpenAreListed /\ [Next]_vars =>
        \A c \in Closers :
          cpc[c] = "exchanged" /\ cpc'[c] = "done" =>
            \A u \in Subs : upc[u] = "on" => closedBy'[u] # "open"
  BY <1>2
<1>4. Spec => [](HolderGoesOn /\ OpenAreListed)
  BY <1>1, InvHolds, OpenAreListedAlways, PTL
<1>5. Spec => CloseSweeps
  BY <1>3, VirtualBusTypeOK, OpenAreListedAlways, PTL DEF Spec, CloseSweeps
<1>. QED
  BY <1>4, <1>5

\* Subscribers see matching frames only, each once, and all in the one order of
\* the broadcasts: a send publishes its frame when it takes the lock, joining and
\* receiving are what they are in BroadcastBus, and nothing else is seen there.
THEOREM VirtualBusBroadcast == Spec => ImplementsBroadcast
<1>. DEFINE place == [u \in Subs |-> Place(u)]
<1>1. Init => Broadcast!Init
  BY DEF Init, Broadcast!Init, Broadcast!NotJoined, Place
<1>2. ASSUME IInv, [Next]_vars PROVE [Broadcast!Next]_Broadcast!vars
  <2>1. ASSUME NEW s \in Senders, SendLock(s) PROVE Broadcast!Publish(frame[s])
    <3>1. \A i \in 1..Len(log) : log[i] # frame[s]
      BY <1>2, <2>1 DEF IInv, NoFrameTwice, SendLock
    <3>2. log' = Append(log, frame[s])
      BY <2>1 DEF SendLock
    <3>3. \A u \in Subs : Place(u)' = Place(u)
      BY <1>2, <2>1, LogGrows
    <3>. QED
      BY <3>1, <3>2, <3>3 DEF Broadcast!Publish
  <2>2. ASSUME NEW s \in Senders, SendLock(s) PROVE frame[s] \in Frames
    BY <1>2, <2>2 DEF IInv, TypeOK, NoFrameTwice, SendLock
  <2>3. ASSUME NEW u \in Subs, SubscribeJoin(u) PROVE Broadcast!Join(u)
    <3>1. UNCHANGED log /\ upc[u] # "on" /\ got[u] = <<>>
      BY <1>2, <2>3 DEF IInv, Outsiders, SubscribeJoin, histVars
    <3>2. Place(u) = -1 /\ Place(u)' = Len(log)
      BY <1>2, <2>3, <3>1 DEF IInv, TypeOK, Place, SubscribeJoin, histVars
    <3>3. \A v \in Subs : v # u => Place(v)' = Place(v)
      BY <1>2, <2>3, <3>1
         DEF IInv, TypeOK, Place, Index, SubscribeJoin, histVars
    <3>. QED
      BY <3>1, <3>2, <3>3 DEF Broadcast!Join, Broadcast!NotJoined
  <2>4. ASSUME NEW u \in Subs, Receive(u) PROVE Broadcast!Read(u)
    <3>. DEFINE i == Index(queue[u][1])
    <3>1. /\ upc[u] = "on" /\ 1 \in 1..Len(queue[u])
          /\ Place(u)' = i
          /\ \A v \in Subs : v # u => Place(v)' = Place(v)
          /\ UNCHANGED log
      BY <1>2, <2>4, ReceiveFacts DEF Receive
    <3>2. Logged(queue[u][1]) /\ Matches(u, queue[u][1]) /\ Place(u) < i
      BY <1>2, <3>1 DEF IInv, InOrder, InOrderAt
    <3>3. Place(u) \in 0..Len(log) /\ log \in Seq(Frames)
      BY <1>2, <3>1, PlaceType, IndexFacts DEF IInv
    <3>4. i \in (Place(u) + 1)..Len(log) /\ log[i] = queue[u][1]
      BY <1>2, <3>2, <3>3, IndexFacts DEF IInv
    <3>. HIDE DEF i
    <3>5. place' = [place EXCEPT ![u] = i]
      BY <3>1
    <3>6. place[u] = Place(u) /\ place[u] # -1
      BY <3>3
    <3>. HIDE DEF place
    <3>. QED
      BY <3>1, <3>2, <3>4, <3>5, <3>6
        DEF Broadcast!Read, Broadcast!NotJoined, place
  <2>5. CASE \/ Quiet
             \/ \E s \in Senders : SendPush(s)
    <3>1. UNCHANGED log /\ \A u \in Subs : Place(u)' = Place(u)
      <4>1. CASE Quiet
        BY <4>1, QuietFacts DEF Quiet
      <4>2. CASE \E s \in Senders : SendPush(s)
        BY <4>2 DEF SendPush, Place, Index, subVars
      <4>. QED
        BY <2>5, <4>1, <4>2
    <3>. QED
      BY <3>1 DEF Broadcast!vars
  <2>. QED
    BY <1>2, <2>1, <2>2, <2>3, <2>4, <2>5, StepKinds DEF Broadcast!Next
<1>. QED
  BY <1>1, <1>2, InvHolds, PTL DEF Spec, ImplementsBroadcast, Broadcast!Spec

---------------------------------------------------------------------------
(* The counters of the sends.                                              *)

Checked == {s \in Senders : spc[s] = "checked"}

CountsInv ==
  /\ IsFiniteSet(used)
  /\ IsFiniteSet(Checked)
  /\ SendsCounted

\* Another state of a sender that is not "checked" before or after, the same log
\* and the same frames leave the counts.
LEMMA CountsStay ==
  ASSUME CountsInv, UNCHANGED <<log, used, writeCount, errorCount>>,
         \A s \in Senders : (spc'[s] = "checked") <=> (spc[s] = "checked")
  PROVE  CountsInv'
<1>1. Checked' = Checked
  BY DEF Checked
<1>. QED
  BY <1>1 DEF CountsInv, SendsCounted, Checked

LEMMA CountsPreserved ==
  ASSUME IInv, CountsInv, [Next]_vars
  PROVE  CountsInv'
<1>. USE DEF senderVars, subVars, closerVars, countVars, histVars
<1>0. /\ spc \in [Senders -> {"idle", "checked", "pushing", "counting"}]
      /\ log \in Seq(Frames) /\ writeCount \in Nat /\ errorCount \in Nat
      /\ Cardinality(Checked) \in Nat /\ Cardinality(used) \in Nat
      /\ IsFiniteSet(used) /\ IsFiniteSet(Checked)
      /\ writeCount = Len(log) + Cardinality(Checked)
      /\ writeCount + errorCount = Cardinality(used)
  <2>1. IsFiniteSet(used) /\ IsFiniteSet(Checked)
    BY DEF CountsInv
  <2>2. Cardinality(Checked) \in Nat /\ Cardinality(used) \in Nat
    BY <2>1, FS_CardinalityType
  <2>. QED
    BY <2>1, <2>2 DEF IInv, TypeOK, CountsInv, SendsCounted, Checked
<1>1. ASSUME NEW s \in Senders, NEW f \in Frames, SendError(s, f) PROVE CountsInv'
  <2>1. /\ f \notin used /\ used' = used \union {f} /\ errorCount' = errorCount + 1
        /\ UNCHANGED <<spc, log, writeCount>>
    BY <1>1 DEF SendError
  <2>2. Checked' = Checked
    BY <2>1 DEF Checked
  <2>3. IsFiniteSet(used') /\ Cardinality(used') = Cardinality(used) + 1
    BY <1>0, <2>1, FS_AddElement
  <2>. QED
    BY <1>0, <2>1, <2>2, <2>3 DEF CountsInv, SendsCounted, Checked
<1>2. ASSUME NEW s \in Senders, NEW f \in Frames, SendCheck(s, f) PROVE CountsInv'
  <2>1. /\ f \notin used /\ used' = used \union {f} /\ writeCount' = writeCount + 1
        /\ spc[s] = "idle" /\ spc' = [spc EXCEPT ![s] = "checked"]
        /\ UNCHANGED <<log, errorCount>>
    BY <1>2 DEF SendCheck
  <2>2. s \notin Checked /\ Checked' = Checked \union {s}
    BY <1>0, <2>1 DEF Checked
  <2>3. IsFiniteSet(used') /\ Cardinality(used') = Cardinality(used) + 1
    BY <1>0, <2>1, FS_AddElement
  <2>4. IsFiniteSet(Checked') /\ Cardinality(Checked') = Cardinality(Checked) + 1
    BY <1>0, <2>2, FS_AddElement
  <2>5. /\ writeCount' = Len(log') + Cardinality(Checked')
        /\ writeCount' + errorCount' = Cardinality(used')
    BY <1>0, <2>1, <2>3, <2>4
  <2>. QED
    BY <2>3, <2>4, <2>5 DEF CountsInv, SendsCounted, Checked
<1>3. ASSUME NEW s \in Senders, SendLock(s) PROVE CountsInv'
  <2>1. /\ spc[s] = "checked" /\ spc' = [spc EXCEPT ![s] = "pushing"]
        /\ log' = Append(log, frame[s])
        /\ UNCHANGED <<used, writeCount, errorCount>>
    BY <1>3 DEF SendLock
  <2>2. Len(log') = Len(log) + 1
    BY <1>3, LogGrows
  <2>3. s \in Checked /\ Checked' = Checked \ {s}
    BY <1>0, <2>1 DEF Checked
  <2>4. IsFiniteSet(Checked') /\ Cardinality(Checked') = Cardinality(Checked) - 1
    BY <1>0, <2>3, FS_RemoveElement
  <2>5. writeCount' = Len(log') + Cardinality(Checked')
    BY <1>0, <2>1, <2>2, <2>4
  <2>. QED
    BY <1>0, <2>1, <2>4, <2>5 DEF CountsInv, SendsCounted, Checked
<1>4. ASSUME NEW s \in Senders, SendPush(s) \/ SendUnlock(s) \/ SendCount(s)
      PROVE  CountsInv'
  BY <1>0, <1>4, CountsStay DEF SendPush, SendUnlock, SendCount
<1>5. ASSUME NEW u \in Subs,
             SubscribeCheck(u) \/ SubscribeJoin(u) \/ Receive(u) \/ ReceiverClose(u)
      PROVE  CountsInv'
  BY <1>5, CountsStay DEF SubscribeCheck, SubscribeJoin, Receive, ReceiverClose
<1>6. ASSUME NEW c \in Closers, CloseCall(c) \/ CloseExchange(c) \/ CloseSubs(c)
      PROVE  CountsInv'
  BY <1>6, CountsStay DEF CloseCall, CloseExchange, CloseSubs
<1>7. ASSUME NEW c \in Closers, DrainCall(c) \/ DrainExpire(c) \/ DrainScan(c)
      PROVE  CountsInv'
  BY <1>7, CountsStay DEF DrainCall, DrainExpire, DrainScan
<1>8. CASE UNCHANGED vars
  BY <1>8, CountsStay DEF vars
<1>. QED
  BY <1>1, <1>2, <1>3, <1>4, <1>5, <1>6, <1>7, <1>8 DEF Next

---------------------------------------------------------------------------
(* The counters of the deliveries.                                         *)

OneUp(n, m, x) == m = [n EXCEPT ![x] = n[x] + 1]

\* An element more where one count grows by one.
LEMMA UnitsGrow ==
  ASSUME NEW S, NEW n \in [S -> Nat], NEW x \in S, NEW m, OneUp(n, m, x),
         IsFiniteSet(Units(S, n))
  PROVE  /\ IsFiniteSet(Units(S, m))
         /\ Cardinality(Units(S, m)) = Cardinality(Units(S, n)) + 1
<1>. DEFINE new == <<x, n[x] + 1>>
<1>1. \A y \in S : y # x => m[y] = n[y]
  BY DEF OneUp
<1>2. m[x] = n[x] + 1 /\ n[x] \in Nat
  BY DEF OneUp
<1>3. 1..(n[x] + 1) = (1..n[x]) \union {n[x] + 1} /\ n[x] + 1 \notin 1..n[x]
  BY <1>2
<1>4. Units(S, m) = Units(S, n) \union {new}
  <2>1. {x} \X (1..m[x]) = ({x} \X (1..n[x])) \union {new}
    BY <1>2, <1>3
  <2>2. \A y \in S : {y} \X (1..m[y]) = IF y = x THEN ({x} \X (1..n[x])) \union {new}
                                        ELSE {y} \X (1..n[y])
    BY <1>1, <2>1
  <2>. QED
    BY <2>2 DEF Units
<1>5. new \notin Units(S, n)
  <2>1. \A y \in S : new \notin {y} \X (1..n[y])
    BY <1>3
  <2>. QED
    BY <2>1 DEF Units
<1>. HIDE DEF new
<1>6. IsFiniteSet(Units(S, n) \union {new})
      /\ Cardinality(Units(S, n) \union {new}) = Cardinality(Units(S, n)) + 1
  BY <1>5, FS_AddElement
<1>. QED
  BY <1>4, <1>6

\* A count that falls to zero takes its elements with it.
LEMMA UnitsDrop ==
  ASSUME NEW S, NEW n \in [S -> Nat], NEW x \in S, NEW m,
         m = [n EXCEPT ![x] = 0], IsFiniteSet(Units(S, n))
  PROVE  /\ IsFiniteSet(Units(S, m))
         /\ Cardinality(Units(S, n)) = Cardinality(Units(S, m)) + n[x]
<1>. DEFINE own == {x} \X (1..n[x])
<1>1. n[x] \in Nat /\ m[x] = 0 /\ \A y \in S : y # x => m[y] = n[y]
  OBVIOUS
<1>2. IsFiniteSet(own) /\ Cardinality(own) = n[x]
  <2>1. IsFiniteSet({x}) /\ Cardinality({x}) = 1
    BY FS_Singleton
  <2>2. IsFiniteSet(1..n[x]) /\ Cardinality(1..n[x]) = n[x]
    <3>1. /\ IsFiniteSet(1..n[x])
          /\ Cardinality(1..n[x]) = IF 1 > n[x] THEN 0 ELSE n[x] - 1 + 1
      BY <1>1, FS_Interval
    <3>. QED
      BY <1>1, <3>1
  <2>3. IsFiniteSet(own) /\ Cardinality(own) = Cardinality({x}) * Cardinality(1..n[x])
    BY <2>1, <2>2, FS_Product
  <2>. QED
    BY <1>1, <2>1, <2>2, <2>3
<1>3. Units(S, n) = Units(S, m) \union own
  <2>1. \A y \in S : {y} \X (1..n[y]) = IF y = x THEN own ELSE {y} \X (1..m[y])
    BY <1>1
  <2>2. {x} \X (1..m[x]) = {}
    BY <1>1
  <2>. HIDE DEF own
  <2>. QED
    BY <2>1, <2>2 DEF Units
<1>4. Units(S, m) \cap own = {}
  <2>1. \A y \in S : ({y} \X (1..m[y])) \cap own = {}
    BY <1>1
  <2>. HIDE DEF own
  <2>. QED
    BY <2>1 DEF Units
<1>. HIDE DEF own
<1>5. IsFiniteSet(Units(S, m))
  <2>1. Units(S, m) \in SUBSET Units(S, n)
    BY <1>3
  <2>. QED
    BY <2>1, FS_Subset
<1>6. Cardinality(Units(S, n))
        = Cardinality(Units(S, m)) + Cardinality(own) - Cardinality(Units(S, m) \cap own)
  BY <1>2, <1>3, <1>5, FS_Union
<1>7. Cardinality(Units(S, m) \cap own) = 0
  BY <1>4, FS_EmptySet
<1>8. Cardinality(Units(S, m)) \in Nat
  BY <1>5, FS_CardinalityType
<1>. QED
  BY <1>1, <1>2, <1>5, <1>6, <1>7, <1>8

\* No counts, no elements.
LEMMA NoUnits ==
  ASSUME NEW S, NEW n, \A x \in S : n[x] = 0
  PROVE  IsFiniteSet(Units(S, n)) /\ Cardinality(Units(S, n)) = 0
<1>1. Units(S, n) = {}
  <2>1. \A x \in S : {x} \X (1..n[x]) = {}
    OBVIOUS
  <2>. QED
    BY <2>1 DEF Units
<1>. QED
  BY <1>1, FS_EmptySet

DeliveriesInv ==
  /\ IsFiniteSet(Units(Subs, Held))
  /\ IsFiniteSet(Units(Senders, delivered))
  /\ DeliveriesCounted

LEMMA HeldType ==
  ASSUME TypeOK
  PROVE  Held \in [Subs -> Nat]
BY DEF TypeOK, Held

LEMMA OneMore ==
  ASSUME NEW h \in Nat, NEW e \in Nat, NEW d \in Nat, NEW p \in Nat, h + e = d + p
  PROVE  (h + 1) + e = d + (p + 1) /\ h + (e + 1) = d + (p + 1)
OBVIOUS

\* What moves no frame and counts no push leaves the balance.
LEMMA DeliveriesStay ==
  ASSUME DeliveriesInv, Held' = Held,
         UNCHANGED <<delivered, deliverCount, evicted>>
  PROVE  DeliveriesInv'
BY DEF DeliveriesInv, DeliveriesCounted

\* A push that was accepted left one frame more, in the queue or in place of the
\* one that it evicted.
LEMMA PushBalances ==
  ASSUME IInv, DeliveriesInv, NEW s \in Senders, SendPush(s)
  PROVE  DeliveriesInv'
<1>1. PICK u \in rest[s] : PushTo(s, u, frame[s])
  BY DEF SendPush
<1>2. /\ u \in Subs /\ frame[s] \in Frames /\ UNCHANGED <<got, deliverCount>>
      /\ queue \in [Subs -> Seq(Frames)] /\ got \in [Subs -> Seq(Frames)]
      /\ delivered \in [Senders -> Nat] /\ evicted \in Nat /\ deliverCount \in Nat
      /\ Policy[u] \in Policies /\ Depth[u] \in Nat \ {0}
      /\ Held \in [Subs -> Nat]
  BY VirtualBusAssumption, PushFacts, HeldType DEF IInv, TypeOK, SendPush, countVars
<1>3. CASE UNCHANGED <<queue, evicted, delivered>>
  BY <1>2, <1>3, DeliveriesStay DEF Held
<1>4. CASE /\ queue' = [queue EXCEPT
                          ![u] = Enqueue(Policy[u], @, Depth[u], frame[s])]
           /\ evicted' = evicted + (Len(queue[u]) + 1 - Len(queue'[u]))
           /\ Accepted(s)
  <2>. DEFINE e == Enqueue(Policy[u], queue[u], Depth[u], frame[s])
  <2>1. /\ queue' = [queue EXCEPT ![u] = e]
        /\ evicted' = evicted + (Len(queue[u]) + 1 - Len(queue'[u]))
    BY <1>4
  <2>2. e \in Seq(Frames) /\ (Len(e) = Len(queue[u]) \/ Len(e) = Len(queue[u]) + 1)
    BY <1>2, EnqueueFacts, SMTT(30)
  <2>. HIDE DEF e
  <2>3. queue'[u] = e /\ \A v \in Subs : v # u => queue'[v] = queue[v]
    BY <1>2, <2>1
  <2>4. /\ Len(queue[u]) \in Nat /\ Len(got[u]) \in Nat /\ got'[u] = got[u]
        /\ \A v \in Subs : Held[v] = Len(got[v]) + Len(queue[v])
        /\ Held' = [v \in Subs |-> Len(got[v]) + Len(queue'[v])]
    BY <1>2 DEF Held
  <2>5. delivered' = [delivered EXCEPT ![s] = delivered[s] + 1]
    BY <1>4 DEF Accepted
  <2>6. delivered \in [Senders -> Nat] /\ IsFiniteSet(Units(Senders, delivered))
    BY <1>2 DEF DeliveriesInv
  <2>7. /\ IsFiniteSet(Units(Senders, delivered'))
        /\ Cardinality(Units(Senders, delivered'))
             = Cardinality(Units(Senders, delivered)) + 1
    <3>1. OneUp(delivered, delivered', s)
      BY <2>5 DEF OneUp
    <3>. QED
      BY <2>6, <3>1, UnitsGrow
  <2>8. /\ IsFiniteSet(Units(Subs, Held)) /\ IsFiniteSet(Units(Senders, delivered))
        /\ Cardinality(Units(Subs, Held)) \in Nat
        /\ Cardinality(Units(Senders, delivered)) \in Nat
        /\ Cardinality(Units(Subs, Held)) + evicted
             = deliverCount + Cardinality(Units(Senders, delivered))
    BY FS_CardinalityType DEF DeliveriesInv, DeliveriesCounted
  <2>9. PICK h \in Nat, p \in Nat : /\ h = Cardinality(Units(Subs, Held))
                                   /\ p = Cardinality(Units(Senders, delivered))
    BY <2>8
  <2>10. h + evicted = deliverCount + p /\ deliverCount' = deliverCount
        /\ Cardinality(Units(Senders, delivered')) = p + 1
    BY <1>2, <2>7, <2>8, <2>9
  <2>11. (h + 1) + evicted = deliverCount + (p + 1)
        /\ h + (evicted + 1) = deliverCount + (p + 1)
    BY <1>2, <2>10, OneMore
  <2>12. CASE Len(e) = Len(queue[u])
    <3>1. Held' = Held
      BY <1>2, <2>3, <2>12 DEF Held
    <3>2. evicted' = evicted + 1
      <4>1. PICK n \in Nat : n = Len(queue[u])
        BY <2>4
      <4>2. evicted' = evicted + (n + 1 - n)
        BY <2>1, <2>3, <2>12, <4>1
      <4>3. n + 1 - n = 1
        OBVIOUS
      <4>. QED
        BY <4>2, <4>3
    <3>3. Cardinality(Units(Subs, Held')) + evicted'
            = deliverCount' + Cardinality(Units(Senders, delivered'))
      BY <2>9, <2>10, <2>11, <3>1, <3>2
    <3>. QED
      BY <2>7, <2>8, <3>1, <3>3 DEF DeliveriesInv, DeliveriesCounted
  <2>13. CASE Len(e) = Len(queue[u]) + 1
    <3>1. Len(got[u]) + Len(queue'[u]) = Held[u] + 1
      <4>1. PICK l \in Nat, n \in Nat : l = Len(got[u]) /\ n = Len(queue[u])
        BY <2>4
      <4>2. Held[u] = l + n /\ Len(queue'[u]) = n + 1
        BY <1>2, <2>3, <2>4, <2>13, <4>1
      <4>3. l + (n + 1) = (l + n) + 1
        OBVIOUS
      <4>. QED
        BY <4>1, <4>2, <4>3
    <3>2. OneUp(Held, Held', u)
      BY <1>2, <2>3, <2>4, <3>1 DEF OneUp
    <3>3. /\ IsFiniteSet(Units(Subs, Held'))
          /\ Cardinality(Units(Subs, Held')) = Cardinality(Units(Subs, Held)) + 1
      BY <1>2, <2>8, <3>2, UnitsGrow
    <3>4. evicted' = evicted
      <4>1. PICK n \in Nat : n = Len(queue[u])
        BY <2>4
      <4>2. evicted' = evicted + (n + 1 - (n + 1))
        BY <2>1, <2>3, <2>13, <4>1
      <4>. QED
        BY <1>2, <4>1, <4>2
    <3>5. Cardinality(Units(Subs, Held')) + evicted'
            = deliverCount' + Cardinality(Units(Senders, delivered'))
      BY <2>9, <2>10, <2>11, <3>3, <3>4
    <3>. QED
      BY <2>7, <3>3, <3>5 DEF DeliveriesInv, DeliveriesCounted
  <2>. QED
    BY <2>2, <2>12, <2>13
<1>. QED
  BY <1>1, <1>3, <1>4 DEF PushTo, Refused

\* The locals go into the counters, and nothing else changes.
LEMMA CountBalances ==
  ASSUME IInv, DeliveriesInv, NEW s \in Senders, SendCount(s)
  PROVE  DeliveriesInv'
<1>1. /\ deliverCount' = deliverCount + delivered[s]
      /\ delivered' = [delivered EXCEPT ![s] = 0]
      /\ UNCHANGED <<queue, got, evicted>>
  BY DEF SendCount, histVars
<1>2. /\ delivered \in [Senders -> Nat] /\ evicted \in Nat /\ deliverCount \in Nat
  BY DEF IInv, TypeOK
<1>3. /\ IsFiniteSet(Units(Senders, delivered'))
      /\ Cardinality(Units(Senders, delivered))
           = Cardinality(Units(Senders, delivered')) + delivered[s]
  BY <1>1, <1>2, UnitsDrop DEF DeliveriesInv
<1>4. Held' = Held
  BY <1>1 DEF Held
<1>5. /\ IsFiniteSet(Units(Subs, Held))
      /\ Cardinality(Units(Subs, Held)) \in Nat
      /\ Cardinality(Units(Senders, delivered')) \in Nat
      /\ Cardinality(Units(Subs, Held)) + evicted
           = deliverCount + Cardinality(Units(Senders, delivered))
  BY <1>3, FS_CardinalityType DEF DeliveriesInv, DeliveriesCounted
<1>6. Cardinality(Units(Subs, Held)) + evicted'
        = deliverCount' + Cardinality(Units(Senders, delivered'))
  BY <1>1, <1>2, <1>3, <1>5
<1>. QED
  BY <1>3, <1>4, <1>5, <1>6 DEF DeliveriesInv, DeliveriesCounted

\* A frame received leaves the queue for the receiver.
LEMMA ReceiveBalances ==
  ASSUME IInv, DeliveriesInv, NEW u \in Subs, Receive(u)
  PROVE  DeliveriesInv'
<1>1. /\ queue[u] # <<>> /\ UNCHANGED <<delivered, deliverCount, evicted>>
      /\ got' = [got EXCEPT ![u] = Append(@, Head(queue[u]))]
      /\ queue' = [queue EXCEPT ![u] = Tail(@)]
  BY DEF Receive, senderVars, countVars
<1>2. queue \in [Subs -> Seq(Frames)] /\ got \in [Subs -> Seq(Frames)]
  BY DEF IInv, TypeOK
<1>3. ASSUME NEW v \in Subs
      PROVE  Len(got'[v]) + Len(queue'[v]) = Len(got[v]) + Len(queue[v])
  <2>1. CASE v = u
    <3>1. got'[v] = Append(got[u], Head(queue[u])) /\ queue'[v] = Tail(queue[u])
      BY <1>1, <1>2, <2>1
    <3>2. /\ Len(Tail(queue[u])) = Len(queue[u]) - 1
          /\ Len(Append(got[u], Head(queue[u]))) = Len(got[u]) + 1
          /\ Len(queue[u]) \in Nat /\ Len(got[u]) \in Nat
      BY <1>1, <1>2
    <3>3. PICK k \in Nat, l \in Nat : k = Len(queue[u]) /\ l = Len(got[u])
      BY <3>2
    <3>4. /\ Len(got'[v]) = l + 1 /\ Len(queue'[v]) = k - 1
          /\ Len(got[v]) = l /\ Len(queue[v]) = k
      BY <2>1, <3>1, <3>2, <3>3
    <3>5. (l + 1) + (k - 1) = l + k
      OBVIOUS
    <3>. QED
      BY <3>4, <3>5
  <2>2. CASE v # u
    BY <1>1, <1>2, <2>2
  <2>. QED
    BY <2>1, <2>2
<1>4. Held' = Held
  BY <1>3 DEF Held
<1>. QED
  BY <1>1, <1>4, DeliveriesStay

LEMMA DeliveriesPreserved ==
  ASSUME IInv, DeliveriesInv, [Next]_vars
  PROVE  DeliveriesInv'
<1>. USE DEF senderVars, subVars, closerVars, countVars, histVars
<1>1. ASSUME NEW s \in Senders, NEW f \in Frames, SendError(s, f) \/ SendCheck(s, f)
      PROVE  DeliveriesInv'
  BY <1>1, DeliveriesStay DEF SendError, SendCheck, Held
<1>2. ASSUME NEW s \in Senders, SendLock(s) \/ SendUnlock(s)
      PROVE  DeliveriesInv'
  BY <1>2, DeliveriesStay DEF SendLock, SendUnlock, Held
<1>3. ASSUME NEW s \in Senders, SendPush(s) \/ SendCount(s)
      PROVE  DeliveriesInv'
  BY <1>3, PushBalances, CountBalances
<1>4. ASSUME NEW u \in Subs, SubscribeCheck(u) \/ SubscribeJoin(u) \/ ReceiverClose(u)
      PROVE  DeliveriesInv'
  BY <1>4, DeliveriesStay DEF SubscribeCheck, SubscribeJoin, ReceiverClose, Held
<1>5. ASSUME NEW u \in Subs, Receive(u)
      PROVE  DeliveriesInv'
  BY <1>5, ReceiveBalances
<1>6. ASSUME NEW c \in Closers, CloseCall(c) \/ CloseExchange(c) \/ CloseSubs(c)
      PROVE  DeliveriesInv'
  BY <1>6, DeliveriesStay DEF CloseCall, CloseExchange, CloseSubs, Held
<1>7. ASSUME NEW c \in Closers, DrainCall(c) \/ DrainExpire(c) \/ DrainScan(c)
      PROVE  DeliveriesInv'
  BY <1>7, DeliveriesStay DEF DrainCall, DrainExpire, DrainScan, Held
<1>8. CASE UNCHANGED vars
  BY <1>8, DeliveriesStay DEF vars, Held
<1>. QED
  BY <1>1, <1>2, <1>3, <1>4, <1>5, <1>6, <1>7, <1>8 DEF Next

\* metrics() balances, whatever sends overlap: each is one of writeCount and
\* errorCount, each written frame is broadcast once, and each accepted push is
\* counted once and its frame was received, is queued or was evicted.
THEOREM VirtualBusMetrics == Spec => []MetricsBalance
<1>1. Init => CountsInv
  <2>. SUFFICES ASSUME Init PROVE CountsInv
    OBVIOUS
  <2>1. used = {} /\ Checked = {} /\ Len(log) = 0 /\ writeCount = 0 /\ errorCount = 0
    BY DEF Init, Checked
  <2>2. IsFiniteSet({}) /\ Cardinality({}) = 0
    BY FS_EmptySet
  <2>3. IsFiniteSet(used) /\ IsFiniteSet(Checked)
    BY <2>1, <2>2
  <2>4. Cardinality(used) = 0 /\ Cardinality(Checked) = 0
    BY <2>1, <2>2
  <2>5. writeCount = Len(log) + Cardinality(Checked)
    BY <2>1, <2>4
  <2>6. writeCount + errorCount = Cardinality(used)
    BY <2>1, <2>4
  <2>. QED
    BY <2>3, <2>5, <2>6 DEF CountsInv, SendsCounted, Checked
<1>2. Init => DeliveriesInv
  <2>. SUFFICES ASSUME Init PROVE DeliveriesInv
    OBVIOUS
  <2>1. /\ \A s \in Senders : delivered[s] = 0
        /\ \A u \in Subs : got[u] = <<>> /\ queue[u] = <<>>
        /\ evicted = 0 /\ deliverCount = 0
    BY DEF Init
  <2>2. \A u \in Subs : Held[u] = 0
    <3>1. \A u \in Subs : Len(got[u]) = 0 /\ Len(queue[u]) = 0
      BY <2>1
    <3>2. \A u \in Subs : Held[u] = Len(got[u]) + Len(queue[u])
      BY DEF Held
    <3>3. \A u \in Subs : Held[u] = 0 + 0
      BY <3>1, <3>2
    <3>. QED
      BY <3>3
  <2>3. IsFiniteSet(Units(Subs, Held)) /\ Cardinality(Units(Subs, Held)) = 0
    BY <2>2, NoUnits
  <2>4. /\ IsFiniteSet(Units(Senders, delivered))
        /\ Cardinality(Units(Senders, delivered)) = 0
    BY <2>1, NoUnits
  <2>. QED
    BY <2>1, <2>3, <2>4 DEF DeliveriesInv, DeliveriesCounted
<1>3. IInv /\ CountsInv /\ [Next]_vars => CountsInv'
  BY CountsPreserved
<1>4. IInv /\ DeliveriesInv /\ [Next]_vars => DeliveriesInv'
  BY DeliveriesPreserved
<1>5. CountsInv /\ DeliveriesInv => MetricsBalance
  BY DEF CountsInv, DeliveriesInv, MetricsBalance
<1>. QED
  BY <1>1, <1>2, <1>3, <1>4, <1>5, InvHolds, PTL DEF Spec
=============================================================================
