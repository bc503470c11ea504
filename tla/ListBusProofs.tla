---------------------------- MODULE ListBusProofs ----------------------------
(***************************************************************************)
(* The safety of the two buses of ListBus, their implementation of         *)
(* BroadcastBus included, for every number of injectors, subscriptions and *)
(* closers, every depth and policy, and however many frames arrive.        *)
(***************************************************************************)
EXTENDS ListBus, PushRulesProofs, TLAPS

---------------------------------------------------------------------------
(* The inductive invariant.                                                *)

\* Who pushes holds the lock, so one delivery at most is under way, and its frame
\* is the latest of all.
Delivering ==
  \A t \in Feeders :
    /\ (fpc[t] = "push") <=> (lock = t)
    /\ fpc[t] = "push" => log # <<>> /\ frame[t] = log[Len(log)]

\* The list, and what is left of it for a delivery, names a subscription that has
\* joined, and names it once.
EachOnce(q) == \A i, j \in 1..Len(q) : q[i] = q[j] => i = j

AllJoined(q) == \A i \in 1..Len(q) : upc[q[i]] = "on"

Listed ==
  /\ EachOnce(subs) /\ AllJoined(subs)
  /\ \A t \in Feeders : EachOnce(rest[t]) /\ AllJoined(rest[t])

\* A subscription that has not joined has seen nothing.
Outsiders ==
  \A u \in Subs :
    /\ upc[u] # "on" => queue[u] = <<>> /\ last[u] = NoFrame
    /\ joinedAt[u] <= Len(log)

\* The feeder holds a frame that is not published yet.
Holds(t) == fpc[t] \in {"clear", "lock"} /\ frame[t] \in Frames

\* A frame that has arrived waits in the socket or with one feeder, or is logged.
NoFrameTwice ==
  /\ EachOnce(log)
  /\ \A i \in 1..Len(log) : log[i] <= arrived
  /\ \A t \in Feeders : fpc[t] = "lock" => frame[t] \in Frames
  /\ \A t \in Feeders : Holds(t) =>
       /\ frame[t] <= arrived
       /\ \A i \in 1..Len(log) : log[i] # frame[t]
       /\ \A s \in Feeders : Holds(s) /\ frame[s] = frame[t] => s = t

SocketIsNew ==
  \A k \in 1..Len(socket) : socket[k] \in Frames =>
    /\ socket[k] <= arrived
    /\ \A i \in 1..Len(log) : log[i] # socket[k]
    /\ \A t \in Feeders : Holds(t) => frame[t] # socket[k]
    /\ \A i \in 1..Len(socket) : socket[i] = socket[k] => i = k

Index(f) == CHOOSE i \in 1..Len(log) : log[i] = f

Logged(f) == \E i \in 1..Len(log) : log[i] = f

\* What a subscriber has queued came after what it received last, and stands in
\* the order of the broadcasts.
InOrderAt(u) ==
  /\ last[u] # NoFrame => Logged(last[u])
  /\ \A k \in 1..Len(queue[u]) :
       /\ Logged(queue[u][k])
       /\ Place(u) < Index(queue[u][k])
  /\ \A k, l \in 1..Len(queue[u]) :
       k < l => Index(queue[u][k]) < Index(queue[u][l])

InOrder == \A u \in Subs : InOrderAt(u)

\* Whom the delivery under way has not reached, has only older frames.
BehindLog(u) ==
  /\ Place(u) < Len(log)
  /\ \A k \in 1..Len(queue[u]) : Index(queue[u][k]) < Len(log)

NotYetReached ==
  \A t \in Feeders : fpc[t] = "push" =>
    \A i \in 1..Len(rest[t]) : BehindLog(rest[t][i])

IInv ==
  /\ TypeOK
  /\ Delivering
  /\ Listed
  /\ Outsiders
  /\ NoFrameTwice /\ SocketIsNew
  /\ InOrder
  /\ NotYetReached

---------------------------------------------------------------------------
(* What one push does.                                                     *)

\* Of the frames of u the first d are gone, and at the end f may have joined.
Shifted(u, d) ==
  \A k \in 1..Len(queue'[u]) :
    k + d \in 1..Len(queue[u]) /\ queue'[u][k] = queue[u][k + d]

ShiftedBehind(u, d, f) ==
  \A k \in 1..Len(queue'[u]) :
    \/ k + d \in 1..Len(queue[u]) /\ queue'[u][k] = queue[u][k + d]
    \/ k = Len(queue'[u]) /\ queue'[u][k] = f

\* What push() returns keeps the depth of a queue that drops.
LEMMA QueueAfterFacts ==
  ASSUME TypeOK, NEW u \in Subs, NEW f \in Frames
  PROVE  /\ QueueAfter(u, f) \in Seq(Frames)
         /\ Policy[u] # "Block" => Len(QueueAfter(u, f)) <= Depth[u]
         /\ \E d \in {0, 1} :
              \A k \in 1..Len(QueueAfter(u, f)) :
                \/ /\ k + d \in 1..Len(queue[u])
                   /\ QueueAfter(u, f)[k] = queue[u][k + d]
                \/ k = Len(QueueAfter(u, f)) /\ QueueAfter(u, f)[k] = f
<1>. DEFINE q == queue[u]  a == QueueAfter(u, f)
<1>1. /\ q \in Seq(Frames) /\ Policy[u] \in Policies /\ Depth[u] \in Nat \ {0}
      /\ Policy[u] # "Block" => Len(q) <= Depth[u]
  BY ListBusAssumption DEF TypeOK
<1>2. CASE ~Accepts(Policy[u], q, Depth[u])
  <2>1. a = q
    BY <1>2 DEF QueueAfter
  <2>. HIDE DEF a
  <2>2. \A k \in 1..Len(a) : k + 0 \in 1..Len(q) /\ a[k] = q[k + 0]
    BY <1>1, <2>1
  <2>. QED
    BY <1>1, <2>1, <2>2 DEF a
<1>3. CASE Accepts(Policy[u], q, Depth[u])
  <2>1. a = Enqueue(Policy[u], q, Depth[u], f)
    BY <1>3 DEF QueueAfter
  <2>. HIDE DEF a, q
  <2>2. /\ a \in Seq(Frames)
        /\ \/ /\ Policy[u] = "DropOldest"
              /\ Len(q) >= Depth[u]
              /\ Len(a) = Len(q)
              /\ \A k \in 1..(Len(q) - 1) : a[k] = q[k + 1]
           \/ /\ Policy[u] = "DropOldest" => Len(q) < Depth[u]
              /\ Len(a) = Len(q) + 1
              /\ \A k \in 1..Len(q) : a[k] = q[k]
        /\ Len(a) > 0
        /\ a[Len(a)] = f
    BY <1>1, <2>1, EnqueueFacts, SMTT(30)
  <2>3. Policy[u] # "Block" => Len(a) <= Depth[u]
    <3>1. Policy[u] = "DropNewest" => ~(Len(q) >= Depth[u])
      BY <1>3 DEF Accepts, IsFull, q
    <3>. QED
      BY <1>1, <2>2, <3>1 DEF Policies
  <2>4. \E d \in {0, 1} : \A k \in 1..Len(a) :
          \/ k + d \in 1..Len(q) /\ a[k] = q[k + d]
          \/ k = Len(a) /\ a[k] = f
    <3>1. CASE /\ Len(a) = Len(q)
               /\ \A k \in 1..(Len(q) - 1) : a[k] = q[k + 1]
      <4>1. \A k \in 1..Len(a) :
              \/ k + 1 \in 1..Len(q) /\ a[k] = q[k + 1]
              \/ k = Len(a) /\ a[k] = f
        BY <1>1, <2>2, <3>1
      <4>. QED
        BY <4>1
    <3>2. CASE /\ Len(a) = Len(q) + 1
               /\ \A k \in 1..Len(q) : a[k] = q[k]
      <4>1. \A k \in 1..Len(a) :
              \/ k + 0 \in 1..Len(q) /\ a[k] = q[k + 0]
              \/ k = Len(a) /\ a[k] = f
        BY <1>1, <2>2, <3>2
      <4>. QED
        BY <4>1
    <3>. QED
      BY <2>2, <3>1, <3>2
  <2>. QED
    BY <2>2, <2>3, <2>4 DEF a, q
<1>. QED
  BY <1>2, <1>3

\* A push takes the next subscription off what is left, and touches its queue only.
LEMMA PushFacts ==
  ASSUME TypeOK, Delivering, NEW t \in Feeders, DeliverPush(t)
  PROVE  /\ frame[t] \in Frames
         /\ queue' \in [Subs -> Seq(Frames)]
         /\ \A u \in Subs : Policy[u] # "Block" => Len(queue'[u]) <= Depth[u]
         /\ rest[t] \in Seq(Subs) /\ rest[t] # <<>>
         /\ rest[t][1] \in Subs
         /\ rest'[t] \in Seq(Subs)
         /\ Len(rest[t]) = Len(rest'[t]) + 1
         /\ \A i \in 1..Len(rest'[t]) : rest'[t][i] = rest[t][i + 1]
         /\ \A s \in Feeders : s # t => rest'[s] = rest[s]
         /\ rest' \in [Feeders -> Seq(Subs)]
         /\ \A u \in Subs : u # rest[t][1] => queue'[u] = queue[u]
         /\ \E d \in {0, 1} : ShiftedBehind(rest[t][1], d, frame[t])
<1>1. frame[t] \in Frames
  <2>1. log \in Seq(Frames) /\ fpc[t] = "push"
    BY DEF TypeOK, DeliverPush
  <2>2. log # <<>> /\ frame[t] = log[Len(log)]
    BY <2>1 DEF Delivering
  <2>. QED
    BY <2>1, <2>2
<1>. DEFINE u == rest[t][1]
<1>2. /\ rest[t] \in Seq(Subs) /\ rest[t] # <<>>
      /\ rest' = [rest EXCEPT ![t] = Tail(rest[t])]
      /\ rest \in [Feeders -> Seq(Subs)]
      /\ queue \in [Subs -> Seq(Frames)]
  BY DEF TypeOK, DeliverPush
<1>3. /\ u \in Subs /\ Head(rest[t]) = u
      /\ Tail(rest[t]) \in Seq(Subs)
      /\ Len(rest[t]) = Len(Tail(rest[t])) + 1
      /\ \A i \in 1..Len(Tail(rest[t])) : Tail(rest[t])[i] = rest[t][i + 1]
  BY <1>2, TailFacts
<1>4. /\ rest'[t] = Tail(rest[t])
      /\ \A s \in Feeders : s # t => rest'[s] = rest[s]
      /\ rest' \in [Feeders -> Seq(Subs)]
  BY <1>2, <1>3
<1>5. queue' = IF subOpen[u] THEN [queue EXCEPT ![u] = QueueAfter(u, frame[t])]
               ELSE queue
  BY <1>3 DEF DeliverPush
<1>. HIDE DEF u
<1>6. /\ queue' \in [Subs -> Seq(Frames)]
      /\ \A v \in Subs : v # u => queue'[v] = queue[v]
      /\ Policy[u] # "Block" => Len(queue'[u]) <= Depth[u]
      /\ \E d \in {0, 1} : ShiftedBehind(u, d, frame[t])
  <2>1. CASE subOpen[u]
    <3>1. queue' = [queue EXCEPT ![u] = QueueAfter(u, frame[t])]
      BY <1>5, <2>1
    <3>2. QueueAfter(u, frame[t]) \in Seq(Frames)
      BY <1>1, <1>3, QueueAfterFacts
    <3>3. /\ queue' \in [Subs -> Seq(Frames)]
          /\ \A v \in Subs : v # u => queue'[v] = queue[v]
          /\ queue'[u] = QueueAfter(u, frame[t])
      BY <1>2, <1>3, <3>1, <3>2
    <3>4. Policy[u] # "Block" => Len(queue'[u]) <= Depth[u]
      BY <1>1, <1>3, <3>3, QueueAfterFacts
    <3>5. \E d \in {0, 1} : ShiftedBehind(u, d, frame[t])
      <4>. DEFINE a == QueueAfter(u, frame[t])
      <4>1. PICK d \in {0, 1} :
              \A k \in 1..Len(a) :
                \/ k + d \in 1..Len(queue[u]) /\ a[k] = queue[u][k + d]
                \/ k = Len(a) /\ a[k] = frame[t]
        BY <1>1, <1>3, QueueAfterFacts
      <4>2. queue'[u] = a
        BY <3>3
      <4>. HIDE DEF a
      <4>3. ShiftedBehind(u, d, frame[t])
        BY <4>1, <4>2 DEF ShiftedBehind
      <4>. QED
        BY <4>3
    <3>. QED
      BY <3>3, <3>4, <3>5
  <2>2. CASE ~subOpen[u]
    <3>1. queue' = queue
      BY <1>5, <2>2
    <3>2. queue[u] \in Seq(Frames)
      BY <1>2, <1>3
    <3>3. ShiftedBehind(u, 0, frame[t])
      BY <3>1, <3>2 DEF ShiftedBehind
    <3>4. Policy[u] # "Block" => Len(queue[u]) <= Depth[u]
      BY <1>3 DEF TypeOK
    <3>. QED
      BY <1>2, <3>1, <3>3, <3>4
  <2>. QED
    BY <2>1, <2>2
<1>7. \A v \in Subs : Policy[v] # "Block" => Len(queue'[v]) <= Depth[v]
  <2>1. \A v \in Subs : Policy[v] # "Block" => Len(queue[v]) <= Depth[v]
    BY DEF TypeOK
  <2>. QED
    BY <1>6, <2>1
<1>. QED
  BY <1>1, <1>2, <1>3, <1>4, <1>6, <1>7 DEF u

---------------------------------------------------------------------------
(* One lemma per conjunct of the invariant.                                *)

\* With the options that are set, the kernel tells the socket nothing of it when the
\* controller goes off.
LEMMA OffUnheard ==
  ASSUME TypeOK, ControllerGoesOff
  PROVE  /\ arrived' = arrived + 1 /\ arrived' \in 0..MaxArrivals
         /\ controllerOff' = TRUE
         /\ UNCHANGED <<busVars, lock, subs, subOpen, queue, socket, edge, ready, fresh,
                        broken, feederVars, subVars, cpc, log, last>>
BY ListBusAssumption
   DEF TypeOK, ControllerGoesOff, OptionsSet, KernelErrFilter, CAN_RAW_FD_FRAMES,
       CAN_RAW_ERR_FILTER

\* Closing the channels on the list leaves one mark for each channel.
LEMMA ClosedType == TypeOK => OpenAfterClose \in [Subs -> BOOLEAN]
BY DEF TypeOK, OpenAfterClose

\* Every step keeps the types.
LEMMA TypePreserved ==
  ASSUME IInv, [Next]_vars
  PROVE TypeOK'
<1>0. TypeOK /\ Delivering /\ NoFrameTwice
  BY DEF IInv
<1>. USE <1>0 DEF TypeOK, FeederPlaces, busVars, socketVars, feederVars, subVars
<1>1. CASE FrameOnWire \/ SendFrame
  <2>1. FrameArrives
    BY <1>1 DEF FrameOnWire, SendFrame
  <2>2. arrived' \in 0..MaxArrivals /\ arrived' \in Frames
    BY <2>1, ListBusAssumption DEF FrameArrives, Frames
  <2>. QED
    BY <2>1, <2>2 DEF FrameArrives, ToSocket
<1>2. CASE ControllerGoesOff
  BY <1>2, OffUnheard
<1>3. CASE SocketFails \/ WriteDone
  BY <1>3 DEF SocketFails, WriteDone
<1>4. CASE DriverPolls
  <2>1. ready \in BOOLEAN /\ fresh \in BOOLEAN
    OBVIOUS
  <2>. HIDE DEF TypeOK, FeederPlaces
  <2>2. (fpc[Reader] \in {"read", "clear"}) \in BOOLEAN
    OBVIOUS
  <2>3. \/ ready' = TRUE /\ fresh' = (fpc[Reader] \in {"read", "clear"})
        \/ UNCHANGED <<ready, fresh>>
    BY <1>4 DEF DriverPolls
  <2>4. ready' \in BOOLEAN /\ fresh' \in BOOLEAN
    BY <2>1, <2>2, <2>3
  <2>. QED
    BY <1>4, <2>4 DEF DriverPolls, TypeOK, FeederPlaces
<1>5. CASE ReaderTop
  BY <1>5 DEF ReaderTop
<1>6. CASE Readable
  BY <1>6 DEF Readable
<1>7. CASE ReadFails
  BY <1>7 DEF ReadFails
<1>8. CASE Read
  <2>1. socket # <<>> => /\ Head(socket) \in Frames \union {BusOff}
                         /\ Tail(socket) \in Seq(Frames \union {BusOff})
    BY TailFacts
  <2>2. /\ socket' \in Seq(Frames \union {BusOff})
        /\ frame' \in [Feeders -> Frames \union {NoFrame, BusOff}]
    BY <1>8, <2>1 DEF Read
  <2>. QED
    BY <1>8, <2>2 DEF Read
<1>9. CASE AfterRead
  BY <1>9 DEF AfterRead, ClearReady
<1>10. CASE ReaderExit
  <2>1. subOpen' \in [Subs -> BOOLEAN]
    BY <1>10, ClosedType DEF ReaderExit
  <2>. QED
    BY <1>10, <2>1 DEF ReaderExit
<1>11. ASSUME NEW t \in Injectors, Inject(t) PROVE TypeOK'
  <2>1. arrived' \in 0..MaxArrivals /\ arrived' \in Frames /\ t \in Feeders
    BY <1>11, ListBusAssumption DEF Inject, Frames, Feeders
  <2>. QED
    BY <1>11, <2>1 DEF Inject
<1>12. ASSUME NEW t \in Feeders, DeliverLock(t) PROVE TypeOK'
  <2>1. frame[t] \in Frames
    BY <1>12 DEF DeliverLock, NoFrameTwice
  <2>2. log' \in Seq(Frames)
    BY <1>12, <2>1 DEF DeliverLock
  <2>. QED
    BY <1>12, <2>2 DEF DeliverLock
<1>13. ASSUME NEW t \in Feeders, DeliverPush(t) PROVE TypeOK'
  <2>1. /\ queue' \in [Subs -> Seq(Frames)] /\ rest' \in [Feeders -> Seq(Subs)]
        /\ \A u \in Subs : Policy[u] # "Block" => Len(queue'[u]) <= Depth[u]
    BY <1>13, PushFacts
  <2>. QED
    BY <1>13, <2>1 DEF DeliverPush
<1>14. ASSUME NEW t \in Feeders, DeliverUnlock(t) PROVE TypeOK'
  BY <1>14 DEF DeliverUnlock
<1>15. ASSUME NEW u \in Subs, SubscribeCheck(u) PROVE TypeOK'
  BY <1>15 DEF SubscribeCheck
<1>16. ASSUME NEW u \in Subs, SubscribeJoin(u) PROVE TypeOK'
  BY <1>16 DEF SubscribeJoin
<1>17. ASSUME NEW u \in Subs, Receive(u) PROVE TypeOK'
  <2>1. queue[u] \in Seq(Frames) /\ queue[u] # <<>>
    BY <1>17 DEF Receive
  <2>2. /\ Head(queue[u]) \in Frames /\ Tail(queue[u]) \in Seq(Frames)
        /\ Len(Tail(queue[u])) <= Len(queue[u])
    BY <2>1, TailFacts
  <2>3. queue' \in [Subs -> Seq(Frames)] /\ last' \in [Subs -> Frames \union {NoFrame}]
    BY <1>17, <2>2 DEF Receive
  <2>4. \A v \in Subs : Policy[v] # "Block" => Len(queue'[v]) <= Depth[v]
    <3>1. \A v \in Subs : Len(queue'[v]) <= Len(queue[v])
      BY <1>17, <2>2 DEF Receive
    <3>2. \A v \in Subs : /\ Len(queue'[v]) \in Nat /\ Len(queue[v]) \in Nat
                         /\ Depth[v] \in Nat
      BY <2>3, ListBusAssumption
    <3>. QED
      BY <3>1, <3>2
  <2>. QED
    BY <1>17, <2>3, <2>4 DEF Receive
<1>18. ASSUME NEW u \in Subs, ReceiverClose(u) PROVE TypeOK'
  BY <1>18 DEF ReceiverClose
<1>19. ASSUME NEW c \in Closers, CloseExchange(c) PROVE TypeOK'
  BY <1>19 DEF CloseExchange
<1>20. ASSUME NEW c \in Closers, CloseSubs(c) PROVE TypeOK'
  <2>1. /\ subOpen' \in [Subs -> BOOLEAN]
        /\ cpc' \in [Closers -> {"idle", "exchanged", "done"}]
    BY <1>20, ClosedType DEF CloseSubs
  <2>. QED
    BY <1>20, <2>1 DEF CloseSubs
<1>21. CASE Drop
  BY <1>21 DEF Drop
<1>22. CASE UNCHANGED vars
  BY <1>22 DEF vars
<1>. QED
  BY <1>1, <1>2, <1>3, <1>4, <1>5, <1>6, <1>7, <1>8, <1>9, <1>10, <1>11, <1>12,
     <1>13, <1>14, <1>15, <1>16, <1>17, <1>18, <1>19, <1>20, <1>21, <1>22
     DEF Next, ReaderRuns

\* A step that publishes, queues, receives and joins nothing, and leaves the lock.
Quiet ==
  /\ UNCHANGED <<log, queue, last, joinedAt, rest, subs, lock>>
  /\ \A u \in Subs : (upc'[u] = "on") <=> (upc[u] = "on")
  /\ \A t \in Feeders :
       /\ (fpc'[t] = "push") <=> (fpc[t] = "push")
       /\ fpc[t] = "push" => frame'[t] = frame[t]

\* The other steps.
LEMMA StepKinds ==
  ASSUME IInv, [Next]_vars
  PROVE  \/ Quiet
         \/ \E t \in Feeders : DeliverLock(t) \/ DeliverPush(t) \/ DeliverUnlock(t)
         \/ \E u \in Subs : SubscribeJoin(u) \/ Receive(u)
<1>. USE DEF IInv, TypeOK, Quiet, busVars, socketVars, feederVars, subVars
<1>0. Reader \in Feeders /\ Injectors \subseteq Feeders
  BY DEF Feeders
<1>1. CASE FrameOnWire \/ SendFrame
  BY <1>1 DEF FrameOnWire, SendFrame, FrameArrives
<1>11. CASE ControllerGoesOff
  BY <1>11, OffUnheard
<1>2. CASE SocketFails \/ WriteDone \/ DriverPolls
  BY <1>2 DEF SocketFails, WriteDone, DriverPolls
<1>3. CASE ReaderTop \/ Readable
  BY <1>0, <1>3 DEF ReaderTop, Readable
<1>4. CASE Read \/ ReadFails
  BY <1>0, <1>4 DEF Read, ReadFails
<1>5. CASE AfterRead
  BY <1>0, <1>5 DEF AfterRead
<1>6. CASE ReaderExit \/ Drop
  BY <1>0, <1>6 DEF ReaderExit, Drop
<1>7. ASSUME NEW t \in Injectors, Inject(t) PROVE Quiet
  BY <1>0, <1>7 DEF Inject
<1>8. ASSUME NEW u \in Subs, SubscribeCheck(u) \/ ReceiverClose(u) PROVE Quiet
  BY <1>8 DEF SubscribeCheck, ReceiverClose
<1>9. ASSUME NEW c \in Closers, CloseExchange(c) \/ CloseSubs(c) PROVE Quiet
  BY <1>9 DEF CloseExchange, CloseSubs
<1>10. CASE UNCHANGED vars
  BY <1>10 DEF vars
<1>. HIDE DEF IInv, TypeOK, Quiet
<1>. QED
  BY <1>1, <1>2, <1>3, <1>4, <1>5, <1>6, <1>7, <1>8, <1>9, <1>10, <1>11
     DEF Next, ReaderRuns

\* The lock keeps deliveries apart.
LEMMA DeliveringPreserved ==
  ASSUME IInv, [Next]_vars
  PROVE Delivering'
<1>. USE DEF Delivering, busVars, socketVars, feederVars, subVars
<1>0. /\ Delivering /\ log \in Seq(Frames)
      /\ fpc \in [Feeders -> FeederPlaces]
      /\ frame \in [Feeders -> Frames \union {NoFrame, BusOff}]
      /\ NoTask \notin Feeders
  BY ListBusAssumption DEF IInv, TypeOK, Feeders
<1>1. ASSUME NEW t \in Feeders, DeliverLock(t) PROVE Delivering'
  <2>1. frame[t] \in Frames
    BY <1>1 DEF IInv, NoFrameTwice, DeliverLock
  <2>2. log' # <<>> /\ log'[Len(log')] = frame[t]
    BY <1>0, <1>1, <2>1 DEF DeliverLock
  <2>. QED
    BY <1>0, <1>1, <2>2 DEF DeliverLock, Free
<1>2. ASSUME NEW t \in Feeders, DeliverPush(t) PROVE Delivering'
  BY <1>0, <1>2 DEF DeliverPush
<1>3. ASSUME NEW t \in Feeders, DeliverUnlock(t) PROVE Delivering'
  BY <1>0, <1>3 DEF DeliverUnlock
<1>4. ASSUME NEW u \in Subs, SubscribeJoin(u) \/ Receive(u) PROVE Delivering'
  BY <1>0, <1>4 DEF SubscribeJoin, Receive
<1>5. CASE Quiet
  BY <1>0, <1>5 DEF Quiet
<1>. QED
  BY <1>1, <1>2, <1>3, <1>4, <1>5, StepKinds

\* Only subscribe() adds to the list, and a subscription subscribes once.
LEMMA ListedPreserved ==
  ASSUME IInv, [Next]_vars
  PROVE Listed'
<1>. USE DEF Listed, EachOnce, AllJoined, busVars, socketVars, feederVars, subVars
<1>0. /\ Listed /\ subs \in Seq(Subs) /\ rest \in [Feeders -> Seq(Subs)]
      /\ upc \in [Subs -> {"new", "refused", "checked", "on"}]
  BY DEF IInv, TypeOK
<1>1. ASSUME NEW t \in Feeders, DeliverLock(t) PROVE Listed'
  BY <1>0, <1>1 DEF DeliverLock
<1>2. ASSUME NEW t \in Feeders, DeliverPush(t) PROVE Listed'
  <2>1. UNCHANGED <<subs, upc>>
    BY <1>2 DEF DeliverPush
  <2>2. /\ rest[t] \in Seq(Subs) /\ rest'[t] \in Seq(Subs)
        /\ Len(rest[t]) = Len(rest'[t]) + 1
        /\ \A i \in 1..Len(rest'[t]) : rest'[t][i] = rest[t][i + 1]
        /\ \A s \in Feeders : s # t => rest'[s] = rest[s]
    BY <1>2, PushFacts DEF IInv
  <2>3. \A i \in 1..Len(rest'[t]) : i + 1 \in 1..Len(rest[t])
    BY <2>2
  <2>4. ASSUME NEW i \in 1..Len(rest'[t]), NEW j \in 1..Len(rest'[t]),
               rest'[t][i] = rest'[t][j]
        PROVE  i = j
    <3>1. rest[t][i + 1] = rest[t][j + 1]
      BY <2>2, <2>4
    <3>2. i + 1 = j + 1
      BY <1>0, <2>3, <3>1
    <3>. QED
      BY <2>2, <3>2
  <2>5. \A i \in 1..Len(rest'[t]) : upc[rest'[t][i]] = "on"
    <3>. TAKE i \in 1..Len(rest'[t])
    <3>1. rest'[t][i] = rest[t][i + 1] /\ i + 1 \in 1..Len(rest[t])
      BY <2>2, <2>3
    <3>2. upc[rest[t][i + 1]] = "on"
      BY <1>0, <3>1
    <3>. QED
      BY <3>1, <3>2
  <2>6. ASSUME NEW s \in Feeders PROVE (EachOnce(rest[s]) /\ AllJoined(rest[s]))'
    <3>1. CASE s = t
      BY <2>1, <2>4, <2>5, <3>1
    <3>2. CASE s # t
      BY <1>0, <2>1, <2>2, <3>2
    <3>. QED
      BY <3>1, <3>2
  <2>7. (EachOnce(subs) /\ AllJoined(subs))'
    BY <1>0, <2>1
  <2>. QED
    BY <2>6, <2>7
<1>3. ASSUME NEW t \in Feeders, DeliverUnlock(t) PROVE Listed'
  BY <1>0, <1>3 DEF DeliverUnlock
<1>4. ASSUME NEW u \in Subs, SubscribeJoin(u) PROVE Listed'
  <2>1. /\ upc[u] = "checked" /\ upc' = [upc EXCEPT ![u] = "on"]
        /\ subs' = Append(subs, u) /\ rest' = rest
    BY <1>4 DEF SubscribeJoin
  <2>2. /\ Len(subs') = Len(subs) + 1 /\ subs'[Len(subs) + 1] = u
        /\ \A i \in 1..Len(subs) : subs'[i] = subs[i] /\ subs[i] \in Subs
        /\ Len(subs) \in Nat
    BY <1>0, <2>1
  <2>3. \A i \in 1..Len(subs) : subs[i] # u
    BY <1>0, <2>1
  <2>4. \A v \in Subs : upc[v] = "on" => upc'[v] = "on"
    BY <1>0, <2>1
  <2>5. EachOnce(subs)'
    BY <1>0, <2>2, <2>3
  <2>6. AllJoined(subs)'
    BY <1>0, <2>1, <2>2, <2>4
  <2>7. ASSUME NEW s \in Feeders PROVE (EachOnce(rest[s]) /\ AllJoined(rest[s]))'
    <3>1. rest[s] \in Seq(Subs) /\ rest'[s] = rest[s]
      BY <1>0, <2>1
    <3>2. \A i \in 1..Len(rest[s]) : rest[s][i] \in Subs
      BY <3>1
    <3>. QED
      BY <1>0, <2>4, <3>1, <3>2
  <2>. QED
    BY <2>5, <2>6, <2>7
<1>5. ASSUME NEW u \in Subs, Receive(u) PROVE Listed'
  BY <1>0, <1>5 DEF Receive
<1>6. CASE Quiet
  <2>1. UNCHANGED <<subs, rest>> /\ \A v \in Subs : upc[v] = "on" => upc'[v] = "on"
    BY <1>6 DEF Quiet
  <2>2. /\ \A i \in 1..Len(subs) : subs[i] \in Subs
        /\ \A s \in Feeders : \A i \in 1..Len(rest[s]) : rest[s][i] \in Subs
    BY <1>0
  <2>. QED
    BY <1>0, <2>1, <2>2
<1>. QED
  BY <1>1, <1>2, <1>3, <1>4, <1>5, <1>6, StepKinds

\* A delivery pushes to subscriptions that have joined.
LEMMA OutsidersPreserved ==
  ASSUME IInv, [Next]_vars
  PROVE Outsiders'
<1>. USE DEF Outsiders, busVars, socketVars, feederVars, subVars
<1>0. /\ Outsiders /\ Listed /\ log \in Seq(Frames) /\ joinedAt \in [Subs -> Nat]
      /\ upc \in [Subs -> {"new", "refused", "checked", "on"}]
      /\ queue \in [Subs -> Seq(Frames)]
      /\ last \in [Subs -> Frames \union {NoFrame}]
  BY DEF IInv, TypeOK
<1>1. ASSUME NEW t \in Feeders, DeliverLock(t) PROVE Outsiders'
  <2>1. frame[t] \in Frames
    BY <1>1 DEF IInv, NoFrameTwice, DeliverLock
  <2>2. Len(log') = Len(log) + 1 /\ Len(log) \in Nat
    BY <1>0, <1>1, <2>1 DEF DeliverLock
  <2>. QED
    BY <1>0, <1>1, <2>2 DEF DeliverLock
<1>2. ASSUME NEW t \in Feeders, DeliverPush(t) PROVE Outsiders'
  <2>1. /\ UNCHANGED <<upc, last, joinedAt, log>>
        /\ \A v \in Subs : v # rest[t][1] => queue'[v] = queue[v]
    BY <1>2, PushFacts DEF DeliverPush, IInv
  <2>2. upc[rest[t][1]] = "on"
    <3>1. rest[t] \in Seq(Subs) /\ rest[t] # <<>>
      BY <1>2, PushFacts DEF IInv
    <3>2. 1 \in 1..Len(rest[t])
      BY <3>1
    <3>. QED
      BY <1>0, <3>2 DEF Listed, AllJoined
  <2>. QED
    BY <1>0, <2>1, <2>2
<1>3. ASSUME NEW t \in Feeders, DeliverUnlock(t) PROVE Outsiders'
  BY <1>0, <1>3 DEF DeliverUnlock
<1>4. ASSUME NEW u \in Subs, SubscribeJoin(u) PROVE Outsiders'
  <2>1. /\ UNCHANGED <<queue, last, log>>
        /\ upc' = [upc EXCEPT ![u] = "on"]
        /\ joinedAt' = [joinedAt EXCEPT ![u] = Len(log)]
    BY <1>4 DEF SubscribeJoin
  <2>2. \A v \in Subs : upc'[v] # "on" => upc[v] # "on"
    BY <1>0, <2>1
  <2>3. \A v \in Subs : joinedAt'[v] <= Len(log)
    BY <1>0, <2>1
  <2>. QED
    BY <1>0, <2>1, <2>2, <2>3
<1>5. ASSUME NEW u \in Subs, Receive(u) PROVE Outsiders'
  BY <1>0, <1>5 DEF Receive
<1>6. CASE Quiet
  BY <1>0, <1>6 DEF Quiet
<1>. QED
  BY <1>1, <1>2, <1>3, <1>4, <1>5, <1>6, StepKinds

\* A step that no frame comes in with, and in which no frame moves on.
Still ==
  /\ UNCHANGED <<log, arrived, socket>>
  /\ \A t \in Feeders : fpc'[t] = "lock" => frame'[t] \in Frames
  /\ \A t \in Feeders : Holds(t)' => Holds(t) /\ frame'[t] = frame[t]

\* The other steps.
LEMMA FrameMoves ==
  ASSUME IInv, [Next]_vars
  PROVE  \/ Still
         \/ FrameArrives \/ ControllerGoesOff \/ Read
         \/ \E t \in Injectors : Inject(t)
         \/ \E t \in Feeders : DeliverLock(t)
<1>. USE DEF IInv, TypeOK, Still, Holds, NoFrameTwice, busVars, socketVars, feederVars,
            subVars
<1>0. Reader \in Feeders
  BY DEF Feeders
<1>1. CASE SocketFails \/ WriteDone \/ DriverPolls
  BY <1>1 DEF SocketFails, WriteDone, DriverPolls
<1>2. CASE ReaderTop \/ Readable
  BY <1>0, <1>2 DEF ReaderTop, Readable
<1>3. CASE ReadFails \/ AfterRead
  BY <1>0, <1>3 DEF ReadFails, AfterRead
<1>4. CASE ReaderExit \/ Drop
  BY <1>0, <1>4 DEF ReaderExit, Drop
<1>5. ASSUME NEW t \in Feeders, DeliverPush(t) \/ DeliverUnlock(t) PROVE Still
  BY <1>0, <1>5 DEF DeliverPush, DeliverUnlock
<1>6. ASSUME NEW u \in Subs,
             SubscribeCheck(u) \/ SubscribeJoin(u) \/ Receive(u) \/ ReceiverClose(u)
      PROVE  Still
  BY <1>6 DEF SubscribeCheck, SubscribeJoin, Receive, ReceiverClose
<1>7. ASSUME NEW c \in Closers, CloseExchange(c) \/ CloseSubs(c) PROVE Still
  BY <1>7 DEF CloseExchange, CloseSubs
<1>8. CASE UNCHANGED vars
  BY <1>8 DEF vars
<1>. HIDE DEF IInv, TypeOK, Still, Holds, NoFrameTwice
<1>. QED
  BY <1>1, <1>2, <1>3, <1>4, <1>5, <1>6, <1>7, <1>8
     DEF Next, ReaderRuns, FrameOnWire, SendFrame

\* An arriving frame has a number of its own; from the socket it goes to the
\* reader, and a feeder takes the lock once with it.
LEMMA NoFrameTwicePreserved ==
  ASSUME IInv, [Next]_vars
  PROVE NoFrameTwice'
<1>. USE DEF NoFrameTwice, EachOnce, busVars, socketVars, feederVars, subVars
<1>0. /\ NoFrameTwice /\ SocketIsNew /\ log \in Seq(Frames) /\ arrived \in 0..MaxArrivals
      /\ MaxArrivals \in Nat
      /\ socket \in Seq(Frames \union {BusOff})
      /\ fpc \in [Feeders -> FeederPlaces]
      /\ frame \in [Feeders -> Frames \union {NoFrame, BusOff}]
      /\ Reader \in Feeders /\ Injectors \subseteq Feeders
      /\ \A f \in Frames : f \in Nat
  BY ListBusAssumption DEF IInv, TypeOK, Feeders, Frames
<1>00. \A i \in 1..Len(log) : log[i] \in Nat
  BY <1>0
<1>1. CASE FrameArrives \/ ControllerGoesOff
  <2>1. arrived' = arrived + 1 /\ UNCHANGED <<log, fpc, frame>>
    BY <1>1, OffUnheard DEF FrameArrives, IInv
  <2>2. \A n \in Nat : n <= arrived => n <= arrived'
    BY <1>0, <2>1
  <2>3. \A t \in Feeders : Holds(t)' = Holds(t)
    BY <2>1 DEF Holds
  <2>4. \A t \in Feeders : Holds(t) => frame[t] \in Nat
    BY <1>0 DEF Holds
  <2>. QED
    BY <1>0, <1>00, <2>1, <2>2, <2>3, <2>4
<1>2. CASE Read
  <2>. DEFINE f == IF socket # <<>> THEN Head(socket) ELSE NoFrame
  <2>1. /\ UNCHANGED <<log, arrived>>
        /\ frame' = [frame EXCEPT ![Reader] = f]
        /\ fpc' = [fpc EXCEPT ![Reader] = "clear"]
        /\ fpc[Reader] = "read"
    BY <1>2 DEF Read
  <2>2. f \in Frames => f = socket[1] /\ 1 \in 1..Len(socket)
    BY <1>0, TailFacts DEF Frames, NoFrame
  <2>. HIDE DEF f
  <2>3. f \in Frames =>
        /\ f <= arrived
        /\ \A i \in 1..Len(log) : log[i] # f
        /\ \A t \in Feeders : Holds(t) => frame[t] # f
    BY <1>0, <2>1, <2>2 DEF SocketIsNew
  <2>4. /\ frame'[Reader] = f /\ fpc'[Reader] = "clear"
        /\ \A t \in Feeders : t # Reader => frame'[t] = frame[t] /\ fpc'[t] = fpc[t]
    BY <1>0, <2>1
  <2>5. \A t \in Feeders : Holds(t)' =>
          IF t = Reader THEN frame'[t] = f /\ f \in Frames
          ELSE Holds(t) /\ frame'[t] = frame[t]
    BY <2>4 DEF Holds
  <2>6. ASSUME NEW t \in Feeders, Holds(t)'
        PROVE  /\ frame'[t] <= arrived
               /\ \A i \in 1..Len(log) : log[i] # frame'[t]
    BY <1>0, <2>3, <2>5, <2>6
  <2>7. ASSUME NEW t \in Feeders, NEW s \in Feeders,
               Holds(t)', Holds(s)', frame'[s] = frame'[t]
        PROVE  s = t
    BY <1>0, <2>3, <2>5, <2>7
  <2>8. \A t \in Feeders : fpc'[t] = "lock" => frame'[t] \in Frames
    BY <1>0, <2>4
  <2>. QED
    BY <1>0, <2>1, <2>6, <2>7, <2>8
<1>4. ASSUME NEW t \in Injectors, Inject(t) PROVE NoFrameTwice'
  <2>1. /\ arrived' = arrived + 1 /\ arrived + 1 \in Frames /\ UNCHANGED log
        /\ frame' = [frame EXCEPT ![t] = arrived + 1]
        /\ fpc' = [fpc EXCEPT ![t] = "lock"]
        /\ t \in Feeders
    BY <1>0, <1>4 DEF Inject, Frames
  <2>2. \A n \in Nat : n <= arrived => n <= arrived' /\ n # arrived + 1
    BY <1>0, <2>1
  <2>3. /\ frame'[t] = arrived + 1
        /\ \A s \in Feeders : s # t => frame'[s] = frame[s] /\ fpc'[s] = fpc[s]
    BY <1>0, <2>1
  <2>4. \A i \in 1..Len(log) : log[i] <= arrived' /\ log[i] # arrived + 1
    BY <1>0, <1>00, <2>2
  <2>5. \A s \in Feeders : s # t /\ Holds(s)' =>
          /\ Holds(s) /\ frame'[s] = frame[s]
          /\ frame'[s] <= arrived' /\ frame'[s] # arrived + 1
          /\ \A i \in 1..Len(log) : log[i] # frame'[s]
    <3>1. \A s \in Feeders : s # t /\ Holds(s)' => Holds(s) /\ frame'[s] = frame[s]
      BY <2>3 DEF Holds
    <3>2. \A s \in Feeders : Holds(s) => frame[s] \in Nat
      BY <1>0 DEF Holds
    <3>. QED
      BY <1>0, <2>2, <3>1, <3>2
  <2>6. ASSUME NEW s \in Feeders, Holds(s)'
        PROVE  /\ frame'[s] <= arrived'
               /\ \A i \in 1..Len(log) : log[i] # frame'[s]
    <3>1. CASE s = t
      BY <1>0, <2>1, <2>3, <2>4, <3>1
    <3>2. CASE s # t
      BY <2>5, <2>6, <3>2
    <3>. QED
      BY <3>1, <3>2
  <2>7. ASSUME NEW s \in Feeders, NEW r \in Feeders,
               Holds(s)', Holds(r)', frame'[r] = frame'[s]
        PROVE  r = s
    BY <1>0, <2>3, <2>5, <2>7
  <2>8. \A s \in Feeders : fpc'[s] = "lock" => frame'[s] \in Frames
    BY <1>0, <2>1, <2>3
  <2>. QED
    BY <1>0, <2>1, <2>4, <2>6, <2>7, <2>8
<1>5. ASSUME NEW t \in Feeders, DeliverLock(t) PROVE NoFrameTwice'
  <2>1. /\ fpc[t] = "lock" /\ UNCHANGED <<frame, arrived>>
        /\ log' = Append(log, frame[t])
        /\ fpc' = [fpc EXCEPT ![t] = "push"]
    BY <1>5 DEF DeliverLock
  <2>0. Holds(t)
    BY <1>0, <2>1 DEF Holds
  <2>2. /\ frame[t] \in Frames /\ frame[t] <= arrived
        /\ \A i \in 1..Len(log) : log[i] # frame[t]
    BY <1>0, <2>0, <2>1
  <2>3. /\ Len(log') = Len(log) + 1 /\ Len(log) \in Nat
        /\ log'[Len(log) + 1] = frame[t]
        /\ \A i \in 1..Len(log) : log'[i] = log[i]
    BY <1>0, <2>1, <2>2
  <2>4. \A i \in 1..Len(log') : i \in 1..Len(log) \/ i = Len(log) + 1
    BY <2>3
  <2>5. EachOnce(log)'
    BY <1>0, <2>2, <2>3, <2>4
  <2>6. \A i \in 1..Len(log') : log'[i] <= arrived'
    BY <1>0, <2>1, <2>2, <2>3, <2>4
  <2>7. /\ \A s \in Feeders : Holds(s)' => Holds(s) /\ s # t
        /\ \A s \in Feeders : fpc'[s] = "lock" => fpc[s] = "lock"
    BY <1>0, <2>1 DEF Holds
  <2>8. \A s \in Feeders : Holds(s)' =>
          \A i \in 1..Len(log') : log'[i] # frame[s]
    BY <1>0, <2>0, <2>1, <2>3, <2>4, <2>7
  <2>. QED
    BY <1>0, <2>1, <2>5, <2>6, <2>7, <2>8
<1>6. CASE Still
  BY <1>0, <1>6 DEF Still
<1>. QED
  BY <1>1, <1>2, <1>4, <1>5, <1>6, FrameMoves

\* The socket gives its frames to the reader in the order of their arrival.
LEMMA SocketIsNewPreserved ==
  ASSUME IInv, [Next]_vars
  PROVE SocketIsNew'
<1>. USE DEF SocketIsNew, busVars, socketVars, feederVars, subVars
<1>0. /\ NoFrameTwice /\ SocketIsNew /\ log \in Seq(Frames) /\ arrived \in 0..MaxArrivals
      /\ MaxArrivals \in Nat
      /\ socket \in Seq(Frames \union {BusOff})
      /\ fpc \in [Feeders -> FeederPlaces]
      /\ frame \in [Feeders -> Frames \union {NoFrame, BusOff}]
      /\ Reader \in Feeders /\ Injectors \subseteq Feeders
      /\ \A f \in Frames : f \in Nat
      /\ BusOff \notin Frames
  BY ListBusAssumption DEF IInv, TypeOK, Feeders, Frames, BusOff
<1>00. \A n \in Nat : n <= arrived => n <= arrived + 1 /\ n # arrived + 1
  BY <1>0
<1>1. CASE FrameArrives
  <2>0. PICK x \in Frames : x = arrived + 1
    BY <1>0, <1>1 DEF FrameArrives, Frames
  <2>1. /\ arrived' = arrived + 1 /\ UNCHANGED <<log, fpc, frame>>
        /\ socket' = Append(socket, x)
        /\ \A t \in Feeders : Holds(t)' = Holds(t)
    BY <1>0, <1>1, <2>0 DEF FrameArrives, ToSocket, Holds
  <2>2. /\ Len(socket') = Len(socket) + 1 /\ Len(socket) \in Nat
        /\ socket'[Len(socket) + 1] = x
        /\ \A k \in 1..Len(socket) : socket'[k] = socket[k]
    BY <1>0, <2>1
  <2>3. \A k \in 1..Len(socket') : k \in 1..Len(socket) \/ k = Len(socket) + 1
    BY <2>2
  <2>4. ASSUME NEW k \in 1..Len(socket), socket[k] \in Frames
        PROVE  /\ socket[k] <= arrived' /\ socket[k] # x
               /\ \A i \in 1..Len(log) : log[i] # socket[k]
               /\ \A t \in Feeders : Holds(t) => frame[t] # socket[k]
               /\ \A i \in 1..Len(socket) : socket[i] = socket[k] => i = k
    <3>1. socket[k] \in Nat /\ socket[k] <= arrived
      BY <1>0, <2>4
    <3>2. socket[k] <= arrived' /\ socket[k] # x
      BY <1>00, <2>0, <2>1, <3>1
    <3>. QED
      BY <1>0, <2>4, <3>2
  <2>5. /\ x <= arrived'
        /\ \A i \in 1..Len(log) : log[i] # x
        /\ \A t \in Feeders : Holds(t) => frame[t] # x
        /\ \A i \in 1..Len(socket) : socket[i] # x
    <3>1. x <= arrived'
      BY <1>0, <2>0, <2>1
    <3>2. ASSUME NEW i \in 1..Len(log) PROVE log[i] # x
      BY <1>0, <1>00, <2>0 DEF NoFrameTwice
    <3>3. ASSUME NEW t \in Feeders, Holds(t) PROVE frame[t] # x
      <4>1. frame[t] \in Nat /\ frame[t] <= arrived
        BY <1>0, <3>3 DEF NoFrameTwice, Holds
      <4>. QED
        BY <1>00, <2>0, <4>1
    <3>4. ASSUME NEW i \in 1..Len(socket) PROVE socket[i] # x
      BY <2>4
    <3>. QED
      BY <3>1, <3>2, <3>3, <3>4
  <2>6. ASSUME NEW k \in 1..Len(socket'), socket'[k] \in Frames
        PROVE  /\ socket'[k] <= arrived'
               /\ \A i \in 1..Len(log) : log[i] # socket'[k]
               /\ \A t \in Feeders : Holds(t) => frame[t] # socket'[k]
               /\ \A i \in 1..Len(socket') : socket'[i] = socket'[k] => i = k
    <3>1. CASE k \in 1..Len(socket)
      <4>1. socket'[k] = socket[k] /\ socket[k] \in Frames
        BY <2>2, <2>6, <3>1
      <4>2. \A i \in 1..Len(socket') : socket'[i] = socket[k] => i = k
        BY <2>2, <2>3, <2>4, <3>1, <4>1
      <4>. QED
        BY <2>4, <3>1, <4>1, <4>2
    <3>2. CASE k = Len(socket) + 1
      <4>1. socket'[k] = x
        BY <2>2, <3>2
      <4>2. \A i \in 1..Len(socket') : socket'[i] = x => i = k
        BY <2>2, <2>3, <2>5, <3>2, <4>1
      <4>. QED
        BY <2>5, <4>1, <4>2
    <3>. QED
      BY <2>3, <3>1, <3>2
  <2>. QED
    BY <2>1, <2>6
<1>2. CASE Read /\ socket = <<>>
  <2>1. UNCHANGED <<log, arrived, socket>> /\ Len(socket) = 0
    BY <1>2 DEF Read
  <2>. QED
    BY <2>1
<1>6. CASE Read /\ socket # <<>>
  <2>1. /\ socket # <<>> /\ socket' = Tail(socket)
        /\ UNCHANGED <<log, arrived>>
    BY <1>6 DEF Read
  <2>2. /\ Len(socket') = Len(socket) - 1 /\ Len(socket) \in Nat \ {0}
        /\ \A k \in 1..(Len(socket) - 1) : socket'[k] = socket[k + 1]
        /\ Head(socket) = socket[1]
    BY <1>0, <2>1, TailFacts
  <2>3. \A k \in 1..Len(socket') :
          k + 1 \in 1..Len(socket) /\ socket'[k] = socket[k + 1] /\ k + 1 # 1
    BY <2>2
  <2>4. \A t \in Feeders : Holds(t)' =>
          \/ Holds(t) /\ frame'[t] = frame[t]
          \/ frame'[t] = socket[1]
    BY <1>0, <1>6, <2>2 DEF Read, Holds
  <2>5. ASSUME NEW k \in 1..Len(socket'), socket'[k] \in Frames
        PROVE  /\ socket'[k] <= arrived
               /\ \A i \in 1..Len(log) : log[i] # socket'[k]
               /\ \A t \in Feeders : Holds(t)' => frame'[t] # socket'[k]
               /\ \A i \in 1..Len(socket') : socket'[i] = socket'[k] => i = k
    <3>. DEFINE j == k + 1
    <3>1. j \in 1..Len(socket) /\ socket'[k] = socket[j] /\ j # 1
      BY <2>3
    <3>. HIDE DEF j
    <3>2. /\ socket[j] <= arrived
          /\ \A i \in 1..Len(log) : log[i] # socket[j]
          /\ \A t \in Feeders : Holds(t) => frame[t] # socket[j]
          /\ \A i \in 1..Len(socket) : socket[i] = socket[j] => i = j
      BY <1>0, <2>5, <3>1
    <3>3. 1 \in 1..Len(socket) /\ socket[1] # socket[j]
      BY <2>2, <3>1, <3>2
    <3>4. \A t \in Feeders : Holds(t)' => frame'[t] # socket[j]
      BY <2>4, <3>2, <3>3
    <3>5. ASSUME NEW i \in 1..Len(socket'), socket'[i] = socket[j] PROVE i = k
      <4>1. i + 1 \in 1..Len(socket) /\ socket[i + 1] = socket[j]
        BY <2>3, <3>5
      <4>2. i + 1 = k + 1
        BY <3>2, <4>1 DEF j
      <4>. QED
        BY <2>2, <4>2
    <3>. QED
      BY <3>1, <3>2, <3>4, <3>5
  <2>. QED
    BY <2>1, <2>5
<1>3. ASSUME NEW t \in Injectors, Inject(t) PROVE SocketIsNew'
  <2>1. /\ arrived' = arrived + 1 /\ UNCHANGED <<log, socket>>
        /\ frame' = [frame EXCEPT ![t] = arrived + 1]
        /\ fpc' = [fpc EXCEPT ![t] = "lock"]
        /\ t \in Feeders
    BY <1>0, <1>3 DEF Inject
  <2>2. ASSUME NEW k \in 1..Len(socket), socket[k] \in Frames
        PROVE  socket[k] <= arrived' /\ socket[k] # arrived + 1
    BY <1>0, <1>00, <2>1, <2>2
  <2>3. \A s \in Feeders : Holds(s)' =>
          frame'[s] = arrived + 1 \/ (Holds(s) /\ frame'[s] = frame[s])
    BY <1>0, <2>1 DEF Holds
  <2>. QED
    BY <1>0, <2>1, <2>2, <2>3
<1>4. ASSUME NEW t \in Feeders, DeliverLock(t) PROVE SocketIsNew'
  <2>1. /\ fpc[t] = "lock" /\ UNCHANGED <<frame, arrived, socket>>
        /\ log' = Append(log, frame[t]) /\ frame[t] \in Frames
        /\ fpc' = [fpc EXCEPT ![t] = "push"]
    BY <1>0, <1>4 DEF DeliverLock, NoFrameTwice
  <2>2. /\ \A i \in 1..Len(log') : (i \in 1..Len(log) /\ log'[i] = log[i])
                                  \/ log'[i] = frame[t]
    BY <1>0, <2>1
  <2>3. Holds(t) /\ \A s \in Feeders : Holds(s)' => Holds(s) /\ s # t
    BY <1>0, <2>1 DEF Holds
  <2>4. \A k \in 1..Len(socket) : socket[k] \in Frames => socket[k] # frame[t]
    BY <1>0, <2>3
  <2>. QED
    BY <1>0, <2>1, <2>2, <2>3, <2>4
<1>5. CASE Still
  BY <1>0, <1>5 DEF Still
<1>7. CASE ControllerGoesOff
  <2>1. arrived' = arrived + 1 /\ UNCHANGED <<log, fpc, frame, socket>>
    BY <1>7, OffUnheard DEF IInv
  <2>2. \A t \in Feeders : Holds(t)' = Holds(t)
    BY <2>1 DEF Holds
  <2>3. \A n \in Nat : n <= arrived => n <= arrived'
    BY <1>0, <2>1
  <2>. QED
    BY <1>0, <2>1, <2>2, <2>3
<1>. QED
  BY <1>1, <1>2, <1>3, <1>4, <1>5, <1>6, <1>7, FrameMoves

---------------------------------------------------------------------------
(* Positions in the log.                                                   *)

\* Frames differ, so each has one position.
LEMMA IndexFacts ==
  ASSUME TypeOK, NoFrameTwice
  PROVE  /\ log \in Seq(Frames)
         /\ \A i \in 1..Len(log) : Index(log[i]) = i
         /\ \A f : Logged(f) => Index(f) \in 1..Len(log) /\ log[Index(f)] = f
<1>1. log \in Seq(Frames) /\ \A i, j \in 1..Len(log) : log[i] = log[j] => i = j
  BY DEF TypeOK, NoFrameTwice, EachOnce
<1>2. ASSUME NEW f, Logged(f)
      PROVE Index(f) \in 1..Len(log) /\ log[Index(f)] = f
  BY <1>2 DEF Index, Logged
<1>3. ASSUME NEW i \in 1..Len(log) PROVE Index(log[i]) = i
  <2>1. Logged(log[i])
    BY DEF Logged
  <2>. QED
    BY <1>1, <1>2, <2>1
<1>. QED
  BY <1>1, <1>2, <1>3

\* The place of a subscription that has joined.
LEMMA PlaceIs ==
  ASSUME NEW u \in Subs
  PROVE  /\ upc[u] # "on" => Place(u) = -1
         /\ upc[u] = "on" /\ last[u] = NoFrame => Place(u) = joinedAt[u]
         /\ upc[u] = "on" /\ last[u] # NoFrame => Place(u) = Index(last[u])
BY DEF Place, Index

\* Where a subscription stands is a position, or the beginning.
LEMMA PlaceType ==
  ASSUME IInv, NEW u \in Subs, upc[u] = "on"
  PROVE  Place(u) \in 0..Len(log)
<1>1. joinedAt[u] \in 0..Len(log) /\ log \in Seq(Frames)
  BY DEF IInv, TypeOK, Outsiders
<1>2. CASE last[u] = NoFrame
  BY <1>1, <1>2, PlaceIs
<1>3. CASE last[u] # NoFrame
  <2>1. Logged(last[u])
    BY <1>3 DEF IInv, InOrder, InOrderAt
  <2>2. Index(last[u]) \in 1..Len(log)
    BY <2>1, IndexFacts DEF IInv
  <2>. QED
    BY <1>1, <1>3, <2>2, PlaceIs
<1>. QED
  BY <1>2, <1>3

\* As long as the log stays and a subscription neither joins nor receives, all
\* positions stay.
LEMMA SamePlaces ==
  ASSUME UNCHANGED log
  PROVE  /\ \A f : Index(f)' = Index(f) /\ (Logged(f)' <=> Logged(f))
         /\ \A u \in Subs :
              /\ last'[u] = last[u] /\ joinedAt'[u] = joinedAt[u]
              /\ (upc'[u] = "on") <=> (upc[u] = "on")
              => Place(u)' = Place(u)
<1>1. \A f : Index(f)' = Index(f) /\ (Logged(f)' <=> Logged(f))
  BY DEF Index, Logged
<1>2. ASSUME NEW u \in Subs, last'[u] = last[u], joinedAt'[u] = joinedAt[u],
             (upc'[u] = "on") <=> (upc[u] = "on")
      PROVE  Place(u)' = Place(u)
  <2>1. CASE upc[u] = "on"
    <3>1. upc'[u] = "on"
      BY <1>2, <2>1
    <3>2. CASE last[u] = NoFrame
      BY <1>2, <2>1, <3>1, <3>2 DEF Place
    <3>3. CASE last[u] # NoFrame
      <4>1. Place(u) = Index(last[u])
        BY <2>1, <3>3 DEF Place, Index
      <4>2. Place(u)' = Index(last[u])'
        BY <1>2, <3>1, <3>3 DEF Place, Index
      <4>3. Index(last[u])' = Index(last[u])
        BY <1>2 DEF Index
      <4>. QED
        BY <4>1, <4>2, <4>3
    <3>. QED
      BY <3>2, <3>3
  <2>2. CASE upc[u] # "on"
    BY <1>2, <2>2 DEF Place
  <2>. QED
    BY <2>1, <2>2
<1>. QED
  BY <1>1, <1>2

LEMMA QuietFacts ==
  ASSUME Quiet
  PROVE  /\ \A f : Index(f)' = Index(f) /\ (Logged(f)' <=> Logged(f))
         /\ \A u \in Subs : Place(u)' = Place(u)
BY SamePlaces DEF Quiet

\* A published frame gets the position after all others, which keep theirs.
LEMMA LogGrows ==
  ASSUME IInv, NEW t \in Feeders, DeliverLock(t)
  PROVE  /\ Len(log') = Len(log) + 1
         /\ \A f : Logged(f) => Logged(f)' /\ Index(f)' = Index(f)
         /\ \A u \in Subs : Place(u)' = Place(u)
<1>1. /\ frame[t] \in Frames
      /\ log' = Append(log, frame[t])
      /\ UNCHANGED <<last, joinedAt, upc>>
  BY DEF IInv, NoFrameTwice, DeliverLock, subVars
<1>2. /\ Len(log') = Len(log) + 1
      /\ \A i \in 1..Len(log) : log'[i] = log[i]
  BY <1>1, IndexFacts DEF IInv
<1>3. TypeOK' /\ NoFrameTwice'
  BY TypePreserved, NoFrameTwicePreserved DEF Next
<1>4. ASSUME NEW f, Logged(f) PROVE Logged(f)' /\ Index(f)' = Index(f)
  <2>1. Index(f) \in 1..Len(log) /\ log[Index(f)] = f
    BY <1>4, IndexFacts DEF IInv
  <2>2. Index(f) \in 1..Len(log') /\ log'[Index(f)] = f
    BY <1>2, <2>1, IndexFacts DEF IInv
  <2>3. Logged(f)'
    BY <2>2 DEF Logged
  <2>4. Index(f)' \in 1..Len(log') /\ log'[Index(f)'] = f
    BY <2>2 DEF Index
  <2>5. Index(f)' = Index(f)
    BY <1>3, <2>2, <2>4 DEF NoFrameTwice, EachOnce
  <2>. QED
    BY <2>3, <2>5
<1>5. ASSUME NEW u \in Subs PROVE Place(u)' = Place(u)
  <2>1. CASE upc[u] = "on" /\ last[u] # NoFrame
    <3>1. Logged(last[u])
      BY <2>1 DEF IInv, InOrder, InOrderAt
    <3>2. Index(last[u])' = Index(last[u])
      BY <1>1, <1>4, <3>1
    <3>3. Place(u) = Index(last[u])
      BY <2>1 DEF Place, Index
    <3>4. Place(u)' = Index(last[u])'
      BY <1>1, <2>1 DEF Place, Index
    <3>. QED
      BY <3>2, <3>3, <3>4
  <2>2. CASE ~(upc[u] = "on" /\ last[u] # NoFrame)
    BY <1>1, <2>2 DEF Place
  <2>. QED
    BY <2>1, <2>2
<1>. QED
  BY <1>2, <1>4, <1>5

\* A receiver moves on to the frame at the front of its queue.
LEMMA ReceiveFacts ==
  ASSUME IInv, NEW u \in Subs, Receive(u)
  PROVE  /\ upc[u] = "on"
         /\ queue[u] \in Seq(Frames) /\ queue'[u] \in Seq(Frames)
         /\ 1 \in 1..Len(queue[u])
         /\ Shifted(u, 1)
         /\ last'[u] = queue[u][1]
         /\ Place(u)' = Index(queue[u][1])
         /\ \A v \in Subs : v # u =>
              queue'[v] = queue[v] /\ last'[v] = last[v] /\ Place(v)' = Place(v)
         /\ \A f : Index(f)' = Index(f) /\ (Logged(f)' <=> Logged(f))
         /\ UNCHANGED <<log, fpc, rest>>
<1>1. /\ upc[u] = "on" /\ queue[u] # <<>>
      /\ queue[u] \in Seq(Frames)
      /\ queue' = [queue EXCEPT ![u] = Tail(queue[u])]
      /\ last' = [last EXCEPT ![u] = Head(queue[u])]
      /\ queue \in [Subs -> Seq(Frames)]
      /\ last \in [Subs -> Frames \union {NoFrame}]
      /\ UNCHANGED <<log, upc, joinedAt, fpc, rest>>
  BY DEF Receive, IInv, TypeOK, subVars, feederVars
<1>2. /\ queue'[u] \in Seq(Frames)
      /\ Len(queue[u]) = Len(queue'[u]) + 1
      /\ \A k \in 1..Len(queue'[u]) : queue'[u][k] = queue[u][k + 1]
      /\ Head(queue[u]) = queue[u][1] /\ queue[u][1] \in Frames
  BY <1>1, TailFacts
<1>3. last'[u] = queue[u][1] /\ queue[u][1] # NoFrame
  BY <1>1, <1>2 DEF Frames, NoFrame
<1>4. \A f : Index(f)' = Index(f) /\ (Logged(f)' <=> Logged(f))
  BY <1>1, SamePlaces
<1>5. Place(u)' = Index(queue[u][1])
  BY <1>1, <1>3 DEF Place, Index
<1>6. ASSUME NEW v \in Subs, v # u
      PROVE  queue'[v] = queue[v] /\ last'[v] = last[v] /\ Place(v)' = Place(v)
  <2>1. queue'[v] = queue[v] /\ last'[v] = last[v]
    BY <1>1, <1>6
  <2>. QED
    BY <1>1, <2>1, SamePlaces
<1>. QED
  BY <1>1, <1>2, <1>3, <1>4, <1>5, <1>6 DEF Shifted

\* A push leaves positions alone and gives one queue the latest frame of all.
LEMMA PushPlaces ==
  ASSUME IInv, NEW t \in Feeders, DeliverPush(t)
  PROVE  /\ \A f : Index(f)' = Index(f) /\ (Logged(f)' <=> Logged(f))
         /\ \A v \in Subs : Place(v)' = Place(v)
         /\ UNCHANGED <<log, fpc, last, subs>>
         /\ fpc[t] = "push"
         /\ Logged(frame[t]) /\ Index(frame[t]) = Len(log)
<1>1. UNCHANGED <<log, fpc, last, joinedAt, upc, subs>> /\ fpc[t] = "push"
  BY DEF DeliverPush, subVars
<1>2. Logged(frame[t]) /\ Index(frame[t]) = Len(log)
  <2>1. log # <<>> /\ log \in Seq(Frames) /\ frame[t] = log[Len(log)]
    BY <1>1 DEF IInv, TypeOK, Delivering
  <2>2. Len(log) \in 1..Len(log)
    BY <2>1
  <2>. QED
    BY <2>1, <2>2, IndexFacts DEF Logged, IInv
<1>. QED
  BY <1>1, <1>2, SamePlaces

\* A frame joins a queue as the latest of all and leaves it as the first.
LEMMA InOrderPreserved ==
  ASSUME IInv, [Next]_vars
  PROVE InOrder'
<1>. USE DEF InOrder, InOrderAt
<1>0. /\ TypeOK /\ NoFrameTwice /\ Delivering /\ Outsiders /\ InOrder /\ NotYetReached
      /\ last \in [Subs -> Frames \union {NoFrame}]
      /\ queue \in [Subs -> Seq(Frames)]
  BY DEF IInv, TypeOK
<1>1. ASSUME NEW t \in Feeders, DeliverLock(t) PROVE InOrder'
  <2>1. UNCHANGED <<queue, last>>
    BY <1>1 DEF DeliverLock
  <2>. QED
    BY <1>0, <1>1, <2>1, LogGrows
<1>2. ASSUME NEW t \in Feeders, DeliverPush(t) PROVE InOrder'
  <2>0. PICK u \in Subs : u = rest[t][1]
    BY <1>0, <1>2, PushFacts
  <2>1. /\ \A f : Index(f)' = Index(f) /\ (Logged(f)' <=> Logged(f))
        /\ \A v \in Subs : Place(v)' = Place(v)
        /\ UNCHANGED last
        /\ Logged(frame[t]) /\ Index(frame[t]) = Len(log)
    BY <1>2, PushPlaces
  <2>2. /\ queue'[u] \in Seq(Frames)
        /\ \A v \in Subs : v # u => queue'[v] = queue[v]
    BY <1>0, <1>2, <2>0, PushFacts
  <2>3. PICK d \in {0, 1} : ShiftedBehind(u, d, frame[t])
    BY <1>0, <1>2, <2>0, PushFacts
  <2>4. BehindLog(u)
    <3>1. rest[t] \in Seq(Subs) /\ rest[t] # <<>> /\ fpc[t] = "push"
      BY <1>0, <1>2, PushFacts, PushPlaces
    <3>2. 1 \in 1..Len(rest[t])
      BY <3>1
    <3>. QED
      BY <1>0, <2>0, <3>1, <3>2 DEF NotYetReached
  <2>5. ASSUME NEW v \in Subs, v # u PROVE InOrderAt(v)'
    <3>1. queue'[v] = queue[v]
      BY <2>2, <2>5
    <3>. QED
      BY <1>0, <2>1, <3>1
  <2>6. InOrderAt(u)'
    <3>1. InOrderAt(u)
      BY <1>0, <2>2
    <3>2. \A k \in 1..Len(queue'[u]) :
            Logged(queue'[u][k]) /\ Place(u) < Index(queue'[u][k])
      BY <2>1, <2>3, <2>4, <3>1 DEF ShiftedBehind, BehindLog
    <3>3. Len(queue'[u]) \in Nat
      BY <2>2
    <3>4. ASSUME NEW k \in 1..Len(queue'[u]), NEW l \in 1..Len(queue'[u]), k < l
          PROVE  Index(queue'[u][k]) < Index(queue'[u][l])
      <4>1. k + d \in 1..Len(queue[u]) /\ queue'[u][k] = queue[u][k + d]
        BY <2>3, <3>3, <3>4 DEF ShiftedBehind
      <4>2. CASE l + d \in 1..Len(queue[u]) /\ queue'[u][l] = queue[u][l + d]
        BY <3>1, <3>4, <4>1, <4>2
      <4>3. CASE queue'[u][l] = frame[t]
        BY <2>1, <2>4, <4>1, <4>3 DEF BehindLog
      <4>. QED
        BY <2>3, <4>2, <4>3 DEF ShiftedBehind
    <3>5. last'[u] # NoFrame => Logged(last[u])'
      BY <2>1, <3>1
    <3>6. \A k \in 1..Len(queue'[u]) :
            Logged(queue[u][k])' /\ Place(u)' < Index(queue[u][k])'
      BY <2>1, <2>2, <3>2
    <3>7. \A k, l \in 1..Len(queue'[u]) :
            k < l => Index(queue[u][k])' < Index(queue[u][l])'
      BY <2>1, <3>4
    <3>. QED
      BY <3>5, <3>6, <3>7
  <2>. QED
    BY <2>5, <2>6
<1>3. ASSUME NEW t \in Feeders, DeliverUnlock(t) PROVE InOrder'
  <2>1. UNCHANGED <<log, last, joinedAt, upc, queue>>
    BY <1>3 DEF DeliverUnlock, subVars
  <2>. QED
    BY <1>0, <2>1, SamePlaces
<1>4. ASSUME NEW u \in Subs, SubscribeJoin(u) PROVE InOrder'
  <2>1. /\ UNCHANGED <<log, queue, last>> /\ upc[u] # "on"
        /\ \A v \in Subs : v # u => upc'[v] = upc[v] /\ joinedAt'[v] = joinedAt[v]
    BY <1>0, <1>4 DEF SubscribeJoin, TypeOK
  <2>2. queue[u] = <<>> /\ last[u] = NoFrame
    BY <1>0, <2>1 DEF Outsiders
  <2>3. ASSUME NEW v \in Subs, v # u PROVE InOrderAt(v)'
    <3>1. Place(v)' = Place(v)
      BY <2>1, <2>3, SamePlaces
    <3>2. \A f : Index(f)' = Index(f) /\ (Logged(f)' <=> Logged(f))
      BY <2>1, SamePlaces
    <3>. QED
      BY <1>0, <2>1, <3>1, <3>2
  <2>4. InOrderAt(u)'
    BY <2>1, <2>2
  <2>. QED
    BY <2>3, <2>4
<1>5. ASSUME NEW u \in Subs, Receive(u) PROVE InOrder'
  <2>1. ASSUME NEW v \in Subs, v # u PROVE InOrderAt(v)'
    <3>1. /\ queue'[v] = queue[v] /\ last'[v] = last[v] /\ Place(v)' = Place(v)
          /\ \A f : Index(f)' = Index(f) /\ (Logged(f)' <=> Logged(f))
      BY <1>5, <2>1, ReceiveFacts
    <3>. QED
      BY <1>0, <3>1
  <2>2. InOrderAt(u)'
    <3>1. /\ Shifted(u, 1) /\ 1 \in 1..Len(queue[u])
          /\ last'[u] = queue[u][1]
          /\ Place(u)' = Index(queue[u][1])
          /\ \A f : Index(f)' = Index(f) /\ (Logged(f)' <=> Logged(f))
          /\ Len(queue'[u]) \in Nat
      BY <1>5, ReceiveFacts
    <3>2. InOrderAt(u)
      BY <1>0
    <3>3. \A k \in 1..Len(queue'[u]) :
            Logged(queue'[u][k]) /\ Place(u)' < Index(queue'[u][k])
      BY <3>1, <3>2 DEF Shifted
    <3>4. \A k, l \in 1..Len(queue'[u]) :
            k < l => Index(queue'[u][k]) < Index(queue'[u][l])
      BY <3>1, <3>2 DEF Shifted
    <3>. QED
      BY <3>1, <3>2, <3>3, <3>4
  <2>. QED
    BY <2>1, <2>2
<1>6. CASE Quiet
  BY <1>0, <1>6, QuietFacts DEF Quiet
<1>. QED
  BY <1>1, <1>2, <1>3, <1>4, <1>5, <1>6, StepKinds

\* A new broadcast is later than all there is, and nobody else publishes.
LEMMA NotYetReachedPreserved ==
  ASSUME IInv, [Next]_vars
  PROVE NotYetReached'
<1>. USE DEF NotYetReached, BehindLog
<1>0. /\ TypeOK /\ NoFrameTwice /\ Delivering /\ Listed /\ InOrder /\ NotYetReached
      /\ subs \in Seq(Subs) /\ rest \in [Feeders -> Seq(Subs)]
      /\ fpc \in [Feeders -> FeederPlaces]
      /\ queue \in [Subs -> Seq(Frames)] /\ log \in Seq(Frames)
      /\ NoTask \notin Feeders
  BY ListBusAssumption DEF IInv, TypeOK, Feeders
<1>1. ASSUME NEW t \in Feeders, DeliverLock(t) PROVE NotYetReached'
  <2>1. UNCHANGED queue /\ rest'[t] = subs /\ lock = NoTask
        /\ fpc' = [fpc EXCEPT ![t] = "push"]
    BY <1>0, <1>1 DEF DeliverLock, Free
  <2>2. \A s \in Feeders : fpc'[s] = "push" => s = t
    BY <1>0, <2>1 DEF Delivering
  <2>3. ASSUME NEW i \in 1..Len(subs) PROVE BehindLog(subs[i])'
    <3>0. PICK u \in Subs : u = subs[i]
      BY <1>0
    <3>1. upc[u] = "on"
      BY <1>0, <3>0 DEF Listed, AllJoined
    <3>2. Len(log') = Len(log) + 1 /\ Len(log) \in Nat
      BY <1>0, <1>1, LogGrows
    <3>3. Place(u)' < Len(log')
      BY <1>1, <3>1, <3>2, PlaceType, LogGrows
    <3>4. ASSUME NEW k \in 1..Len(queue[u]) PROVE Index(queue[u][k])' < Len(log')
      <4>1. Logged(queue[u][k])
        BY <1>0, <3>1 DEF InOrder, InOrderAt
      <4>2. Index(queue[u][k]) \in 1..Len(log)
        BY <1>0, <4>1, IndexFacts
      <4>3. \A f : Logged(f) => Index(f)' = Index(f)
        BY <1>1, LogGrows
      <4>. QED
        BY <2>1, <3>2, <4>1, <4>2, <4>3
    <3>5. BehindLog(u)'
      BY <2>1, <3>3, <3>4
    <3>6. UNCHANGED subs
      BY <1>1 DEF DeliverLock
    <3>. QED
      BY <3>0, <3>5, <3>6
  <2>4. UNCHANGED subs
    BY <1>1 DEF DeliverLock
  <2>. QED
    BY <2>1, <2>2, <2>3, <2>4
<1>2. ASSUME NEW t \in Feeders, DeliverPush(t) PROVE NotYetReached'
  <2>1. /\ \A f : Index(f)' = Index(f)
        /\ \A v \in Subs : Place(v)' = Place(v)
        /\ UNCHANGED <<log, fpc>> /\ fpc[t] = "push"
    BY <1>2, PushPlaces
  <2>2. /\ rest[t] \in Seq(Subs) /\ rest'[t] \in Seq(Subs)
        /\ Len(rest[t]) = Len(rest'[t]) + 1
        /\ \A i \in 1..Len(rest'[t]) : rest'[t][i] = rest[t][i + 1]
        /\ \A v \in Subs : v # rest[t][1] => queue'[v] = queue[v]
    BY <1>0, <1>2, PushFacts
  <2>3. \A s \in Feeders : fpc[s] = "push" => s = t
    BY <1>0, <2>1 DEF Delivering
  <2>4. ASSUME NEW i \in 1..Len(rest'[t]) PROVE BehindLog(rest[t][i])'
    <3>1. i + 1 \in 1..Len(rest[t]) /\ 1 \in 1..Len(rest[t]) /\ i + 1 # 1
      BY <2>2
    <3>0. PICK v \in Subs : v = rest[t][i + 1]
      BY <2>2, <3>1
    <3>2. v # rest[t][1] /\ rest'[t][i] = v
      BY <1>0, <2>2, <3>0, <3>1 DEF Listed, EachOnce
    <3>3. BehindLog(v)
      BY <1>0, <2>1, <3>0, <3>1
    <3>4. queue'[v] = queue[v] /\ Place(v)' = Place(v)
      BY <2>1, <2>2, <3>2
    <3>5. BehindLog(v)'
      BY <2>1, <3>3, <3>4
    <3>. QED
      BY <3>2, <3>5
  <2>. QED
    BY <2>1, <2>3, <2>4
<1>3. ASSUME NEW t \in Feeders, DeliverUnlock(t) PROVE NotYetReached'
  <2>1. fpc[t] = "push" /\ fpc' = [fpc EXCEPT ![t] = IF t = Reader THEN "top" ELSE "idle"]
    BY <1>3 DEF DeliverUnlock
  <2>2. \A s \in Feeders : fpc'[s] # "push"
    BY <1>0, <2>1 DEF Delivering
  <2>. QED
    BY <2>2
<1>4. ASSUME NEW u \in Subs, SubscribeJoin(u) PROVE NotYetReached'
  <2>1. lock = NoTask /\ UNCHANGED fpc
    BY <1>4 DEF SubscribeJoin, Free, feederVars
  <2>2. \A s \in Feeders : fpc'[s] # "push"
    BY <1>0, <2>1 DEF Delivering
  <2>. QED
    BY <2>2
<1>5. ASSUME NEW u \in Subs, Receive(u) PROVE NotYetReached'
  <2>1. /\ UNCHANGED <<log, fpc, rest>> /\ \A f : Index(f)' = Index(f)
    BY <1>5, ReceiveFacts
  <2>2. ASSUME NEW v \in Subs, BehindLog(v)
        PROVE  /\ Place(v)' < Len(log)
               /\ \A k \in 1..Len(queue'[v]) : Index(queue'[v][k]) < Len(log)
    <3>1. CASE v = u
      BY <1>5, <2>2, <3>1, ReceiveFacts DEF Shifted
    <3>2. CASE v # u
      <4>1. queue'[v] = queue[v] /\ Place(v)' = Place(v)
        BY <1>5, <3>2, ReceiveFacts
      <4>. QED
        BY <2>2, <4>1
    <3>. QED
      BY <3>1, <3>2
  <2>3. ASSUME NEW v \in Subs, BehindLog(v) PROVE BehindLog(v)'
    BY <2>1, <2>2, <2>3
  <2>4. ASSUME NEW s \in Feeders, fpc[s] = "push", NEW i \in 1..Len(rest[s])
        PROVE  BehindLog(rest[s][i])'
    <3>1. PICK v \in Subs : v = rest[s][i]
      BY <1>0, <2>4
    <3>2. BehindLog(v) /\ rest'[s] = rest[s]
      BY <1>0, <2>1, <2>4, <3>1
    <3>3. BehindLog(v)'
      BY <2>3, <3>2
    <3>. QED
      BY <3>1, <3>2, <3>3
  <2>. QED
    BY <2>1, <2>4
<1>6. CASE Quiet
  <2>1. /\ \A f : Index(f)' = Index(f)
        /\ \A u \in Subs : Place(u)' = Place(u)
        /\ UNCHANGED <<log, queue, rest>>
        /\ \A s \in Feeders : (fpc'[s] = "push") <=> (fpc[s] = "push")
    BY <1>6, QuietFacts DEF Quiet
  <2>2. ASSUME NEW s \in Feeders, fpc'[s] = "push", NEW i \in 1..Len(rest[s])
        PROVE  BehindLog(rest[s][i])'
    <3>1. PICK v \in Subs : v = rest[s][i]
      BY <1>0, <2>2
    <3>2. BehindLog(v) /\ rest'[s] = rest[s]
      BY <1>0, <2>1, <2>2, <3>1
    <3>3. BehindLog(v)'
      BY <2>1, <3>2
    <3>. QED
      BY <3>1, <3>2, <3>3
  <2>. QED
    BY <2>1, <2>2
<1>. QED
  BY <1>1, <1>2, <1>3, <1>4, <1>5, <1>6, StepKinds

---------------------------------------------------------------------------
(* The theorems.                                                           *)

\* The invariant holds at the start and through every step.
LEMMA InitInv == Init => IInv
<1>. SUFFICES ASSUME Init PROVE IInv
  OBVIOUS
<1>. USE ListBusAssumption DEF Init, FeederPlaces
<1>1. TypeOK
  <2>1. /\ queue \in [Subs -> Seq(Frames)] /\ log \in Seq(Frames)
        /\ subs \in Seq(Subs) /\ rest \in [Feeders -> Seq(Subs)]
        /\ socket \in Seq(Frames \union {BusOff})
    OBVIOUS
  <2>2. \A u \in Subs : Policy[u] # "Block" => Len(queue[u]) <= Depth[u]
    OBVIOUS
  <2>3. /\ fpc \in [Feeders -> FeederPlaces]
        /\ frame \in [Feeders -> Frames \union {NoFrame, BusOff}]
        /\ upc \in [Subs -> {"new", "refused", "checked", "on"}]
        /\ cpc \in [Closers -> {"idle", "exchanged", "done"}]
        /\ last \in [Subs -> Frames \union {NoFrame}]
        /\ joinedAt \in [Subs -> Nat] /\ subOpen \in [Subs -> BOOLEAN]
    OBVIOUS
  <2>4. lock \in Feeders \union {NoTask} /\ arrived \in 0..MaxArrivals
    OBVIOUS
  <2>. QED
    BY <2>1, <2>2, <2>3, <2>4 DEF TypeOK
<1>2. \A t \in Feeders : fpc[t] \notin {"push", "lock"} /\ ~Holds(t) /\ lock # t
  BY DEF Feeders, Holds
<1>3. Delivering /\ NoFrameTwice /\ SocketIsNew /\ NotYetReached
  BY <1>2 DEF Delivering, NoFrameTwice, SocketIsNew, NotYetReached, EachOnce
<1>4. Listed /\ Outsiders /\ InOrder
  BY DEF Listed, EachOnce, AllJoined, Outsiders, InOrder, InOrderAt
<1>. QED
  BY <1>1, <1>3, <1>4 DEF IInv

LEMMA InvPreserved == IInv /\ [Next]_vars => IInv'
<1>. SUFFICES ASSUME IInv, [Next]_vars PROVE IInv'
  OBVIOUS
<1>1. TypeOK' /\ Delivering' /\ Listed' /\ Outsiders'
  BY TypePreserved, DeliveringPreserved, ListedPreserved, OutsidersPreserved
<1>2. NoFrameTwice' /\ SocketIsNew' /\ InOrder' /\ NotYetReached'
  BY NoFrameTwicePreserved, SocketIsNewPreserved, InOrderPreserved,
     NotYetReachedPreserved
<1>. QED
  BY <1>1, <1>2 DEF IInv

LEMMA InvHolds == Spec => []IInv
BY InitInv, InvPreserved, PTL DEF Spec

\* The fields and locals of both buses keep their types, and a queue that drops
\* stays within its depth.
THEOREM ListBusTypeOK == Spec => []TypeOK
<1>1. IInv => TypeOK
  BY DEF IInv
<1>. QED
  BY <1>1, InvHolds, PTL

\* No error frame is in the socket or with a feeder, and none has been.
NoErrorFrame ==
  /\ socket \in Seq(Frames)
  /\ \A t \in Feeders : frame[t] # BusOff
  /\ ~busOff

\* Whatever the controller does, bus_off is never set, and send() is never refused
\* for it: with the options that SocketCanBus::new sets, no error frame arrives.
THEOREM ListBusNeverBusOff == Spec => []~busOff
<1>1. Init => NoErrorFrame
  BY DEF Init, NoErrorFrame, BusOff, NoFrame
<1>2. ASSUME IInv, NoErrorFrame, [Next]_vars PROVE NoErrorFrame'
  <2>0. /\ socket \in Seq(Frames) /\ ~busOff
        /\ \A t \in Feeders : frame[t] # BusOff
        /\ frame \in [Feeders -> Frames \union {NoFrame, BusOff}]
        /\ \A f \in Frames : f # BusOff
        /\ NoFrame # BusOff /\ arrived \in Nat /\ MaxArrivals \in Nat
        /\ Reader \in Feeders /\ Injectors \subseteq Feeders
    BY <1>2, ListBusAssumption
       DEF NoErrorFrame, IInv, TypeOK, Frames, BusOff, NoFrame, Feeders
  <2>. USE DEF NoErrorFrame, busVars, socketVars, feederVars, subVars
  <2>1. CASE FrameOnWire \/ SendFrame
    <3>0. arrived' = arrived + 1 /\ arrived < MaxArrivals
      BY <2>1 DEF FrameOnWire, SendFrame, FrameArrives
    <3>1. arrived' \in Frames /\ socket' = Append(socket, arrived')
      BY <2>0, <2>1, <3>0 DEF FrameOnWire, SendFrame, FrameArrives, ToSocket, Frames
    <3>2. UNCHANGED <<frame, busOff>>
      BY <2>1 DEF FrameOnWire, SendFrame, FrameArrives
    <3>. QED
      BY <2>0, <3>1, <3>2
  <2>2. CASE ControllerGoesOff
    BY <1>2, <2>0, <2>2, OffUnheard DEF IInv
  <2>3. CASE Read
    <3>1. socket # <<>> => Head(socket) \in Frames /\ Tail(socket) \in Seq(Frames)
      BY <2>0, TailFacts
    <3>. QED
      BY <2>0, <2>3, <3>1 DEF Read
  <2>4. CASE AfterRead
    BY <2>0, <2>4 DEF AfterRead
  <2>5. ASSUME NEW t \in Injectors, Inject(t) PROVE NoErrorFrame'
    <3>1. arrived' \in Frames
      BY <2>0, <2>5 DEF Inject, Frames
    <3>. QED
      BY <2>0, <2>5, <3>1 DEF Inject
  <2>6. CASE SocketFails \/ WriteDone \/ DriverPolls
    BY <2>0, <2>6 DEF SocketFails, WriteDone, DriverPolls
  <2>7. CASE ReaderTop \/ Readable \/ ReadFails \/ ReaderExit \/ Drop
    BY <2>0, <2>7 DEF ReaderTop, Readable, ReadFails, ReaderExit, Drop
  <2>8. ASSUME NEW t \in Feeders, DeliverLock(t) \/ DeliverPush(t) \/ DeliverUnlock(t)
        PROVE  NoErrorFrame'
    BY <2>0, <2>8 DEF DeliverLock, DeliverPush, DeliverUnlock
  <2>9. ASSUME NEW u \in Subs,
               SubscribeCheck(u) \/ SubscribeJoin(u) \/ Receive(u) \/ ReceiverClose(u)
        PROVE  NoErrorFrame'
    BY <2>0, <2>9 DEF SubscribeCheck, SubscribeJoin, Receive, ReceiverClose
  <2>10. ASSUME NEW c \in Closers, CloseExchange(c) \/ CloseSubs(c) PROVE NoErrorFrame'
    BY <2>0, <2>10 DEF CloseExchange, CloseSubs
  <2>11. CASE UNCHANGED vars
    BY <2>0, <2>11 DEF vars
  <2>. HIDE DEF NoErrorFrame
  <2>. QED
    BY <1>2, <2>1, <2>2, <2>3, <2>4, <2>5, <2>6, <2>7, <2>8, <2>9, <2>10, <2>11
       DEF Next, ReaderRuns
<1>3. NoErrorFrame => ~busOff
  BY DEF NoErrorFrame
<1>. QED
  BY <1>1, <1>2, <1>3, InvHolds, PTL DEF Spec

\* The list names whoever has joined, closed or not.
JoinedAreListed == \A u \in Subs : upc[u] = "on" => u \in Members

\* Who holds the lock delivers, and no push waits for a receiver.
HolderGoesOn == lock # NoTask => lock \in Feeders /\ fpc[lock] = "push"

\* The reader that ends, and the close that has won the exchange, when they get the
\* lock, close every receiver that has joined by then.
EndSweeps ==
  [][\/ fpc[Reader] = "exit" /\ fpc'[Reader] = "done"
     \/ \E c \in Closers : cpc[c] = "exchanged" /\ cpc'[c] = "done"
     => \A u \in Subs : upc[u] = "on" => ~subOpen'[u]]_vars

LEMMA JoinedAreListedAlways == Spec => []JoinedAreListed
<1>1. Init => JoinedAreListed
  BY DEF Init, JoinedAreListed
<1>2. IInv /\ JoinedAreListed /\ [Next]_vars => JoinedAreListed'
  <2>. SUFFICES ASSUME IInv, JoinedAreListed, [Next]_vars PROVE JoinedAreListed'
    OBVIOUS
  <2>0. /\ upc \in [Subs -> {"new", "refused", "checked", "on"}]
        /\ subs \in Seq(Subs)
    BY DEF IInv, TypeOK
  <2>. USE DEF JoinedAreListed, Members, ToSet
  <2>1. CASE Quiet
    BY <2>1 DEF Quiet
  <2>2. ASSUME NEW t \in Feeders, DeliverLock(t) \/ DeliverPush(t) \/ DeliverUnlock(t)
        PROVE  JoinedAreListed'
    BY <2>2 DEF DeliverLock, DeliverPush, DeliverUnlock, subVars
  <2>3. ASSUME NEW v \in Subs, Receive(v) PROVE JoinedAreListed'
    BY <2>3 DEF Receive, subVars
  <2>4. ASSUME NEW v \in Subs, SubscribeJoin(v), NEW u \in Subs, upc'[u] = "on"
        PROVE  u \in ToSet(subs')
    <3>1. subs' = Append(subs, v) /\ upc' = [upc EXCEPT ![v] = "on"]
      BY <2>4 DEF SubscribeJoin
    <3>2. /\ Len(subs') = Len(subs) + 1 /\ Len(subs) \in Nat
          /\ subs'[Len(subs) + 1] = v
          /\ \A k \in 1..Len(subs) : subs'[k] = subs[k]
      BY <2>0, <3>1
    <3>3. CASE u = v
      BY <3>2, <3>3
    <3>4. CASE u # v
      <4>1. upc[u] = "on"
        BY <2>0, <2>4, <3>1, <3>4
      <4>2. PICK k \in 1..Len(subs) : u = subs[k]
        BY <4>1
      <4>. QED
        BY <3>2, <4>2
    <3>. QED
      BY <3>3, <3>4
  <2>. QED
    BY <2>1, <2>2, <2>3, <2>4, StepKinds
<1>. QED
  BY <1>1, <1>2, InvHolds, PTL DEF Spec

\* What EndReachesMembers owes to safety, for every number of tasks and subscriptions:
\* the holder of the lock can always go on, and the reader that ends, or the close that
\* gets the lock, leaves none open that has joined.
THEOREM ListBusEndSweeps == Spec => []HolderGoesOn /\ EndSweeps
<1>1. IInv => HolderGoesOn
  BY DEF IInv, TypeOK, Delivering, HolderGoesOn
<1>2. ASSUME IInv, JoinedAreListed, [Next]_vars,
             \/ fpc[Reader] = "exit" /\ fpc'[Reader] = "done"
             \/ \E c \in Closers : cpc[c] = "exchanged" /\ cpc'[c] = "done",
             NEW u \in Subs, upc[u] = "on"
      PROVE  ~subOpen'[u]
  <2>0. /\ cpc \in [Closers -> {"idle", "exchanged", "done"}]
        /\ fpc \in [Feeders -> FeederPlaces]
        /\ Reader \in Feeders /\ Injectors \subseteq Feeders
        /\ u \in Members
    BY <1>2 DEF IInv, TypeOK, Feeders, JoinedAreListed
  <2>1. CASE ReaderExit \/ \E c \in Closers : CloseSubs(c)
    BY <2>0, <2>1 DEF ReaderExit, CloseSubs, OpenAfterClose
  <2>2. CASE FrameOnWire \/ SendFrame \/ ControllerGoesOff
    BY <1>2, <2>2, OffUnheard
       DEF FrameOnWire, SendFrame, FrameArrives, feederVars, IInv
  <2>3. CASE SocketFails \/ WriteDone \/ DriverPolls \/ Drop
    BY <1>2, <2>3 DEF SocketFails, WriteDone, DriverPolls, Drop, feederVars
  <2>4. CASE ReaderRuns
    BY <1>2, <2>0, <2>4
       DEF ReaderRuns, ReaderTop, Readable, Read, ReadFails, AfterRead
  <2>5. ASSUME NEW t \in Injectors, Inject(t) PROVE FALSE
    BY <1>2, <2>0, <2>5 DEF Inject
  <2>6. ASSUME NEW t \in Feeders, DeliverLock(t) \/ DeliverPush(t) \/ DeliverUnlock(t)
        PROVE  FALSE
    BY <1>2, <2>0, <2>6 DEF DeliverLock, DeliverPush, DeliverUnlock
  <2>7. ASSUME NEW v \in Subs,
               SubscribeCheck(v) \/ SubscribeJoin(v) \/ Receive(v) \/ ReceiverClose(v)
        PROVE  FALSE
    BY <1>2, <2>7 DEF SubscribeCheck, SubscribeJoin, Receive, ReceiverClose, feederVars
  <2>8. ASSUME NEW c \in Closers, CloseExchange(c) PROVE FALSE
    BY <1>2, <2>0, <2>8 DEF CloseExchange, feederVars
  <2>9. CASE UNCHANGED vars
    BY <1>2, <2>9 DEF vars, feederVars
  <2>. QED
    BY <1>2, <2>1, <2>2, <2>3, <2>4, <2>5, <2>6, <2>7, <2>8, <2>9 DEF Next
<1>3. IInv /\ JoinedAreListed /\ [Next]_vars =>
        (\/ fpc[Reader] = "exit" /\ fpc'[Reader] = "done"
         \/ \E c \in Closers : cpc[c] = "exchanged" /\ cpc'[c] = "done"
         => \A u \in Subs : upc[u] = "on" => ~subOpen'[u])
  BY <1>2
<1>4. Spec => []HolderGoesOn
  BY <1>1, InvHolds, PTL
<1>5. Spec => EndSweeps
  BY <1>3, InvHolds, JoinedAreListedAlways, PTL DEF Spec, EndSweeps
<1>. QED
  BY <1>4, <1>5

\* The subscribers of SocketCanBus and of MockBus see each frame once at most, and
\* all in the one order of the broadcasts: a delivery publishes its frame when it
\* takes the lock on the list, joining and receiving are what they are in
\* BroadcastBus, and nothing else is seen there.
THEOREM ListBusBroadcast == Spec => ImplementsBroadcast
<1>. DEFINE place == [u \in Subs |-> Place(u)]
<1>1. Init => Broadcast!Init
  BY DEF Init, Broadcast!Init, Broadcast!NotJoined, Place
<1>2. ASSUME IInv, [Next]_vars PROVE [Broadcast!Next]_Broadcast!vars
  <2>1. ASSUME NEW t \in Feeders, DeliverLock(t)
        PROVE  frame[t] \in Frames /\ Broadcast!Publish(frame[t])
    <3>1. frame[t] \in Frames /\ \A i \in 1..Len(log) : log[i] # frame[t]
      BY <1>2, <2>1 DEF IInv, NoFrameTwice, Holds, DeliverLock
    <3>2. log' = Append(log, frame[t])
      BY <2>1 DEF DeliverLock
    <3>3. \A u \in Subs : Place(u)' = Place(u)
      BY <1>2, <2>1, LogGrows
    <3>. QED
      BY <3>1, <3>2, <3>3 DEF Broadcast!Publish
  <2>2. ASSUME NEW u \in Subs, SubscribeJoin(u) PROVE Broadcast!Join(u)
    <3>1. /\ UNCHANGED <<log, last>> /\ upc[u] # "on" /\ last[u] = NoFrame
          /\ upc'[u] = "on" /\ joinedAt'[u] = Len(log)
          /\ \A v \in Subs : v # u =>
               joinedAt'[v] = joinedAt[v] /\ upc'[v] = upc[v]
      BY <1>2, <2>2 DEF IInv, TypeOK, Outsiders, SubscribeJoin
    <3>2. Place(u) = -1 /\ Place(u)' = Len(log)
      BY <3>1 DEF Place
    <3>3. \A v \in Subs : v # u => Place(v)' = Place(v)
      BY <3>1, SamePlaces
    <3>. QED
      BY <3>1, <3>2, <3>3 DEF Broadcast!Join, Broadcast!NotJoined
  <2>3. ASSUME NEW u \in Subs, Receive(u) PROVE Broadcast!Read(u)
    <3>. DEFINE i == Index(queue[u][1])
    <3>1. /\ upc[u] = "on" /\ 1 \in 1..Len(queue[u])
          /\ Place(u)' = i
          /\ \A v \in Subs : v # u => Place(v)' = Place(v)
          /\ UNCHANGED log
      BY <1>2, <2>3, ReceiveFacts
    <3>2. Logged(queue[u][1]) /\ Place(u) < i
      BY <1>2, <3>1 DEF IInv, InOrder, InOrderAt
    <3>3. Place(u) \in 0..Len(log) /\ log \in Seq(Frames)
      BY <1>2, <3>1, PlaceType, IndexFacts DEF IInv
    <3>4. i \in (Place(u) + 1)..Len(log)
      BY <1>2, <3>2, <3>3, IndexFacts DEF IInv
    <3>. HIDE DEF i
    <3>5. place' = [place EXCEPT ![u] = i]
      BY <3>1
    <3>6. place[u] = Place(u) /\ place[u] # -1
      BY <3>3
    <3>. HIDE DEF place
    <3>. QED
      BY <3>1, <3>4, <3>5, <3>6 DEF Broadcast!Read, Broadcast!NotJoined, place
  <2>4. CASE Quiet \/ \E t \in Feeders : DeliverPush(t) \/ DeliverUnlock(t)
    <3>1. UNCHANGED log /\ \A u \in Subs : Place(u)' = Place(u)
      <4>1. CASE Quiet
        BY <4>1, QuietFacts DEF Quiet
      <4>2. CASE \E t \in Feeders : DeliverPush(t) \/ DeliverUnlock(t)
        <5>1. UNCHANGED <<log, last, joinedAt, upc>>
          BY <4>2 DEF DeliverPush, DeliverUnlock, subVars
        <5>. QED
          BY <5>1, SamePlaces
      <4>. QED
        BY <2>4, <4>1, <4>2
    <3>. QED
      BY <3>1 DEF Broadcast!vars
  <2>. QED
    BY <1>2, <2>1, <2>2, <2>3, <2>4, StepKinds DEF Broadcast!Next
<1>. QED
  BY <1>1, <1>2, InvHolds, PTL DEF Spec, ImplementsBroadcast, Broadcast!Spec
=============================================================================
