------------------------------ MODULE SubQueue ------------------------------
(***************************************************************************)
(* One subscriber channel of a bus: SubInner and FrameReceiver of          *)
(* src/bus.rs.  A sender pushes frames, tasks call recv() on the receiver, *)
(* and the bus or the receiver's owner closes the channel.                 *)
(*                                                                         *)
(* recv() is cut into the steps between which another thread can run: the  *)
(* pop under the queue lock, the load of `closed`, the final pop, and the  *)
(* await on the Notify.  push() is one step because it notifies while it   *)
(* holds the queue lock, and pushes to one channel never overlap (the bus  *)
(* holds its own lock).  close() is two: the store, then notify_waiters(). *)
(*                                                                         *)
(* Frames are numbered in the order they are offered.  accepted, taken,    *)
(* closeMark and ended are history, read by the properties alone.          *)
(***************************************************************************)
EXTENDS PushRules

CONSTANTS
  Receivers,  \* tasks that may call recv() on the one FrameReceiver
  Closers,    \* callers of SubInner::close: Bus::close, FrameReceiver::close
  Capacity,   \* channel depth; chan_depth() never returns 0
  RateLimit,  \* rate_limit_per_sec, 0 = unlimited
  MaxFrames   \* bound on the number of frames offered

ASSUME SubQueueAssumption ==
  /\ Capacity \in Nat \ {0}
  /\ RateLimit \in Nat
  /\ MaxFrames \in Nat

VARIABLES
  policy,     \* SubInner.policy, fixed when the channel is made
  queue,      \* SubInner.queue
  closed,     \* SubInner.closed
  rateCount,  \* SubInner.rate_state.count
  permit,     \* the one notification a tokio Notify stores
  pc,         \* where each receiver task is
  cpc,        \* where each closer is
  offered,    \* number of frames offered so far
  accepted,   \* frames for which push() returned true
  taken,      \* frames that recv() returned
  closeMark,  \* value of offered when the channel was closed
  ended       \* some recv() has returned None

vars == <<policy, queue, closed, rateCount, permit, pc, cpc,
          offered, accepted, taken, closeMark, ended>>

Frames == 1..MaxFrames

Queued == {queue[i] : i \in 1..Len(queue)}

\* idle: not in recv(); pop, check, final, listen: before the pop, the load
\* of closed, the final pop and notified().await; parked: registered with the
\* Notify; notified, released: woken by notify_one and by notify_waiters.
RecvStates == {"idle", "pop", "check", "final", "listen",
               "parked", "notified", "released"}

CloseStates == {"idle", "stored", "done"}

Init ==
  /\ policy \in Policies
  /\ queue = <<>>
  /\ closed = FALSE
  /\ rateCount = 0
  /\ permit = FALSE
  /\ pc = [t \in Receivers |-> "idle"]
  /\ cpc = [c \in Closers |-> "idle"]
  /\ offered = 0
  /\ accepted = {}
  /\ taken = {}
  /\ closeMark = 0
  /\ ended = FALSE

---------------------------------------------------------------------------
(* Variants with one bug each.                                             *)

\* As if push() called notify_waiters(), which stores no permit.
NotifyOneNoPermit ==
  /\ pc' = [t \in Receivers |-> IF pc[t] = "parked" THEN "released" ELSE pc[t]]
  /\ UNCHANGED permit

NotifyOneDropped == UNCHANGED <<pc, permit>>

NotifyWaitersDropped == UNCHANGED pc

FinalPopSkipped(t) ==
  /\ pc[t] = "final"
  /\ ended' = TRUE
  /\ pc' = [pc EXCEPT ![t] = "idle"]
  /\ UNCHANGED <<policy, queue, closed, rateCount, permit, cpc, offered,
                 accepted, taken, closeMark>>

---------------------------------------------------------------------------
(* tokio::sync::Notify.  notify_one() wakes one registered task or, when   *)
(* none is registered, stores a permit; notify_waiters() wakes the         *)
(* registered tasks and stores nothing.                                    *)

Parked == {t \in Receivers : pc[t] = "parked"}

NotifyOne ==
  \/ /\ \E t \in Parked : pc' = [pc EXCEPT ![t] = "notified"]
     /\ UNCHANGED permit
  \/ /\ Parked = {}
     /\ permit' = TRUE
     /\ UNCHANGED pc

NotifyWaiters ==
  pc' = [t \in Receivers |-> IF pc[t] = "parked" THEN "released" ELSE pc[t]]

---------------------------------------------------------------------------
(* push()                                                                  *)

\* The frame passes the limiter and the policy.
PushAccepted ==
  /\ offered < MaxFrames
  /\ \E expired \in BOOLEAN :
       /\ Admits(RateLimit, rateCount, expired)
       /\ rateCount' = CountAfter(RateLimit, rateCount, expired)
  /\ Accepts(policy, queue, Capacity)
  /\ queue' = Enqueue(policy, queue, Capacity, offered + 1)
  /\ offered' = offered + 1
  /\ accepted' = accepted \union {offered + 1}
  /\ NotifyOne
  /\ UNCHANGED <<policy, closed, cpc, taken, closeMark, ended>>

\* The limiter or the policy refuses the frame: push() returns false.
PushRefused ==
  /\ offered < MaxFrames
  /\ \E expired \in BOOLEAN :
       /\ Admits(RateLimit, rateCount, expired) => ~Accepts(policy, queue, Capacity)
       /\ rateCount' = CountAfter(RateLimit, rateCount, expired)
  /\ offered' = offered + 1
  /\ UNCHANGED <<policy, queue, closed, permit, pc, cpc, accepted, taken,
                 closeMark, ended>>

---------------------------------------------------------------------------
(* recv()                                                                  *)

\* What a pop that finds a frame does, in the loop or as the final pop.
TakeFront(t) ==
  /\ queue # <<>>
  /\ taken' = taken \union {Head(queue)}
  /\ queue' = Tail(queue)
  /\ pc' = [pc EXCEPT ![t] = "idle"]
  /\ UNCHANGED ended

CallRecv(t) ==
  /\ pc[t] = "idle"
  /\ pc' = [pc EXCEPT ![t] = "pop"]
  /\ UNCHANGED <<policy, queue, closed, rateCount, permit, cpc, offered,
                 accepted, taken, closeMark, ended>>

Pop(t) ==
  /\ pc[t] = "pop"
  /\ \/ TakeFront(t)
     \/ /\ queue = <<>>
        /\ pc' = [pc EXCEPT ![t] = "check"]
        /\ UNCHANGED <<queue, taken, ended>>
  /\ UNCHANGED <<policy, closed, rateCount, permit, cpc, offered, accepted,
                 closeMark>>

CheckClosed(t) ==
  /\ pc[t] = "check"
  /\ pc' = [pc EXCEPT ![t] = IF closed THEN "final" ELSE "listen"]
  /\ UNCHANGED <<policy, queue, closed, rateCount, permit, cpc, offered,
                 accepted, taken, closeMark, ended>>

\* `return self.inner.pop()`: a frame, or None and the stream has ended.
FinalPop(t) ==
  /\ pc[t] = "final"
  /\ \/ TakeFront(t)
     \/ /\ queue = <<>>
        /\ ended' = TRUE
        /\ pc' = [pc EXCEPT ![t] = "idle"]
        /\ UNCHANGED <<queue, taken>>
  /\ UNCHANGED <<policy, closed, rateCount, permit, cpc, offered, accepted,
                 closeMark>>

\* notified().await: take the stored permit, or register and wait.
Listen(t) ==
  /\ pc[t] = "listen"
  /\ permit' = FALSE
  /\ pc' = [pc EXCEPT ![t] = IF permit THEN "pop" ELSE "parked"]
  /\ UNCHANGED <<policy, queue, closed, rateCount, cpc, offered, accepted,
                 taken, closeMark, ended>>

Resume(t) ==
  /\ pc[t] \in {"notified", "released"}
  /\ pc' = [pc EXCEPT ![t] = "pop"]
  /\ UNCHANGED <<policy, queue, closed, rateCount, permit, cpc, offered,
                 accepted, taken, closeMark, ended>>

\* The recv() future is dropped at its await, as tokio::time::timeout does in
\* the ISO-TP layer.  A Notified future that holds a notification from
\* notify_one passes it on when it is dropped.
Cancel(t) ==
  /\ \/ /\ pc[t] \in {"parked", "released"}
        /\ pc' = [pc EXCEPT ![t] = "idle"]
        /\ UNCHANGED permit
     \/ /\ pc[t] = "notified"
        /\ \E u \in Parked : pc' = [pc EXCEPT ![t] = "idle", ![u] = "notified"]
        /\ UNCHANGED permit
     \/ /\ pc[t] = "notified"
        /\ Parked = {}
        /\ pc' = [pc EXCEPT ![t] = "idle"]
        /\ permit' = TRUE
  /\ UNCHANGED <<policy, queue, closed, rateCount, cpc, offered, accepted,
                 taken, closeMark, ended>>

---------------------------------------------------------------------------
(* close()                                                                 *)

StoreClosed(c) ==
  /\ cpc[c] = "idle"
  /\ cpc' = [cpc EXCEPT ![c] = "stored"]
  /\ closed' = TRUE
  /\ closeMark' = IF closed THEN closeMark ELSE offered
  /\ UNCHANGED <<policy, queue, rateCount, permit, pc, offered, accepted,
                 taken, ended>>

WakeWaiters(c) ==
  /\ cpc[c] = "stored"
  /\ cpc' = [cpc EXCEPT ![c] = "done"]
  /\ NotifyWaiters
  /\ UNCHANGED <<policy, queue, closed, rateCount, permit, offered, accepted,
                 taken, closeMark, ended>>

---------------------------------------------------------------------------

\* What the runtime drives by itself once recv() has been called.
RecvStep(t) == Pop(t) \/ CheckClosed(t) \/ FinalPop(t) \/ Listen(t) \/ Resume(t)

Next ==
  \/ PushAccepted
  \/ PushRefused
  \/ \E t \in Receivers : CallRecv(t) \/ RecvStep(t) \/ Cancel(t)
  \/ \E c \in Closers : StoreClosed(c) \/ WakeWaiters(c)

\* Code between two awaits runs on, and the executor polls a woken task.  No
\* one has to push, to call recv(), to drop a recv() or to close.
Fairness ==
  /\ \A t \in Receivers : WF_vars(RecvStep(t))
  /\ \A c \in Closers : WF_vars(WakeWaiters(c))

Spec == Init /\ [][Next]_vars /\ Fairness

---------------------------------------------------------------------------
(* Safety                                                                  *)

\* Every variable keeps the type of the field it models.
FieldTypes ==
  /\ policy \in Policies
  /\ queue \in Seq(Frames)
  /\ closed \in BOOLEAN
  /\ rateCount \in 0..RateLimit
  /\ permit \in BOOLEAN
  /\ pc \in [Receivers -> RecvStates]
  /\ cpc \in [Closers -> CloseStates]
  /\ offered \in 0..MaxFrames
  /\ accepted \in SUBSET Frames
  /\ taken \in SUBSET Frames
  /\ closeMark \in 0..MaxFrames
  /\ ended \in BOOLEAN

\* The queue of a dropping policy never outgrows the channel depth, whatever
\* pushes, pops, evictions and cancelled receives are interleaved.
QueueBounded == policy # "Block" => Len(queue) <= Capacity

\* The fields and locals keep their types, and the bound.
TypeOK == FieldTypes /\ QueueBounded

\* recv() hands frames out in the order push() let them in, each at most once:
\* what is queued is in order and later than everything already taken.
FifoDelivery ==
  /\ \A i, j \in 1..Len(queue) : i < j => queue[i] < queue[j]
  /\ \A f \in taken, i \in 1..Len(queue) : f < queue[i]

\* A frame for which push() returned true is lost in one way only: DropOldest
\* evicts it, and then everything still queued is younger.
LossOnlyByEviction ==
  /\ taken \union Queued \subseteq accepted
  /\ \A f \in accepted \ (taken \union Queued) :
       /\ policy = "DropOldest"
       /\ \A i \in 1..Len(queue) : f < queue[i]

\* A receiver with a single task never sleeps on a non-empty queue: no
\* notification is lost between its pop and its await, not even when earlier
\* recv() futures were dropped.
SingleReceiver == \A t, u \in Receivers : t = u

NoLostWakeup ==
  SingleReceiver => \A t \in Receivers : pc[t] = "parked" => queue = <<>>

\* None means drained: once a recv() has returned None, no frame that was
\* accepted before the close is left in the queue ("One final check in case a
\* frame arrived between pop and load").
EndOfStreamDrained ==
  ended => closed /\ \A i \in 1..Len(queue) : queue[i] > closeMark

---------------------------------------------------------------------------
(* Liveness                                                                *)

\* A recv() that is running while a frame is queued comes to an end.
WaitingFrameIsTaken ==
  \A t \in Receivers : (pc[t] # "idle" /\ queue # <<>>) ~> (pc[t] = "idle")

\* The close that a task can see: it has yet to load `closed`, or is registered
\* with the Notify when notify_waiters() runs.
SeesClose(t) ==
  /\ closed
  /\ pc[t] # "listen"
  /\ pc[t] = "parked" => \E c \in Closers : cpc[c] = "stored"

\* close() ends every recv() that can see it.
CloseEndsRecv == \A t \in Receivers : SeesClose(t) ~> (pc[t] = "idle")

\* "Close this subscriber channel, unblocking any waiting receivers": after the
\* close every recv() returns.
CloseUnblocksReceivers ==
  \A t \in Receivers : (closed /\ pc[t] # "idle") ~> (pc[t] = "idle")
=============================================================================
