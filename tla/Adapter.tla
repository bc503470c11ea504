------------------------------- MODULE Adapter -------------------------------
(***************************************************************************)
(* A subscription through the relay adapter of src/adapt.rs.  A frame goes *)
(* from the bus into a subscriber channel (twice the caller's depth,       *)
(* DropNewest), from there through the producer task into an AdaptQueue    *)
(* under the caller's policy, and from there through the forwarder task    *)
(* into an mpsc channel with one place, which the caller reads.            *)
(*                                                                         *)
(* push() and pop() of AdaptQueue are cut at their awaits, and pop() also  *)
(* between the lock and the load of `closed`; the recv() by which the      *)
(* producer waits on the subscriber channel is cut as in SubQueue.         *)
(* subscribe() and close() of the bus overlap as in VirtualBus and in      *)
(* ListBus: a subscription may join the list when the bus is already       *)
(* closed, and what no sweep of the list has closed may still get frames.  *)
(*                                                                         *)
(* Frames are numbered as they arrive at the subscriber channel.           *)
(***************************************************************************)
EXTENDS PushRules, SequencesExt

CONSTANTS
  Depth,      \* opts.chan_depth(64), never 0
  MaxFrames,  \* bound on the number of frames that arrive
  NoMsg       \* a task that holds no message

ASSUME AdapterAssumption ==
  /\ Depth \in Nat \ {0}
  /\ MaxFrames \in Nat
  /\ NoMsg \notin [seq : Nat, frame : Nat]

VARIABLES
  policy,     \* opts.back_pressure
  bus,        \* how far Bus::close is: the bus is closed once it is not "open"
  inner, innerClosed,     \* SubInner.queue and .closed of the bus subscription
  innerPermit,            \* the notification stored in SubInner.notify
  seq,        \* the producer's counter
  queue, closed,          \* AdaptQueue.queue and .closed
  pushPermit, popPermit,  \* the notification stored in notify_push, notify_pop
  ppc, produced,          \* the producer, and the message it pushes
  fpc, held,              \* the forwarder, and the message it sends on
  channel,    \* the mpsc channel
  caller,     \* "reads", "dropped" the receiver, or has seen the "end"
  got,        \* history: messages that the caller received
  arrived,    \* history: frames that arrived
  numbered    \* history: frames that the producer took

innerVars == <<inner, innerClosed, innerPermit, arrived>>
queueVars == <<queue, closed, pushPermit, popPermit>>
callerVars == <<caller, got>>

vars == <<policy, bus, innerVars, seq, queueVars, ppc, produced, fpc, held, channel,
          callerVars, numbered>>

Init ==
  /\ policy \in Policies
  /\ bus = "open"
  /\ inner = <<>> /\ innerClosed = FALSE /\ innerPermit = FALSE /\ arrived = 0
  /\ seq = 0 /\ numbered = <<>>
  /\ queue = <<>> /\ closed = FALSE
  /\ pushPermit = FALSE /\ popPermit = FALSE
  /\ ppc = "unborn" /\ produced = NoMsg
  /\ fpc = "unborn" /\ held = NoMsg
  /\ channel = <<>>
  /\ caller = "reads" /\ got = <<>>

---------------------------------------------------------------------------
(* Variants with one bug each.                                             *)

\* A Block push that does not look at the queue again after its wait.
RoomOnce == ~IsFull(queue, Depth) \/ popPermit

\* pop() tells no one that there is room.
NotifyPopDropped == UNCHANGED <<popPermit, ppc>>

\* The task that pushes numbers what it could push, not what it took.
SeqStays == UNCHANGED seq

---------------------------------------------------------------------------

\* The three Notify, each with one task that waits for it: the notification
\* wakes that task or is stored.
NotifyPush ==
  /\ fpc' = IF fpc = "parked" THEN "pop" ELSE fpc
  /\ pushPermit' = (pushPermit \/ fpc # "parked")

NotifyPop ==
  /\ ppc' = IF ppc = "parked" THEN "push" ELSE ppc
  /\ popPermit' = (popPermit \/ ppc # "parked")

NotifyInner ==
  /\ ppc' = IF ppc = "waiting" THEN "recv" ELSE ppc
  /\ innerPermit' = (innerPermit \/ ppc # "waiting")

---------------------------------------------------------------------------
(* CanAdapter                                                              *)

\* The subscription is on the bus's list, and its two tasks run.
Joined == ppc \notin {"unborn", "subscribing"}

\* subscribe() on a closed bus is an error, and there are no tasks.
SubscribeCheck ==
  /\ ppc = "unborn"
  /\ bus = "open"
  /\ ppc' = "subscribing"
  /\ UNCHANGED <<policy, bus, innerVars, seq, queueVars, produced, fpc, held,
                 channel, callerVars, numbered>>

\* The lock on the list is taken: `closed` is not looked at again.
SubscribeJoin ==
  /\ ppc = "subscribing"
  /\ ppc' = "recv"
  /\ fpc' = "pop"
  /\ UNCHANGED <<policy, bus, innerVars, seq, queueVars, produced, held, channel,
                 callerVars, numbered>>

\* close() closes the bus,
CloseExchange ==
  /\ bus = "open"
  /\ bus' = "exchanged"
  /\ UNCHANGED <<policy, innerVars, seq, queueVars, ppc, produced, fpc, held,
                 channel, callerVars, numbered>>

\* and under its lock every subscription on the list: the store of `closed`,
CloseSub ==
  /\ bus = "exchanged"
  /\ bus' = IF Joined THEN "stored" ELSE "done"
  /\ innerClosed' = Joined
  /\ UNCHANGED <<policy, inner, innerPermit, arrived, seq, queueVars, ppc, produced,
                 fpc, held, channel, callerVars, numbered>>

\* then notify_waiters(), which stores nothing.
WakeProducer ==
  /\ bus = "stored"
  /\ bus' = "done"
  /\ ppc' = IF ppc = "waiting" THEN "recv" ELSE ppc
  /\ UNCHANGED <<policy, innerVars, seq, queueVars, produced, fpc, held, channel,
                 callerVars, numbered>>

\* A broadcast reaches the subscription: DropNewest, depth * 2.  A send that
\* tested `closed` in time, and inject() of the mock bus in any case, still
\* deliver to an open channel when the bus is closed.
FrameArrives ==
  /\ Joined /\ ~innerClosed
  /\ arrived < MaxFrames
  /\ arrived' = arrived + 1
  /\ \/ /\ Accepts("DropNewest", inner, 2 * Depth)
        /\ inner' = Enqueue("DropNewest", inner, 2 * Depth, arrived + 1)
        /\ NotifyInner
     \/ /\ ~Accepts("DropNewest", inner, 2 * Depth)
        /\ UNCHANGED <<inner, innerPermit, ppc>>
  /\ UNCHANGED <<policy, bus, innerClosed, seq, queueVars, produced, fpc, held,
                 channel, callerVars, numbered>>

---------------------------------------------------------------------------
(* The producer task, with AdaptQueue::push and AdaptQueue::close          *)

CountSeq == seq' = seq + 1

\* recv() finds a frame, at its first pop or at the final one.
Produce ==
  /\ ppc \in {"recv", "final"} /\ inner # <<>>
  /\ inner' = Tail(inner)
  /\ produced' = [seq |-> seq, frame |-> Head(inner)]
  /\ numbered' = Append(numbered, Head(inner))
  /\ CountSeq
  /\ ppc' = "push"
  /\ UNCHANGED <<policy, bus, innerClosed, innerPermit, arrived, queueVars, fpc, held,
                 channel, callerVars>>

FindNothing ==
  /\ ppc = "recv" /\ inner = <<>>
  /\ ppc' = "check"
  /\ UNCHANGED <<policy, bus, innerVars, seq, queueVars, produced, fpc, held, channel,
                 callerVars, numbered>>

CheckInner ==
  /\ ppc = "check"
  /\ ppc' = IF innerClosed THEN "final" ELSE "listen"
  /\ UNCHANGED <<policy, bus, innerVars, seq, queueVars, produced, fpc, held, channel,
                 callerVars, numbered>>

\* notify.notified().await
ListenInner ==
  /\ ppc = "listen"
  /\ ppc' = IF innerPermit THEN "recv" ELSE "waiting"
  /\ innerPermit' = FALSE
  /\ UNCHANGED <<policy, bus, inner, innerClosed, arrived, seq, queueVars, produced,
                 fpc, held, channel, callerVars, numbered>>

\* The frame goes in, or DropNewest drops it.
HasRoom == ~IsFull(queue, Depth)

PushDone ==
  /\ ppc' = "recv"
  /\ produced' = NoMsg
  /\ UNCHANGED <<policy, bus, innerVars, seq, closed, popPermit, held, channel,
                 callerVars, numbered>>

Push ==
  /\ ppc = "push"
  /\ \/ /\ HasRoom \/ policy = "DropOldest"
        /\ queue' = Enqueue(policy, queue, Depth, produced)
        /\ NotifyPush
     \/ /\ policy = "DropNewest" /\ ~HasRoom
        /\ UNCHANGED <<queue, pushPermit, fpc>>
  /\ PushDone

\* notify_pop.notified().await
WaitForRoom ==
  /\ ppc = "push"
  /\ policy = "Block" /\ ~HasRoom
  /\ ppc' = IF popPermit THEN "push" ELSE "parked"
  /\ popPermit' = FALSE
  /\ UNCHANGED <<policy, bus, innerVars, seq, queue, closed, pushPermit, produced, fpc,
                 held, channel, callerVars, numbered>>

\* recv() returns None.
ProducerEnds ==
  /\ ppc = "final" /\ inner = <<>>
  /\ closed' = TRUE
  /\ ppc' = "closing"
  /\ UNCHANGED <<policy, bus, innerVars, seq, queue, pushPermit, popPermit, produced,
                 fpc, held, channel, callerVars, numbered>>

\* notify_waiters() stores nothing.
WakeForwarder ==
  /\ ppc = "closing"
  /\ ppc' = "done"
  /\ fpc' = IF fpc = "parked" THEN "pop" ELSE fpc
  /\ UNCHANGED <<policy, bus, innerVars, seq, queueVars, produced, held, channel,
                 callerVars, numbered>>

---------------------------------------------------------------------------
(* The forwarder task, with AdaptQueue::pop                                *)

TakeFront ==
  /\ queue # <<>>
  /\ queue' = Tail(queue)
  /\ held' = Head(queue)
  /\ fpc' = "send"

Pop ==
  /\ fpc = "pop"
  /\ \/ TakeFront /\ NotifyPop
     \/ /\ queue = <<>>
        /\ fpc' = "check"
        /\ UNCHANGED <<queue, held, popPermit, ppc>>
  /\ UNCHANGED <<policy, bus, innerVars, seq, closed, pushPermit, produced, channel,
                 callerVars, numbered>>

CheckClosed ==
  /\ fpc = "check"
  /\ fpc' = IF closed THEN "final" ELSE "listen"
  /\ UNCHANGED <<policy, bus, innerVars, seq, queueVars, ppc, produced, held, channel,
                 callerVars, numbered>>

\* "One final check in case a push raced with the close."
FinalPop ==
  /\ fpc = "final"
  /\ \/ TakeFront
     \/ queue = <<>> /\ fpc' = "done" /\ UNCHANGED <<queue, held>>
  /\ UNCHANGED <<policy, bus, innerVars, seq, closed, pushPermit, popPermit, ppc,
                 produced, channel, callerVars, numbered>>

\* notify_push.notified().await
Listen ==
  /\ fpc = "listen"
  /\ fpc' = IF pushPermit THEN "pop" ELSE "parked"
  /\ pushPermit' = FALSE
  /\ UNCHANGED <<policy, bus, innerVars, seq, queue, closed, popPermit, ppc, produced,
                 held, channel, callerVars, numbered>>

\* tx.send(msg).await: there is a place, or the receiver is gone.
Forward ==
  /\ fpc = "send"
  /\ \/ /\ caller = "dropped"
        /\ fpc' = "done"
        /\ UNCHANGED channel
     \/ /\ caller # "dropped" /\ channel = <<>>
        /\ channel' = <<held>>
        /\ fpc' = "pop"
  /\ held' = NoMsg
  /\ UNCHANGED <<policy, bus, innerVars, seq, queueVars, ppc, produced, callerVars,
                 numbered>>

---------------------------------------------------------------------------
(* The caller, with the receiver that subscribe() returned                 *)

CallerRecv ==
  /\ caller = "reads"
  /\ \/ /\ channel # <<>>
        /\ got' = Append(got, Head(channel))
        /\ channel' = <<>>
        /\ UNCHANGED caller
     \/ /\ channel = <<>> /\ fpc = "done"
        /\ caller' = "end"
        /\ UNCHANGED <<got, channel>>
  /\ UNCHANGED <<policy, bus, innerVars, seq, queueVars, ppc, produced, fpc, held,
                 numbered>>

CallerDrops ==
  /\ caller = "reads" /\ Joined
  /\ caller' = "dropped"
  /\ channel' = <<>>
  /\ UNCHANGED <<policy, bus, innerVars, seq, queueVars, ppc, produced, fpc, held, got,
                 numbered>>

---------------------------------------------------------------------------

CloseStep == CloseSub \/ WakeProducer

ProducerStep ==
  \/ Produce \/ FindNothing \/ CheckInner \/ ListenInner
  \/ Push \/ WaitForRoom
  \/ ProducerEnds \/ WakeForwarder

ForwarderStep == Pop \/ CheckClosed \/ FinalPop \/ Listen \/ Forward

Next ==
  \/ SubscribeCheck \/ SubscribeJoin \/ FrameArrives
  \/ CloseExchange \/ CloseStep
  \/ ProducerStep \/ ForwarderStep
  \/ CallerRecv \/ CallerDrops

\* The runtime polls a task that can go on, a close() that has begun included.
\* The caller reads until it drops the receiver.  No one has to close the bus or
\* to drop anything.
Fairness ==
  /\ WF_vars(CloseStep)
  /\ WF_vars(ProducerStep)
  /\ WF_vars(ForwarderStep)
  /\ WF_vars(CallerRecv)

Spec == Init /\ [][Next]_vars /\ Fairness

---------------------------------------------------------------------------
(* Safety                                                                  *)

Message == [seq : 0..(MaxFrames - 1), frame : 1..MaxFrames]

\* Every variable keeps its type, and neither queue outgrows its depth: a Block
\* push waits, it does not overfill.
TypeOK ==
  /\ policy \in Policies
  /\ bus \in {"open", "exchanged", "stored", "done"}
  /\ inner \in Seq(1..MaxFrames) /\ Len(inner) <= 2 * Depth
  /\ innerClosed \in BOOLEAN /\ innerPermit \in BOOLEAN
  /\ seq \in 0..MaxFrames
  /\ queue \in Seq(Message) /\ Len(queue) <= Depth
  /\ closed \in BOOLEAN /\ pushPermit \in BOOLEAN /\ popPermit \in BOOLEAN
  /\ ppc \in {"unborn", "subscribing", "recv", "check", "final", "listen", "waiting",
              "push", "parked", "closing", "done"}
  /\ produced \in Message \union {NoMsg}
  /\ fpc \in {"unborn", "pop", "check", "final", "listen", "parked", "send", "done"}
  /\ held \in Message \union {NoMsg}
  /\ channel \in Seq(Message) /\ Len(channel) <= 1
  /\ caller \in {"reads", "dropped", "end"}
  /\ got \in Seq(Message)
  /\ arrived \in 0..MaxFrames
  /\ numbered \in Seq(1..MaxFrames)

\* The messages on their way, oldest first, behind those that arrived.
Maybe(msg) == IF msg = NoMsg THEN <<>> ELSE <<msg>>

Pipeline == got \o channel \o Maybe(held) \o queue \o Maybe(produced)

\* What a sequence number tells the caller.  Message n is the n-th frame that
\* the producer took, and numbers only grow.  Under Block there is no gap; under
\* DropOldest the newest is never lost; and nothing is lost at all before more
\* than Depth messages exist.
LossFollowsPolicy ==
  /\ \A i \in 1..Len(Pipeline) : Pipeline[i].frame = numbered[Pipeline[i].seq + 1]
  /\ \A i \in 1..(Len(Pipeline) - 1) : Pipeline[i].seq < Pipeline[i + 1].seq
  /\ caller = "reads" =>
       /\ Len(Pipeline) >= (IF policy = "Block" \/ seq <= Depth THEN seq ELSE Depth)
       /\ policy = "DropOldest" /\ seq > 0 => Last(Pipeline).seq = seq - 1

---------------------------------------------------------------------------
(* Liveness                                                                *)

\* subscribe() has joined the list after close() was through with it.
NeverClosed == Joined /\ bus = "done" /\ ~innerClosed

\* close() falls between a load of `closed` and the await behind it: the bus's
\* close in the producer's recv(), the queue's close in the forwarder's pop().
CloseUnheard == ppc = "waiting" /\ bus = "done" /\ innerClosed

MissedClose == ppc = "done" /\ fpc = "parked"

\* A Block push waits for a forwarder that has ended with its receiver.
AbandonedPush == ppc = "parked" /\ fpc = "done"

Ended == ppc = "done" /\ fpc = "done" /\ caller # "reads"

\* "The external channel closes when this task exits": once the bus is closed
\* both tasks end, and so does the caller's stream, however full the queues are
\* when it happens.  Four states alone are in the way, and none is left again: a
\* subscription that the close has not reached, the close that the producer or
\* the forwarder misses, and a Block push that no one will ever make room for.
StreamEnds ==
  (bus # "open" /\ Joined)
    ~> [](Ended \/ NeverClosed \/ CloseUnheard \/ MissedClose \/ AbandonedPush)
=============================================================================
