----------------------------- MODULE VirtualBus -----------------------------
(***************************************************************************)
(* The in-process broadcast bus of src/virtual_bus/mod.rs: tasks that      *)
(* send, subscribe, receive, close and drain concurrently.                 *)
(*                                                                         *)
(* Every call is cut where another task can run: at the load or exchange   *)
(* of `closed`, at each lock().await on the subscriber list, and between   *)
(* two pushes of a broadcast, since receivers need only their own queue.   *)
(* How a receiver waits for a frame is SubQueue's subject; here a receive  *)
(* is the pop alone.                                                       *)
(*                                                                         *)
(* bytes_written and bytes_delivered move with write_count and             *)
(* deliver_count and are left out.  A send adds to the counters in one     *)
(* step next to the load of `closed` and in one after the unlock, and      *)
(* close() closes its list in one step: each of these writes is read by a  *)
(* different task on its own, so no one can tell.  The list is a set: each *)
(* push touches one channel alone, so the order in which a broadcast       *)
(* visits the list is left open.                                           *)
(***************************************************************************)
EXTENDS PushRules, SequencesExt

CONSTANTS
  Senders,      \* tasks that call send()
  Frames,       \* frames they send, each at most once
  Invalid,      \* frames that validate_frame() rejects
  Subs,         \* subscriptions
  Wants,        \* Wants[u]: frames that the filters of u match
  Policy,       \* Policy[u]: back_pressure
  Depth,        \* Depth[u]: chan_depth(64)
  Limited,      \* subscriptions with a rate limit
  Closers,      \* tasks that call close() or close_with_drain()
  NoTask,       \* the lock is free
  NoFrame       \* a sender that is not in send()

ASSUME VirtualBusAssumption ==
  /\ Invalid \subseteq Frames
  /\ Wants \in [Subs -> SUBSET Frames]
  /\ Policy \in [Subs -> Policies]
  /\ Depth \in [Subs -> Nat \ {0}]
  /\ Limited \subseteq Subs
  /\ NoTask \notin Senders
  /\ NoFrame \notin Frames

VARIABLES
  closed,        \* VirtualBus.closed
  lock,          \* holder of the mutex on BusInner
  subs,          \* BusInner.subs, as a set
  closedBy,      \* SubInner.closed, and whether owner or bus set it
  queue,         \* SubInner.queue
  spc,           \* where each sender is
  frame,         \* the frame it sends
  rest,          \* the subscribers its broadcast has still to reach
  delivered,     \* BusInner::broadcast's counts
  dropped,
  upc,           \* where each subscribe() is
  cpc,           \* where each closer is
  result,        \* what its call returns
  writeCount, deliverCount, dropCount, errorCount,
  used,          \* history: frames passed to send()
  log,           \* history: frames in the order of their broadcast
  got,           \* history: frames received by each subscriber
  joinedAt,      \* history: length of log when it was registered
  evicted,       \* history: number of frames that DropOldest evicted
  drainMark      \* history: length of log when the drain began

senderVars == <<spc, frame, rest, delivered, dropped, used>>
subVars    == <<upc, joinedAt>>
closerVars == <<cpc, result, drainMark>>
countVars  == <<writeCount, deliverCount, dropCount, errorCount>>
histVars   == <<log, got, evicted>>

vars == <<closed, lock, subs, closedBy, queue, senderVars, subVars, closerVars,
          countVars, histVars>>

Init ==
  /\ closed = FALSE
  /\ lock = NoTask
  /\ subs = {}
  /\ closedBy = [u \in Subs |-> "open"]
  /\ queue = [u \in Subs |-> <<>>]
  /\ spc = [s \in Senders |-> "idle"]
  /\ frame = [s \in Senders |-> NoFrame]
  /\ rest = [s \in Senders |-> {}]
  /\ delivered = [s \in Senders |-> 0]
  /\ dropped = [s \in Senders |-> 0]
  /\ used = {}
  /\ upc = [u \in Subs |-> "new"]
  /\ joinedAt = [u \in Subs |-> 0]
  /\ cpc = [c \in Closers |-> "idle"]
  /\ result = [c \in Closers |-> "none"]
  /\ drainMark = [c \in Closers |-> 0]
  /\ writeCount = 0 /\ deliverCount = 0 /\ dropCount = 0 /\ errorCount = 0
  /\ log = <<>>
  /\ got = [u \in Subs |-> <<>>]
  /\ evicted = 0

---------------------------------------------------------------------------
(* Variants with one bug each.                                             *)

\* The list is used without its mutex; the guard is never dropped.
AlwaysFree == TRUE
UnlockForgotten == UNCHANGED lock

\* A refused frame counts as delivered.
RefusalDelivered(s) ==
  /\ delivered' = [delivered EXCEPT ![s] = @ + 1]
  /\ UNCHANGED dropped

\* The list is cleared and its channels are left open.
LeftOpen == closedBy

\* any() in place of all().
AnyEmpty == subs = {} \/ \E u \in subs : queue[u] = <<>>

\* ctx.done() is looked at only when the queues are empty.
DeadlineIfEmpty == \A u \in subs : queue[u] = <<>>

---------------------------------------------------------------------------

\* VirtualSub::matches.
Matches(u, f) == f \in Wants[u]

\* When inner.lock().await returns.
Free == lock = NoTask

\* drop(guard).
Unlock == lock' = NoTask

\* gc(): what is left of the list.
Open == {u \in subs : closedBy[u] = "open"}

---------------------------------------------------------------------------
(* send()                                                                  *)

\* A closed bus or an invalid frame ends the call with an error.
SendError(s, f) ==
  /\ spc[s] = "idle" /\ f \notin used
  /\ closed \/ f \in Invalid
  /\ used' = used \union {f}
  /\ errorCount' = errorCount + 1
  /\ UNCHANGED <<closed, lock, subs, closedBy, queue, spc, frame, rest, delivered,
                 dropped, subVars, closerVars, writeCount, deliverCount,
                 dropCount, histVars>>

SendCheck(s, f) ==
  /\ spc[s] = "idle" /\ f \notin used
  /\ ~closed /\ f \notin Invalid
  /\ used' = used \union {f}
  /\ writeCount' = writeCount + 1
  /\ spc' = [spc EXCEPT ![s] = "checked"]
  /\ frame' = [frame EXCEPT ![s] = f]
  /\ UNCHANGED <<closed, lock, subs, closedBy, queue, rest, delivered, dropped,
                 subVars, closerVars, deliverCount, dropCount, errorCount,
                 histVars>>

\* inner.lock().await, then gc().  From here to the unlock the broadcast owns
\* the list; this is where the frame takes its place among all frames.
SendLock(s) ==
  /\ spc[s] = "checked"
  /\ Free
  /\ lock' = s
  /\ subs' = Open
  /\ spc' = [spc EXCEPT ![s] = "pushing"]
  /\ rest' = [rest EXCEPT ![s] = subs']
  /\ log' = Append(log, frame[s])
  /\ UNCHANGED <<closed, closedBy, queue, frame, delivered, dropped, used,
                 subVars, closerVars, countVars, got, evicted>>

\* push() returned true, or false.
Accepted(s) ==
  /\ delivered' = [delivered EXCEPT ![s] = @ + 1]
  /\ UNCHANGED dropped

Refused(s) ==
  /\ dropped' = [dropped EXCEPT ![s] = @ + 1]
  /\ UNCHANGED delivered

\* broadcast() at one subscriber.  A closed one that gc() still saw open is
\* pushed to as well.  When the limiter refuses is RateLimiter's subject.
PushTo(s, u, f) ==
  \/ /\ ~Matches(u, f)
     /\ UNCHANGED <<queue, delivered, dropped, evicted>>
  \/ /\ Matches(u, f) /\ Accepts(Policy[u], queue[u], Depth[u])
     /\ queue' = [queue EXCEPT ![u] = Enqueue(Policy[u], @, Depth[u], f)]
     /\ evicted' = evicted + (Len(queue[u]) + 1 - Len(queue'[u]))
     /\ Accepted(s)
  \/ /\ Matches(u, f)
     /\ u \in Limited \/ ~Accepts(Policy[u], queue[u], Depth[u])
     /\ Refused(s)
     /\ UNCHANGED <<queue, evicted>>

SendPush(s) ==
  /\ spc[s] = "pushing"
  /\ \E u \in rest[s] :
       /\ PushTo(s, u, frame[s])
       /\ rest' = [rest EXCEPT ![s] = @ \ {u}]
  /\ UNCHANGED <<closed, lock, subs, closedBy, spc, frame, used, subVars,
                 closerVars, countVars, log, got>>

SendUnlock(s) ==
  /\ spc[s] = "pushing" /\ rest[s] = {}
  /\ Unlock
  /\ spc' = [spc EXCEPT ![s] = "counting"]
  /\ UNCHANGED <<closed, subs, closedBy, queue, frame, rest, delivered, dropped,
                 used, subVars, closerVars, countVars, histVars>>

\* The locals of the call go with it.
SendCount(s) ==
  /\ spc[s] = "counting"
  /\ deliverCount' = deliverCount + delivered[s]
  /\ dropCount' = dropCount + dropped[s]
  /\ spc' = [spc EXCEPT ![s] = "idle"]
  /\ frame' = [frame EXCEPT ![s] = NoFrame]
  /\ delivered' = [delivered EXCEPT ![s] = 0]
  /\ dropped' = [dropped EXCEPT ![s] = 0]
  /\ UNCHANGED <<closed, lock, subs, closedBy, queue, rest, used, subVars,
                 closerVars, writeCount, errorCount, histVars>>

---------------------------------------------------------------------------
(* subscribe(), FrameReceiver::recv and FrameReceiver::close               *)

SubscribeCheck(u) ==
  /\ upc[u] = "new"
  /\ upc' = [upc EXCEPT ![u] = IF closed THEN "refused" ELSE "checked"]
  /\ UNCHANGED <<closed, lock, subs, closedBy, queue, senderVars, joinedAt,
                 closerVars, countVars, histVars>>

\* The bus is not looked at again once the lock is held.
SubscribeJoin(u) ==
  /\ upc[u] = "checked"
  /\ Free
  /\ subs' = subs \union {u}
  /\ upc' = [upc EXCEPT ![u] = "on"]
  /\ joinedAt' = [joinedAt EXCEPT ![u] = Len(log)]
  /\ UNCHANGED <<closed, lock, closedBy, queue, senderVars, closerVars,
                 countVars, histVars>>

Receive(u) ==
  /\ upc[u] = "on" /\ queue[u] # <<>>
  /\ got' = [got EXCEPT ![u] = Append(@, Head(queue[u]))]
  /\ queue' = [queue EXCEPT ![u] = Tail(@)]
  /\ UNCHANGED <<closed, lock, subs, closedBy, senderVars, subVars, closerVars,
                 countVars, log, evicted>>

ReceiverClose(u) ==
  /\ upc[u] = "on" /\ closedBy[u] = "open"
  /\ closedBy' = [closedBy EXCEPT ![u] = "owner"]
  /\ UNCHANGED <<closed, lock, subs, queue, senderVars, subVars, closerVars,
                 countVars, histVars>>

---------------------------------------------------------------------------
(* close() and close_with_drain()                                          *)

CloseCall(c) ==
  /\ cpc[c] = "idle"
  /\ cpc' = [cpc EXCEPT ![c] = "closing"]
  /\ result' = [result EXCEPT ![c] = "closed"]
  /\ UNCHANGED <<closed, lock, subs, closedBy, queue, senderVars, subVars,
                 drainMark, countVars, histVars>>

\* closed.compare_exchange(false, true): the loser returns at once.
CloseExchange(c) ==
  /\ cpc[c] = "closing"
  /\ closed' = TRUE
  /\ cpc' = [cpc EXCEPT ![c] = IF closed THEN "done" ELSE "exchanged"]
  /\ UNCHANGED <<lock, subs, closedBy, queue, senderVars, subVars, result,
                 drainMark, countVars, histVars>>

\* Every channel on the list is closed.
ClosedChannels ==
  [u \in Subs |-> IF u \in subs /\ closedBy[u] = "open"
                  THEN "bus" ELSE closedBy[u]]

CloseSubs(c) ==
  /\ cpc[c] = "exchanged"
  /\ Free
  /\ closedBy' = ClosedChannels
  /\ subs' = {}
  /\ cpc' = [cpc EXCEPT ![c] = "done"]
  /\ UNCHANGED <<closed, lock, queue, senderVars, subVars, result, drainMark,
                 countVars, histVars>>

DrainCall(c) ==
  /\ cpc[c] = "idle"
  /\ cpc' = [cpc EXCEPT ![c] = "draining"]
  /\ drainMark' = [drainMark EXCEPT ![c] = Len(log)]
  /\ UNCHANGED <<closed, lock, subs, closedBy, queue, senderVars, subVars,
                 result, countVars, histVars>>

\* ctx.done(), looked at first thing in every round.  Time is left out: any
\* round may find the deadline passed.
DeadlinePassed == TRUE

DrainExpire(c) ==
  /\ cpc[c] = "draining" /\ DeadlinePassed
  /\ cpc' = [cpc EXCEPT ![c] = "closing"]
  /\ result' = [result EXCEPT ![c] = "timeout"]
  /\ UNCHANGED <<closed, lock, subs, closedBy, queue, senderVars, subVars,
                 drainMark, countVars, histVars>>

AllEmpty == \A u \in subs : queue[u] = <<>>

\* A round that finds every queue empty under the lock.  A round that does not
\* changes nothing; nothing is pushed while it looks, and pops only help.
DrainScan(c) ==
  /\ cpc[c] = "draining"
  /\ Free
  /\ AllEmpty
  /\ cpc' = [cpc EXCEPT ![c] = "closing"]
  /\ result' = [result EXCEPT ![c] = "drained"]
  /\ UNCHANGED <<closed, lock, subs, closedBy, queue, senderVars, subVars,
                 drainMark, countVars, histVars>>

---------------------------------------------------------------------------

Next ==
  \/ \E s \in Senders :
       \/ \E f \in Frames : SendError(s, f) \/ SendCheck(s, f)
       \/ SendLock(s) \/ SendPush(s) \/ SendUnlock(s) \/ SendCount(s)
  \/ \E u \in Subs :
       SubscribeCheck(u) \/ SubscribeJoin(u) \/ Receive(u) \/ ReceiverClose(u)
  \/ \E c \in Closers :
       \/ CloseCall(c) \/ CloseExchange(c) \/ CloseSubs(c)
       \/ DrainCall(c) \/ DrainExpire(c) \/ DrainScan(c)

\* A call that was made runs on between its awaits.  The tokio mutex queues its
\* waiters in order, so a task that waits for it gets it: strong fairness.  The
\* contexts of the drains have a deadline.  No one has to call anything, and a
\* receiver need not receive.
Fairness ==
  /\ \A s \in Senders : /\ SF_vars(SendLock(s))
                        /\ WF_vars(SendPush(s) \/ SendUnlock(s) \/ SendCount(s))
  /\ \A u \in Subs : SF_vars(SubscribeJoin(u))
  /\ \A c \in Closers : /\ SF_vars(CloseSubs(c))
                        /\ WF_vars(CloseExchange(c))
                        /\ WF_vars(DrainExpire(c))

Spec == Init /\ [][Next]_vars /\ Fairness

---------------------------------------------------------------------------
(* Safety                                                                  *)

\* Every variable keeps the type of the field or local it models, and a queue
\* that drops stays within its depth.
TypeOK ==
  /\ closed \in BOOLEAN
  /\ lock \in Senders \union {NoTask}
  /\ subs \in SUBSET Subs
  /\ closedBy \in [Subs -> {"open", "owner", "bus"}]
  /\ queue \in [Subs -> Seq(Frames)]
  /\ \A u \in Subs : Policy[u] # "Block" => Len(queue[u]) <= Depth[u]
  /\ spc \in [Senders -> {"idle", "checked", "pushing", "counting"}]
  /\ frame \in [Senders -> Frames \union {NoFrame}]
  /\ rest \in [Senders -> SUBSET Subs]
  /\ delivered \in [Senders -> Nat]
  /\ dropped \in [Senders -> Nat]
  /\ used \in SUBSET Frames
  /\ upc \in [Subs -> {"new", "refused", "checked", "on"}]
  /\ joinedAt \in [Subs -> Nat]
  /\ cpc \in [Closers -> {"idle", "draining", "closing", "exchanged", "done"}]
  /\ result \in [Closers -> {"none", "closed", "drained", "timeout"}]
  /\ drainMark \in [Closers -> Nat]
  /\ writeCount \in Nat /\ deliverCount \in Nat
  /\ dropCount \in Nat /\ errorCount \in Nat
  /\ log \in Seq(Frames)
  /\ got \in [Subs -> Seq(Frames)]
  /\ evicted \in Nat

\* Every send is counted once, as written or as an error: a written one has its
\* frame in the log or is about to take the lock with it.
SendsCounted ==
  /\ writeCount = Len(log) + Cardinality({s \in Senders : spc[s] = "checked"})
  /\ writeCount + errorCount = Cardinality(used)

\* As many elements as the counts n[x] of the x in S sum up to.
Units(S, n) == UNION {{x} \X (1..n[x]) : x \in S}

Held == [u \in Subs |-> Len(got[u]) + Len(queue[u])]

\* Every accepted push is counted, or is about to be, and its frame was received,
\* is queued or was evicted.
DeliveriesCounted ==
  Cardinality(Units(Subs, Held)) + evicted
    = deliverCount + Cardinality(Units(Senders, delivered))

\* metrics() never loses or invents a send or a delivery, whatever sends overlap.
MetricsBalance == SendsCounted /\ DeliveriesCounted

\* A drain that succeeds closes over nothing old: when it is about to close the
\* channels on the list, no frame whose broadcast began before the drain is
\* still queued in one of them.
DrainDelivers ==
  \A c \in Closers :
    cpc[c] = "exchanged" /\ result[c] = "drained" =>
      \A u \in subs, i \in 1..drainMark[c] : log[i] \notin ToSet(queue[u])

\* After close() has closed a channel no send delivers to it any more, not even
\* one that was past its own check of `closed`.
BusClosedStaysSilent ==
  [][\A u \in Subs : closedBy[u] = "bus" => IsSuffix(queue'[u], queue[u])]_vars

\* close() closes the bus and every subscriber channel: once a close() has
\* returned and none is under way, no receiver is left open.
NoOrphan ==
  (\E c \in Closers : cpc[c] = "done") /\ (\A c \in Closers : cpc[c] # "exchanged")
    => \A u \in Subs : upc[u] = "on" => closedBy[u] # "open"

---------------------------------------------------------------------------
(* The bus implements BroadcastBus: a frame is published when its send     *)
(* takes the lock, and a subscriber has read up to the frame it got last.  *)

Index(f) == CHOOSE i \in 1..Len(log) : log[i] = f

Place(u) ==
  IF upc[u] # "on" THEN -1
  ELSE IF got[u] = <<>> THEN joinedAt[u]
  ELSE Index(Last(got[u]))

Broadcast == INSTANCE BroadcastBus WITH place <- [u \in Subs |-> Place(u)]

\* Subscribers see matching frames only, each once, and all in one order.
ImplementsBroadcast == Broadcast!Spec

---------------------------------------------------------------------------
(* Liveness                                                                *)

\* Every send() returns, however many others, closes and drains compete for
\* the list, and although receivers do nothing.
SendReturns == \A s \in Senders : (spc[s] # "idle") ~> (spc[s] = "idle")

\* Every close() and every drain with a deadline returns, though senders keep
\* taking the lock and no one may empty the queues.
CloseReturns == \A c \in Closers : (cpc[c] # "idle") ~> (cpc[c] = "done")

\* A close that has won the exchange reaches every subscriber on the list, the
\* ones that join before it gets the lock included.
CloseReachesMembers ==
  \A u \in Subs :
    (upc[u] = "on" /\ \E c \in Closers : cpc[c] = "exchanged")
      ~> (closedBy[u] # "open")
=============================================================================
