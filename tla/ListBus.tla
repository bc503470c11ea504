------------------------------ MODULE ListBus ------------------------------
(***************************************************************************)
(* The two buses whose subscribers are a plain list behind a mutex:        *)
(* SocketCanBus (src/socketcan/mod.rs), fed by a reader task from a kernel *)
(* socket, and MockBus (src/mock/mod.rs), fed by calls of inject().        *)
(* subscribe() and close() are the same in both: filters are not looked    *)
(* at, and the list only ever grows.                                       *)
(*                                                                         *)
(* The socket is read through tokio's AsyncFd.  epoll is edge-triggered:   *)
(* an arrival raises an edge, the runtime turns the edge into readiness,   *)
(* and clear_ready() takes the readiness away unless the runtime has set   *)
(* it again since the guard was made.                                      *)
(*                                                                         *)
(* What send() decides of a frame is in FrameRules; MockBus::send touches  *)
(* nothing that a subscriber sees.  Frames are numbered as they arrive.    *)
(***************************************************************************)
EXTENDS PushRules, SequencesExt

CONSTANTS
  Reader,       \* SocketCAN's reader task
  Injectors,    \* tasks that call MockBus::inject
  Subs,         \* subscriptions
  Policy,       \* Policy[u]: back_pressure
  Depth,        \* Depth[u]: chan_depth(64)
  Closers,      \* tasks that call close()
  NoTask,       \* the lock is free
  MaxArrivals   \* bound on the frames that arrive or are injected; a controller
                \* that goes off counts as one

ASSUME ListBusAssumption ==
  /\ Reader \notin Injectors
  /\ Policy \in [Subs -> Policies]
  /\ Depth \in [Subs -> Nat \ {0}]
  /\ NoTask \notin Injectors \union {Reader}
  /\ MaxArrivals \in Nat

\* Tasks that push frames to the subscribers.
Feeders == Injectors \union {Reader}

Frames == 1..MaxArrivals

\* A task that delivers no frame; a subscriber that received none.
NoFrame == 0

\* The error frame by which the kernel reports that the controller is bus-off.
BusOff == -1

\* Options of a CAN_RAW socket, as Linux numbers them: which errors come as frames,
\* and whether the socket gets the frames that are sent through it.
KernelErrFilter == 2
KernelRecvOwnMsgs == 4

\* The options that SocketCanBus::new sets, as it numbers them.
CAN_RAW_FD_FRAMES == 5
CAN_RAW_ERR_FILTER == 4
OptionsSet == {CAN_RAW_FD_FRAMES, CAN_RAW_ERR_FILTER}

VARIABLES
  kind,        \* "socketcan" or "mock"
  alive,       \* the bus object has not been dropped
  closed,      \* SocketCanBus.closed, MockBus.closed
  busOff,      \* SocketCanBus.bus_off
  lock,        \* holder of the mutex on subscribers
  subs,        \* subscribers
  subOpen,     \* not SubInner.closed
  queue,       \* SubInner.queue
  socket,      \* frames in the kernel's receive buffer
  edge,        \* an epoll event that the runtime has not looked at
  ready,       \* readiness of the AsyncFd
  fresh,       \* the readiness was set after the guard was made
  broken,      \* the next read or wait on the socket fails
  controllerOff,       \* the controller of the interface has gone bus-off
  fpc, frame, rest,    \* where each feeder is, its frame, whom it has to reach
  upc, cpc,    \* where subscribe() and close() are
  arrived,     \* number of frames so far
  log, joinedAt,       \* history: as in VirtualBus
  last         \* history: the frame that each subscriber received last

socketVars == <<socket, edge, ready, fresh, broken, controllerOff, arrived>>
feederVars == <<fpc, frame, rest>>
busVars    == <<kind, alive, closed, busOff>>
subVars    == <<upc, joinedAt>>

vars == <<busVars, lock, subs, subOpen, queue, socketVars, feederVars, subVars,
          cpc, log, last>>

Init ==
  /\ kind \in {"socketcan", "mock"}
  /\ alive = TRUE /\ closed = FALSE /\ busOff = FALSE
  /\ lock = NoTask
  /\ subs = <<>>
  /\ subOpen = [u \in Subs |-> TRUE]
  /\ queue = [u \in Subs |-> <<>>]
  /\ socket = <<>> /\ edge = FALSE /\ ready = FALSE /\ fresh = FALSE
  /\ broken = FALSE /\ controllerOff = FALSE /\ arrived = 0
  /\ fpc = [t \in Feeders |-> IF t = Reader /\ kind = "socketcan"
                              THEN "top" ELSE "idle"]
  /\ frame = [t \in Feeders |-> NoFrame]
  /\ rest = [t \in Feeders |-> <<>>]
  /\ upc = [u \in Subs |-> "new"]
  /\ cpc = [c \in Closers |-> "idle"]
  /\ log = <<>>
  /\ joinedAt = [u \in Subs |-> 0]
  /\ last = [u \in Subs |-> NoFrame]

---------------------------------------------------------------------------
(* Variants with one bug each.                                             *)

AlwaysFree == TRUE

\* The reader ends, or close() returns, and the channels stay open.
LeftOpen == subOpen

\* The readiness goes whatever has come since the guard was made.
ClearAlways == ready' = FALSE

---------------------------------------------------------------------------

\* When subscribers.lock().await returns.
Free == lock = NoTask

Members == ToSet(subs)

\* Every channel on the list is closed.
OpenAfterClose == [u \in Subs |-> subOpen[u] /\ u \notin Members]

---------------------------------------------------------------------------
(* The socket and the runtime                                              *)

\* The reader waits for the socket until it ends.  What comes later nobody reads.
Listening == kind = "socketcan" /\ fpc[Reader] # "done"

\* A frame comes into the receive buffer.
ToSocket(x) ==
  /\ socket' = Append(socket, x)
  /\ edge' = TRUE

\* A controller that is off takes no part in the traffic.
FrameArrives ==
  /\ Listening /\ ~controllerOff
  /\ arrived < MaxArrivals
  /\ arrived' = arrived + 1
  /\ ToSocket(arrived')
  /\ UNCHANGED <<busVars, lock, subs, subOpen, queue, ready, fresh, broken,
                 controllerOff, feederVars, subVars, cpc, log, last>>

FrameOnWire == FrameArrives

\* SocketCanBus::send, which fails once the bus is closed or known to be off.
\* With the options that are set, its frame comes back to its own socket.
SendFrame ==
  /\ alive /\ ~closed /\ ~busOff /\ ~broken
  /\ KernelRecvOwnMsgs \in OptionsSet
  /\ FrameArrives

\* The controller goes bus-off, and the kernel tells it to a socket that has
\* asked for error frames.
ControllerGoesOff ==
  /\ Listening /\ ~controllerOff
  /\ arrived < MaxArrivals
  /\ arrived' = arrived + 1
  /\ controllerOff' = TRUE
  /\ IF KernelErrFilter \in OptionsSet
     THEN ToSocket(BusOff)
     ELSE UNCHANGED <<socket, edge>>
  /\ UNCHANGED <<busVars, lock, subs, subOpen, queue, ready, fresh, broken,
                 feederVars, subVars, cpc, log, last>>

\* The interface goes down.
SocketFails ==
  /\ Listening /\ ~broken
  /\ broken' = TRUE
  /\ edge' = TRUE
  /\ UNCHANGED <<busVars, lock, subs, subOpen, queue, socket, ready, fresh,
                 controllerOff, arrived, feederVars, subVars, cpc, log, last>>

\* Room for more frames to send is an event of the same descriptor, which then
\* also tells that there is something to read.
WriteDone ==
  /\ Listening /\ socket # <<>>
  /\ edge' = TRUE
  /\ UNCHANGED <<busVars, lock, subs, subOpen, queue, socket, ready, fresh, broken,
                 controllerOff, arrived, feederVars, subVars, cpc, log, last>>

\* What the event tells is decided when it is looked at.
DriverPolls ==
  /\ Listening /\ edge
  /\ edge' = FALSE
  /\ IF socket # <<>> \/ broken
     THEN ready' = TRUE /\ fresh' = (fpc[Reader] \in {"read", "clear"})
     ELSE UNCHANGED <<ready, fresh>>
  /\ UNCHANGED <<busVars, lock, subs, subOpen, queue, socket, broken, controllerOff,
                 arrived, feederVars, subVars, cpc, log, last>>

---------------------------------------------------------------------------
(* reader_task                                                             *)

ReaderTop ==
  /\ fpc[Reader] = "top"
  /\ fpc' = [fpc EXCEPT ![Reader] = IF closed THEN "exit" ELSE "wait"]
  /\ UNCHANGED <<busVars, lock, subs, subOpen, queue, socketVars, frame, rest,
                 subVars, cpc, log, last>>

\* async_fd.readable().await returns a guard, which lives until clear_ready().
Readable ==
  /\ fpc[Reader] = "wait" /\ ready
  /\ fpc' = [fpc EXCEPT ![Reader] = "read"]
  /\ UNCHANGED <<busVars, lock, subs, subOpen, queue, socketVars, frame, rest, subVars,
                 cpc, log, last>>

\* read() takes the frame at the front, or would block and takes none.
Read ==
  /\ fpc[Reader] = "read" /\ ~broken
  /\ \/ /\ socket # <<>>
        /\ frame' = [frame EXCEPT ![Reader] = Head(socket)]
        /\ socket' = Tail(socket)
     \/ /\ socket = <<>>
        /\ frame' = [frame EXCEPT ![Reader] = NoFrame]
        /\ UNCHANGED socket
  /\ fpc' = [fpc EXCEPT ![Reader] = "clear"]
  /\ UNCHANGED <<busVars, lock, subs, subOpen, queue, edge, ready, fresh, broken,
                 controllerOff, arrived, rest, subVars, cpc, log, last>>

ReadFails ==
  /\ fpc[Reader] = "read" /\ broken
  /\ fpc' = [fpc EXCEPT ![Reader] = "exit"]
  /\ UNCHANGED <<busVars, lock, subs, subOpen, queue, socketVars, frame, rest,
                 subVars, cpc, log, last>>

\* guard.clear_ready(), after a read that would block and after one that did
\* not alike.
ClearReady == ready' = (ready /\ fresh)

\* Then a frame is delivered.  An error frame never is: that the controller went
\* off is remembered for send(), which from then on fails.
AfterRead ==
  /\ fpc[Reader] = "clear"
  /\ ClearReady /\ fresh' = FALSE
  /\ IF frame[Reader] \in Frames
     THEN fpc' = [fpc EXCEPT ![Reader] = "lock"] /\ UNCHANGED <<frame, busOff>>
     ELSE /\ busOff' = (busOff \/ frame[Reader] = BusOff)
          /\ frame' = [frame EXCEPT ![Reader] = NoFrame]
          /\ fpc' = [fpc EXCEPT ![Reader] = "top"]
  /\ UNCHANGED <<kind, alive, closed, lock, subs, subOpen, queue, socket, edge,
                 broken, controllerOff, arrived, rest, subVars, cpc, log, last>>

\* "Close all subscribers on exit": those on the list now.
ReaderExit ==
  /\ fpc[Reader] = "exit"
  /\ Free
  /\ subOpen' = OpenAfterClose
  /\ fpc' = [fpc EXCEPT ![Reader] = "done"]
  /\ UNCHANGED <<busVars, lock, subs, queue, socketVars, frame, rest, subVars,
                 cpc, log, last>>

---------------------------------------------------------------------------
(* Delivery: MockBus::inject, and the end of the reader's round.  inject() *)
(* does not look at `closed`.                                              *)

Inject(t) ==
  /\ kind = "mock"
  /\ fpc[t] = "idle"
  /\ arrived < MaxArrivals
  /\ arrived' = arrived + 1
  /\ frame' = [frame EXCEPT ![t] = arrived']
  /\ fpc' = [fpc EXCEPT ![t] = "lock"]
  /\ UNCHANGED <<busVars, lock, subs, subOpen, queue, socket, edge, ready, fresh,
                 broken, controllerOff, rest, subVars, cpc, log, last>>

DeliverLock(t) ==
  /\ fpc[t] = "lock"
  /\ Free
  /\ lock' = t
  /\ rest' = [rest EXCEPT ![t] = subs]
  /\ log' = Append(log, frame[t])
  /\ fpc' = [fpc EXCEPT ![t] = "push"]
  /\ UNCHANGED <<busVars, subs, subOpen, queue, socketVars, frame, subVars, cpc,
                 last>>

\* What push() leaves in the queue of an open channel.
QueueAfter(u, f) ==
  IF Accepts(Policy[u], queue[u], Depth[u])
  THEN Enqueue(Policy[u], queue[u], Depth[u], f)
  ELSE queue[u]

DeliverPush(t) ==
  /\ fpc[t] = "push" /\ rest[t] # <<>>
  /\ LET u == Head(rest[t])
     IN  queue' = IF subOpen[u]
                  THEN [queue EXCEPT ![u] = QueueAfter(u, frame[t])] ELSE queue
  /\ rest' = [rest EXCEPT ![t] = Tail(@)]
  /\ UNCHANGED <<busVars, lock, subs, subOpen, socketVars, fpc, frame, subVars,
                 cpc, log, last>>

DeliverUnlock(t) ==
  /\ fpc[t] = "push" /\ rest[t] = <<>>
  /\ lock' = NoTask
  /\ frame' = [frame EXCEPT ![t] = NoFrame]
  /\ fpc' = [fpc EXCEPT ![t] = IF t = Reader THEN "top" ELSE "idle"]
  /\ UNCHANGED <<busVars, subs, subOpen, queue, socketVars, rest, subVars, cpc,
                 log, last>>

---------------------------------------------------------------------------
(* subscribe() and the receiver                                            *)

SubscribeCheck(u) ==
  /\ alive /\ upc[u] = "new"
  /\ upc' = [upc EXCEPT ![u] = IF closed THEN "refused" ELSE "checked"]
  /\ UNCHANGED <<busVars, lock, subs, subOpen, queue, socketVars, feederVars,
                 joinedAt, cpc, log, last>>

SubscribeJoin(u) ==
  /\ upc[u] = "checked"
  /\ Free
  /\ subs' = Append(subs, u)
  /\ upc' = [upc EXCEPT ![u] = "on"]
  /\ joinedAt' = [joinedAt EXCEPT ![u] = Len(log)]
  /\ UNCHANGED <<busVars, lock, subOpen, queue, socketVars, feederVars, cpc,
                 log, last>>

Receive(u) ==
  /\ upc[u] = "on" /\ queue[u] # <<>>
  /\ last' = [last EXCEPT ![u] = Head(queue[u])]
  /\ queue' = [queue EXCEPT ![u] = Tail(@)]
  /\ UNCHANGED <<busVars, lock, subs, subOpen, socketVars, feederVars, subVars,
                 cpc, log>>

ReceiverClose(u) ==
  /\ upc[u] = "on" /\ subOpen[u]
  /\ subOpen' = [subOpen EXCEPT ![u] = FALSE]
  /\ UNCHANGED <<busVars, lock, subs, queue, socketVars, feederVars, subVars,
                 cpc, log, last>>

---------------------------------------------------------------------------
(* close(), and the drop of a SocketCanBus                                 *)

CloseExchange(c) ==
  /\ alive /\ cpc[c] = "idle"
  /\ closed' = TRUE
  /\ cpc' = [cpc EXCEPT ![c] = IF closed THEN "done" ELSE "exchanged"]
  /\ UNCHANGED <<kind, alive, busOff, lock, subs, subOpen, queue, socketVars,
                 feederVars, subVars, log, last>>

CloseSubs(c) ==
  /\ cpc[c] = "exchanged"
  /\ Free
  /\ subOpen' = OpenAfterClose
  /\ cpc' = [cpc EXCEPT ![c] = "done"]
  /\ UNCHANGED <<busVars, lock, subs, queue, socketVars, feederVars, subVars,
                 log, last>>

\* No call borrows the bus any more.  The reader task and the receivers go on.
Drop ==
  /\ kind = "socketcan" /\ alive
  /\ \A u \in Subs : upc[u] # "checked"
  /\ \A c \in Closers : cpc[c] # "exchanged"
  /\ alive' = FALSE
  /\ closed' = TRUE
  /\ UNCHANGED <<kind, busOff, lock, subs, subOpen, queue, socketVars,
                 feederVars, subVars, cpc, log, last>>

---------------------------------------------------------------------------

ReaderRuns == ReaderTop \/ Readable \/ Read \/ ReadFails \/ AfterRead

Next ==
  \/ FrameOnWire \/ SendFrame \/ ControllerGoesOff
  \/ \E t \in Injectors : Inject(t)
  \/ SocketFails \/ WriteDone \/ DriverPolls
  \/ ReaderRuns \/ ReaderExit
  \/ \E t \in Feeders : DeliverLock(t) \/ DeliverPush(t) \/ DeliverUnlock(t)
  \/ \E u \in Subs :
       SubscribeCheck(u) \/ SubscribeJoin(u) \/ Receive(u) \/ ReceiverClose(u)
  \/ \E c \in Closers : CloseExchange(c) \/ CloseSubs(c)
  \/ Drop

\* The runtime looks at epoll and polls a task that can go on.  Its mutex serves
\* the waiters in order: strong fairness, stated for the waits that the
\* properties depend on.  Nothing has to arrive, and no one has to call anything.
Fairness ==
  /\ WF_vars(DriverPolls)
  /\ WF_vars(ReaderRuns)
  /\ SF_vars(ReaderExit)
  /\ SF_vars(DeliverLock(Reader))
  /\ \A t \in Feeders : WF_vars(DeliverPush(t) \/ DeliverUnlock(t))
  /\ \A c \in Closers : SF_vars(CloseSubs(c))

Spec == Init /\ [][Next]_vars /\ Fairness

---------------------------------------------------------------------------
(* Safety                                                                  *)

FeederPlaces ==
  {"idle", "top", "wait", "read", "clear", "lock", "push", "exit", "done"}

\* Every variable keeps its type, and a queue that drops stays within its depth.
TypeOK ==
  /\ kind \in {"socketcan", "mock"}
  /\ alive \in BOOLEAN /\ closed \in BOOLEAN /\ busOff \in BOOLEAN
  /\ lock \in Feeders \union {NoTask}
  /\ subs \in Seq(Subs)
  /\ subOpen \in [Subs -> BOOLEAN]
  /\ queue \in [Subs -> Seq(Frames)]
  /\ \A u \in Subs : Policy[u] # "Block" => Len(queue[u]) <= Depth[u]
  /\ socket \in Seq(Frames \union {BusOff})
  /\ edge \in BOOLEAN /\ ready \in BOOLEAN /\ fresh \in BOOLEAN
  /\ broken \in BOOLEAN /\ controllerOff \in BOOLEAN
  /\ fpc \in [Feeders -> FeederPlaces]
  /\ frame \in [Feeders -> Frames \union {NoFrame, BusOff}]
  /\ rest \in [Feeders -> Seq(Subs)]
  /\ upc \in [Subs -> {"new", "refused", "checked", "on"}]
  /\ cpc \in [Closers -> {"idle", "exchanged", "done"}]
  /\ arrived \in 0..MaxArrivals
  /\ log \in Seq(Frames)
  /\ joinedAt \in [Subs -> Nat]
  /\ last \in [Subs -> Frames \union {NoFrame}]

Place(u) ==
  IF upc[u] # "on" THEN -1
  ELSE IF last[u] = NoFrame THEN joinedAt[u]
  ELSE CHOOSE i \in 1..Len(log) : log[i] = last[u]

Broadcast == INSTANCE BroadcastBus
  WITH place <- [u \in Subs |-> Place(u)], Matches <- LAMBDA u, f : TRUE

\* Both buses implement BroadcastBus, but as if no subscriber had a filter: all
\* subscribers see the frames in one order, each at most once.
ImplementsBroadcast == Broadcast!Spec

---------------------------------------------------------------------------
(* Liveness                                                                *)

\* A close that has won the exchange, and a reader that ends, close every
\* channel that is on the list before they take the lock.
EndReachesMembers ==
  \A u \in Subs :
    (/\ upc[u] = "on"
     /\ fpc[Reader] = "exit" \/ \E c \in Closers : cpc[c] = "exchanged")
      ~> ~subOpen[u]

\* What the reader does of an arrival while others wait before it: the event
\* makes it read the frame at the front, unless the bus is closed or the socket
\* fails.  A frame behind that one may stay where it is until the next event.
EventIsHeard ==
  \A f \in Frames :
    (edge /\ socket # <<>> /\ socket[1] = f)
      ~> (f \notin ToSet(socket) \/ closed \/ broken)

\* REQ-SEC-008: a controller that goes bus-off is detected, and send() fails from
\* then on, unless the bus is closed or its reader ends before.
BusOffDetected == controllerOff ~> (busOff \/ closed \/ broken)
=============================================================================
