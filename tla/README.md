# A verification of rust-CAN

TLA+ models of rust-CAN, of its concurrent core and of its conversions, the TLC runs that
check them and the theorems about them that TLAPS checks. Paths are those of the
repository; `bus.rs` and the like are under `src/`.

## 1. The system

rust-CAN is a library around one abstraction, the `Bus` (`bus.rs`): `send` a frame,
`subscribe` with filters, `close`. Buses hand frames to subscribers, and protocols
are built on subscriptions.

| Part | State it keeps | Operations | What makes it correct |
|---|---|---|---|
| Subscriber channel (`SubInner`, `FrameReceiver`, `bus.rs`) | queue, `closed`, limiter window and count, a tokio `Notify` | `push`, `recv`, `close` | order, bounded queue, loss only where the policy says so, a receiver that has something to do is awake, end of stream only when drained |
| Virtual bus (`virtual_bus/mod.rs`) | subscriber list under a tokio mutex, `closed`, counters | `send`, `subscribe`, `close`, `close_with_drain`, `metrics`, `health`, `loan` | one order for all subscribers, exact counters, nothing delivered after a close, every call returns |
| Mock bus (`mock/mod.rs`) | as the virtual bus, and the frames sent | `send`, `inject`, `reset`, `subscribe`, `close` | injected frames reach open subscribers |
| SocketCAN bus (`socketcan/mod.rs`) | socket and its readiness, subscriber list, reader task, bus-off flag | `send`, `subscribe`, `close`, drop, the reader loop | the reader serves its subscribers until the bus closes, sleeps through no event, and sees a bus-off |
| Frames (`frame.rs`, `relay.rs`) | nothing | `validate_frame`, constructors, conversions | a frame survives every conversion that accepts it |
| E2E protection (`safety/mod.rs`, `crc.rs`) | sender's counter, receiver's last counter | `protect`, `unwrap` | loss, repetition, reordering and damage are reported, and nothing else is |
| ISO-TP (`isotp/mod.rs`) | a subscription, a configuration | `send`, `recv` | a message arrives as it was sent or an error says so, in bounded time |
| UDS and OBD-II clients (`uds/mod.rs`, `obdii/mod.rs`) | an ISO-TP connection | one method per service | an answer belongs to its request, a call returns |
| Relay adapter (`adapt.rs`) | a second queue, two tasks, a sequence number | `send`, `subscribe`, `close` | no frame is lost or reordered beyond what the policy allows, the stream ends |
| J1939 (`j1939/mod.rs`) | a source address, a PGN list | `send`, `subscribe`, `recv` | a message arrives with its fields, at those who asked for it |
| Recorder (`recorder/mod.rs`) | a log | `record`, `replay` | the log replays what was recorded, with its timing |
| DBC (`dbc/mod.rs`) | the parsed database | `parse`, `decode` | every signal of the text is decoded to its value |

Interaction: a send runs in its caller's task; it takes the bus's mutex, pushes into
each matching channel (under that channel's own lock, which also notifies its
receiver) and updates the counters after the unlock. Receivers pop without the bus's
mutex. SocketCAN's frames come from one reader task instead. ISO-TP, UDS, OBD-II and
J1939 sit on a subscription of any bus; they wrap `recv()` in `tokio::time::timeout`, so
a `recv()` future may be dropped at its await. The adapter puts two tasks, an `AdaptQueue`
and an mpsc channel behind a subscription.

What is hard here: every `.await` is a point where `closed`, the list or a queue
changes hands; `Notify` remembers one `notify_one` and no `notify_waiters`; a flag
tested before a lock is stale after it; epoll reports an arrival once; the medium under
E2E and ISO-TP loses and repeats; an answer may come after its timeout; counters,
windows and bit fields have borders. `PROJECT.json` lists these hazards line by line with
the properties that cover them.

## 2. Modules

| Module | Models | Uses |
|---|---|---|
| `PushRules` | `SubInner::push` as operators on values: what the limiter admits, what each policy does with a full queue | |
| `SubQueue` | one channel: pushes, `recv()` in its steps, cancelled receives, `close()` | `PushRules` |
| `BroadcastBus` | abstract: what a bus promises its subscribers | |
| `VirtualBus` | the virtual bus, all its tasks; implements `BroadcastBus` | `PushRules`, `BroadcastBus` |
| `ListBus` | the SocketCAN bus with its reader task, and the mock bus; implements `BroadcastBus` | `PushRules`, `BroadcastBus` |
| `Adapter` | a subscription through the relay adapter, from the bus to the caller | `PushRules` |
| `MessageChannel` | abstract: what a connection promises about messages | |
| `IsoTp` | a sending and a receiving `IsoTpConn` and their subscriptions; implements `MessageChannel` | `MessageChannel` |
| `Diagnostics` | UDS and OBD-II calls over two message channels, and the control unit | |
| `RateLimiter` | the limiter against a clock | `PushRules` |
| `E2E` | `Protector`, the medium, `Receiver` | |
| `Crc16` | the E2E checksum, bit by bit | |
| `FrameRules` | `validate_frame` and the conversions to relay messages, raw socket frames and J1939, as operators | |
| `Recorder` | recording, a log that tears, replaying | `FrameRules` |
| `Dbc` | parsing and decoding | |
| `Sequential` | one job per behaviour: a run of one of the five modules it uses, or a frame through a conversion of `FrameRules` and back | `RateLimiter`, `E2E`, `Crc16`, `Recorder`, `Dbc` |
| `MCVirtualBus`, `MCListBus`, `MCIsoTp`, `MCDiagnostics`, `MCSequential` | values for the constants | the module of that name |
| `PushRulesProofs` | lemmas about queues and policies | `PushRules` |
| `SubQueueProofs`, `VirtualBusProofs`, `ListBusProofs`, `AdapterProofs`, `IsoTpProofs`, `DiagnosticsProofs` | the theorems | the module of that name |
| `SequentialProofs` | the theorems about the parts of `Sequential`, and the one that puts them together | `Sequential` |

**SubQueue.** `queue`, `closed` and `rateCount` are the fields of `SubInner`; `permit`
is the notification that a `Notify` stores; `pc` is where a task stands in `recv()`.
`Pop`, `CheckClosed`, `FinalPop` and `Listen` are the four places of `recv()` between
which other threads run; `Cancel` is a future dropped at its await, which passes on a
notification it holds, as tokio does. `push()` is one action, `PushAccepted` or
`PushRefused`: it notifies under the queue's lock, and the bus's mutex orders the
pushes. `close()` is `StoreClosed` and then `WakeWaiters`. The policy is chosen in the
initial state, so one run covers the three. Whether a second has passed is left open
here; `RateLimiter` keeps the time.

**VirtualBus.** Sends (`SendCheck`, `SendLock`, `SendPush` once per subscriber,
`SendUnlock`, `SendCount`), subscribes (`SubscribeCheck`, `SubscribeJoin`), closes
(`CloseExchange`, `CloseSubs`) and drains (`DrainCall`, `DrainScan`, `DrainExpire`) are
cut at the flag, at the lock and between pushes. The subscriber list is a set, used only
under `lock`; the order in which a broadcast visits it is left open, which allows more
than the code does. `closedBy` is the `closed` flag of each channel and who set it.
`log`, `got`, `joinedAt`, `evicted` and `drainMark` are history for the properties. A
frame takes its place in `log` when its send gets the lock; with that, and the last frame
a subscriber got, the module implements `BroadcastBus`.

**ListBus.** The two other buses share `subscribe()` and `close()`: filters are not looked
at and the list only grows; `kind` says which bus it is. The reader task is cut at its
load of `closed`, at its wait for readiness, at the read, at `clear_ready()` and at the
lock (`ReaderTop`, `Readable`, `Read`, `ReadFails`, `AfterRead`, `ReaderExit`); `edge` and
`ready` are epoll's event and the readiness that tokio's `AsyncFd` derives from it, and
`fresh` is readiness that came after the guard was made, which `clear_ready()` leaves
alone. What gets into the socket depends on the options that the code sets, by the
numbers Linux gives them (`OptionsSet`): frames of other nodes (`FrameOnWire`), the bus's
own (`SendFrame`), but no report of a controller that goes off (`ControllerGoesOff`).
`Inject` is `MockBus::inject`. Delivery is lock, push by push, unlock. The limiter is left
out: `PushRules` and `SubQueue` have it.

**Adapter.** Three stages: `inner`, the bus subscription; `queue`, the `AdaptQueue`, with
its two `Notify` objects; `channel`, the mpsc channel of one place. `ppc` and `fpc` are
where the producer and the forwarder task stand. The producer waits in the `recv()` of its
subscription, cut as in `SubQueue` (`Produce`, `FindNothing`, `CheckInner`, `ListenInner`).
`subscribe()` and `close()` of the bus overlap: the flag is tested in `SubscribeCheck` and
set in `CloseExchange`, the list is taken in `SubscribeJoin` and in `CloseSub`, which
`WakeProducer` follows. Frames are numbered on the way (`seq`); `numbered` remembers which
frame got which number.

**IsoTp.** `spc` and `rpc` are where `send()` and `recv()` stand, the other variables
their locals and the two subscriptions. A payload is a message of so many pieces, one per
frame; a frame carries one of them. A full subscription drops the frame (DropNewest, the
default), frames stay queued when a call gives up, and either call may time out while
nothing is queued for it. `firstLost` and `otherLost` record which frames were dropped,
for the properties that assume none was. The module implements `MessageChannel` up to the
first loss of a first frame: after that the format cannot tell messages apart (finding 4).

**Diagnostics.** A call sends its request and waits, through pending answers, for a final
one. The ECU is external and may be slow, silent, negative or ask for patience for ever;
requests and answers may get lost. `about` and `abandoned` are history: which request an
answer was for, and which requests the client has given up.

**RateLimiter, E2E, Crc16.** The limiter is the head of `push()` with time in ticks.
`seq`, `last_seq` and `first` are the fields of `safety/mod.rs`; a message is the counter
in its header and, as history, which call made it. `unwrap()` is one action for each way
it returns. The medium delivers any message protected so far, any number of times, or
never, or damaged; `Near` is the one assumption: two messages checked one after the other
are fewer than `Modulus - 1` calls apart. Without it no counter of that width can tell.
What damage is sure to be noticed is what `Crc16` shows: a word is the set of its one
bits, sender and receiver run the code's shift register side by side, and damage hits the
counter, the payload or the CRC field between them (`FeedDamaged`, `DamageField`): one
byte, or two neighbours that no border of that field parts. Other damage passes with some
probability, which `E2E` leaves out.

**FrameRules, Recorder, Dbc.** A frame has all the fields of the code with the length of
its data in place of the data. A log line has a kind, a time stamp, the flags and the
digits of the identifier as far as they decide how it is read back; a write may fail
half-way through a line. A speed is a fraction, as every finite double is; a denominator
of zero stands for infinity and NaN, with which the code waits for nothing. A DBC line has
a kind and whether its fields parse; a signal's raw value is collected bit by bit, as in
the code, and rounded to a double, the nearest number with `MantissaBits` significant bits
(`AsDouble`).

**Sequential.** These parts have no concurrency. `job` chooses one of them (or one of four
conversions) for a behaviour, so that one run covers all.

## 3. Runs

Bounds are constants of the modules or sets in the cfg.

| Run | What it checks | Bounds |
|---|---|---|
| `sub_queue` | Order, bound, loss, no lost wake-up, drained end of stream; a frame that a running `recv()` could take ends it; a close ends every `recv()` that it can see | depth 2, limit 2, 5 frames, 1 receiver, 2 closers: the queue fills and evicts twice over, the limiter refuses in between, both closers may overlap |
| `close_lost_wakeup` | violation: finding 1 | one receiver, one closer |
| `virtual_bus` | counters balance exactly; a drain that succeeds left nothing older than itself; a channel the bus closed stays silent; the bus implements `BroadcastBus` | 2 senders, 2 frames, 2 subscriptions (one DropOldest, one filtered with a limit) of depth 1, 2 closers; symmetric senders and closers |
| `virtual_bus_liveness` | every send returns; every close and drain returns; a close reaches the list | 2 senders, 3 frames of which one is invalid, 1 subscription, 1 closer |
| `orphan_subscriber` | violation: finding 2 | 1 sender, 1 frame, 1 subscription, 1 closer |
| `list_bus` | both buses implement `BroadcastBus`; a close, and the end of the reader, reach everyone on the list; the reader sleeps through no event of its socket | 2 injectors, 2 arrivals, 2 subscriptions of depth 1 (DropOldest and DropNewest), 1 closer, a socket that may fail at any time |
| `bus_off_missed` | violation: finding 3 | 1 injector, 2 arrivals of which one may be the controller going off, 1 subscription, 1 closer |
| `adapter` | what each policy may lose and what the sequence numbers say of it; the stream ends when the bus closes, but for the four named states | depth 1, 5 frames, each policy, a caller that may drop its end |
| `iso_tp` | messages arrive whole, in order and once, or not at all, in spite of losses and of frames left over; flow control keeps the queue within the block; the two sides never wait for each other; every call returns; without losses and timeouts every message arrives | messages of 5, 3 and 1 pieces, block sizes 0 to 3, sequence numbers modulo 2, depth 2 |
| `iso_tp_mixed` | violation: finding 4 | depth 1, two messages, sequence numbers modulo 16 |
| `diagnostics` | which answer a call may get; every call returns | 3 requests, 2 pending answers, 3 answers waiting; ten calls of both protocols, equal and unequal ones |
| `sequential` | at most twice the limit in any second, and a refusal means the limit was used up within the last second; every disorder is reported and nothing else is; damage to one byte, or to two neighbours on one side of a border of the CRC field, is noticed; frames survive conversions; a replay sends what was recorded with its timing; signals get their values | limit 2, 3 ticks to the second, 11 ticks, 9 arrivals; counter modulo 4, 6 calls, 1 restart of the sender, 4 checks; messages of up to 5 covered bytes, of which one is an id and two are the counter; frames around every limit of every field; logs of 3 lines, at half speed, at one and a half and at zero (which means one); every text of 4 lines and every signal of up to 10 bits in words of 8 and doubles of 6, so with lengths beyond the word and numbers that a double rounds |

For ISO-TP, sequence numbers modulo 2 wrap twice in the long message and repeat after
two losses, as they do after sixteen; block sizes above and below the depth make windows
that overflow and that do not; three messages leave frames of one to the next. In
`diagnostics` three requests let a late answer push the next one out of step in turn. In
`adapter` five frames fill both queues and the channel with one to spare.

Two frames and a depth of one are enough for a bus because everything the list and
the lock do, they do to each push alone; a third sender would only wait at the same
mutex. Two frames meet a full queue, two senders compete for the order, two closers
meet each other at the exchange. What is proved (section 5) does not depend on these
numbers. Deadlock is checked in `sub_queue` alone: elsewhere a closed bus with its frames
used up, a finished job or a client with no calls left has nothing to do.

**Fairness.** `SubQueue`: the runtime runs a task between awaits and polls it once woken
(weak fairness of each receiver's steps), and a closer that has stored `closed` goes on
to `notify_waiters()`. Nobody has to push, call `recv()` or close. `VirtualBus`: the
same for calls under way; strong fairness for taking the lock, since tokio's mutex is a
fair queue; a drain's context has a deadline (weak fairness of `DrainExpire`). Receivers
and callers owe nothing. `ListBus`: the runtime looks at epoll and polls the reader; the
mutex as before; no frame has to arrive, nobody has to read. `Adapter`: the two tasks are
polled when they can go on, a `close()` that has begun goes on, and the caller reads as
long as it keeps its receiver.
`IsoTp`: a call under way goes on and its timer fires; that the application calls
`recv()` again is a premise of `SentIsReceived`, not assumed elsewhere. `Diagnostics`: a
waiting call is woken by a message or its timer; the ECU owes nothing. `RateLimiter` and
the other jobs of `Sequential` have safety properties only.

## 4. Findings

1. `close_lost_wakeup`. `recv()` loads `closed` and only then awaits the `Notify`; a
   `close()` in between wakes no one, and nothing will be pushed to the channel again.
   `CloseEndsRecv` in `sub_queue` states what does hold: the close ends every `recv()`
   that is already registered, or has not yet loaded `closed`.
2. `orphan_subscriber`. `subscribe()` does not look at `closed` again once it holds the
   list. `CloseReachesMembers` states what does hold: whoever is on the list before the
   close gets the lock is closed.
3. `bus_off_missed`. The constant `CAN_RAW_ERR_FILTER` of `socketcan/mod.rs:41` is 4. In
   Linux the error filter is option 2, and 4 is `CAN_RAW_RECV_OWN_MSGS`. So no error frame
   is ever delivered, a controller that goes off is not noticed, and `bus_off` is never
   set: `ListBusNeverBusOff` proves it for any traffic.
4. `iso_tp_mixed`. When a first frame is lost to a full queue, `recv()` can return the
   first frame of one message followed by the consecutive frames of another.
   `ImplementsMessageChannel` states what does hold: until a first frame is lost, no loss
   of other frames, no timeout and no frame left over makes `recv()` return anything but
   the messages sent.

Other places where the code and its documents part, with no run of their own. The models
do what the code does; the properties named state what holds instead.

- Limiter: the window is fixed, though `bus.rs:68` calls it sliding, so twice the limit
  fits in one second (`AtMostTwiceTheLimit`).
- Virtual bus: `metrics()` counts a frame that DropOldest evicts as delivered, never as
  dropped (`MetricsBalance` makes the sum exact).
- E2E: after a late repetition was reported the receiver counts on from it and accepts
  the message after it a second time (`safety/mod.rs:252`, REQ-SAFETY-005). `unwrap()`
  computes the CRC with its own ids, so damage to the ids in the header goes unseen
  (LLR-SAFETY-004-1). The CRC field stands between the header and the payload
  that it covers, so two neighbouring bytes on either side of its border can be damaged
  without notice: bytes 9 and 10 of a message with two bytes of payload, by 0xA1 and 0x89,
  or bytes 7 and 8 of one without payload, by 0x89 and 0xA1 (`BorderDamagePasses` in
  `MCSequential` computes both). The loop of the CRC is written twice, in `crc.rs` and in
  `safety/mod.rs`; only the first has a test with a known value.
- ISO-TP: `send()` and `recv()` ignore the deadline of their context (REQ-ISOTP-005) and
  apply the configured timeout to each frame.
- SocketCAN and mock: `subscribe()` does not look at the filters. Received frames are not
  validated (REQ-SEC-001), nor is a frame that the mock sends (REQ-CAN-004).
- SocketCAN: the comment at `socketcan/mod.rs:542` says that closed subscribers are
  collected by `subscribe()`; they never are. After a socket error the
  reader ends and the bus stays open: later subscribers are not served. Receivers of a
  dropped bus end only when another frame arrives. The option that is set instead of the
  error filter (finding 3) brings the frames that a bus sends back to its own subscribers
  (`SendFrame`).
- SocketCAN: the reader takes the socket's readiness away after a read that returned a
  frame too (`socketcan/mod.rs:504`). Frames that arrived together with that one stay in
  the socket until the next event. `EventIsHeard` states what holds: each event makes the
  reader take the frame at the front.
- Adapter: `InvalidFrame` and `BusOff` reach the caller as `Closed`. A frame that is not
  CAN XL may validate with CAN XL fields set; `to_message` drops them (REQ-CAN-007,
  `Clean` in `Sequential`). A stream need not end when its bus is closed, in four cases,
  the exceptions of `StreamEnds`: the subscription joins after the close (finding 2), the
  producer's `recv()` misses the close (finding 1), `AdaptQueue` misses the close that the
  producer passes on in the same way, or a Block push waits for a forwarder that has gone.
- J1939: a priority above 7, or a peer-to-peer PGN whose low byte is not zero, does not
  come back from `decode_id` (REQ-J1939-004, `Kept`); a receiver that lists such a PGN
  gets nothing.
- UDS: a negative answer is taken without comparing the service it names, and one
  timeout shifts all later answers by one until a message is lost (`InStep`).
- Recorder: a line does not hold the extended flag of a low id, the remote flag or ESI; an
  FD frame with an extended id ends the replay; a line torn by a failed write may replay
  as a shorter frame (`Recordable`, `Intact`). FD flags are written as two hex digits, where
  candump uses one.
- DBC: signals wider than a word of 64 bits shift beyond it, which panics in a debug build
  and gives another number in a release build; the sign extension overflows for signed
  signals of no bits and of a whole word, and in a debug build for a negative one of 63;
  `decode()` returns a double, so raw values of more than 53 bits are rounded;
  separators in the wrong order panic; a blank line between `BO_` and its `SG_` drops the
  signals without an error (`SignalsDecoded`).

## 5. Proofs

TLAPS proves, for every value of the constants that the assumptions allow, thirty-seven
theorems about what the runs check on their instances. Each safety theorem has the same
shape: an inductive invariant with `Init => IInv`, `IInv /\ [Next]_vars => IInv'` and
`IInv => property`; TLC confirmed each inductive invariant on the run's instance first.
All the sets of tasks, subscriptions, messages and frames may be infinite.

`SubQueueProofs` (six). Assumed: `SubQueueAssumption`, a depth of at least one and a
limit and a number of frames in `Nat`; `Receivers` and `Closers` are any sets. The
invariant conjoins the properties with what they need: accepted frames are among those
offered (`AcceptedOffered`); while the one task of a receiver is between its pop and its
await and a frame is queued, a permit is stored, so that the await returns at once
(`PermitForQueued`, without which `NoLostWakeup` is not preserved by `Listen`); and the
final pop is reached on a closed channel only, whose mark is no later than what has been
offered (`CloseKnown`). `EnqueueFacts` in `PushRulesProofs` says once what every policy
does to a queue: order kept, nothing new but the frame, only the head lost.
`SubQueueCloseSeen` is the safety half of `CloseEndsRecv`: what a task sees of a close
(`SeesClose`) it sees for good, so what is left to fairness is that the steps of `recv()`
are taken.

`VirtualBusProofs` (six: types, `DrainDelivers`, `BusClosedStaysSilent`, `MetricsBalance`,
`ImplementsBroadcast`, the refinement, and `VirtualBusCloseSweeps`). Assumed:
`VirtualBusAssumption`. The strengthening says that whoever pushes holds the lock and its
frame is the newest (`Broadcasting`), that who has not joined has seen nothing
(`Outsiders`), that channels closed by the bus are off the list (`ClosedAreGone`), that no
frame is broadcast twice (`NoFrameTwice`), that each queue continues, in the order of the
log, behind the frame its subscriber got last (`InOrder`), that subscribers the broadcast
has not reached hold older frames only (`NotYetReached`), and that after a successful
drain what is queued is newer than its mark (`Drained`). For the refinement `SendLock` is
the abstract publication, `SubscribeJoin` the abstract join, `Receive` the abstract read,
and every other step a stutter (`QuietFacts`). `MetricsBalance` sums counts over sets of
tasks. It states a sum as the number of elements of a set with one element for each unit
(`Units`), so that a step that adds one adds an element (`UnitsGrow`) and `SendCount`,
which moves a local into a counter, takes away as many as the local counts (`UnitsDrop`);
no fold has to be unrolled. `VirtualBusCloseSweeps` is the safety half of the liveness
properties: the holder of the lock can always go on, every open receiver is on the list,
and the close that gets the lock leaves none of them open.

`ListBusProofs` (four: types, `ImplementsBroadcast` for both buses,
`ListBusEndSweeps`, the safety half of `EndReachesMembers`, and `ListBusNeverBusOff`, which
says that finding 3 is no accident of an instance). Assumed:
`ListBusAssumption`. The lock keeps deliveries apart (`Delivering`); the list, and what is
left of it for a delivery, names each joined subscription once (`Listed`), which matters
here because the list is a sequence that nothing is ever taken off while the bus is open.
A frame that has arrived is in one place only, the socket, one feeder or the log
(`NoFrameTwice`, `SocketIsNew`); the rest is as for the virtual bus. The reader's
steps through readiness, errors and bus-off are stutters.

`AdapterProofs` (three: types, `LossFollowsPolicy` and `AdapterRests`). Assumed:
`AdapterAssumption`; that `NoMsg` is no message is part of it. What is on its way from the
bus to the caller is one sequence, cut at the queues and the two tasks (`Pipeline`). Every
step leaves it, appends one message at its end, or takes one out of it, and that keeps
each message at its number's place or before it (`InOrder`). That a message is missing
only as the policy has it (`NoUndueLoss`) is about the one step that takes one out; to see
that this is the push on a full queue under a dropping policy, a task must hold a message
exactly between the step that takes one and the one that puts it on (`TaskTypes`).
`AdapterRests` says where tasks and caller may rest for good once the close is through: at
the end of the stream or in one of the four exceptions of `StreamEnds`; and that the two
tasks never wait for each other. It follows from what each waits for (`WaitsFor`): room in
a full queue, or a frame or message in an empty one, with no notification stored, and
a full queue is not empty.

`IsoTpProofs` (five: types, the refinement of `MessageChannel`, the consequence that
`recv()` returns only what `send()` was given, `WindowRespected` and `NoStandstill`).
Assumed: `IsoTpAssumption`; block sizes, depth, number and length of messages and the
modulus of the sequence numbers are any. The invariant has four layers. `Known`: the
locals of the two calls belong to one message, and frames to messages that were sent.
`Orderly`, until a first frame is lost: a message begins after all that was sent before
it, consecutive frames follow their own first frame or piece, and pieces go up from the
buffer of `recv()` to `send()`, so a buffer as long as the message holds all of it though
the four bits of the sequence number cannot tell a loss of sixteen; for this
`BufferGrows` says that the piece numbers in the buffer rise at least as fast as its
length. `Credit`, until a transfer is interrupted: the grant of `recv()` and the count of
`send()` are the same block, seen from two ends of the queue. `Lossless`, until anything
is lost: the pieces in the queue continue where the buffer ends, which is what excludes a
standstill. The received messages map to a rising sequence of places in those sent; the
return of `recv()` is the abstract receive, everything else between stutters.

`DiagnosticsProofs` (two). What is on its way between client and ECU stands in the order
of the requests (`InOrder`), belongs to requests that are open or given up (`Accounted`),
and carries the service and echo of its request (`AllTruthful`). So an answer that ends a
call belongs to it or to one abandoned before.

`SequentialProofs` (eleven). One section for each part, about the part's own specification
where it has one, and `SequentialKeeps`, which puts them together: a step of `Sequential`
is a step of one part and a stutter of the others.

- Limiter. The second before the present window lies within the window
  before it, so any second holds at most a limit's worth of each. The invariant:
  `AdmittedInTime`, `WindowCounted` and `SecondBeforeBounded`; the counting is by
  cardinality of sets of positions.
- E2E. Assumed: a modulus above two. The strengthening is `LastChecked`: `last_seq` is the
  counter of the message checked last, and `first` holds exactly when none was. The
  argument is arithmetic: two calls closer than the modulus less one have consecutive
  counters exactly when they are consecutive (`Consecutive`).
- Checksum. A step of the register is linear and one-to-one, and eight steps move a
  difference of the low byte into the high one, where the next byte meets it; so damage to
  one byte or to two neighbours drives the two registers apart, and what follows undamaged
  never brings them together. Damage to the CRC field alone leaves the registers equal
  and the field different from both. Damage on both sides of a border of the field is
  excluded (section 4).
- Recorder. The log is at rest while it is replayed, and a line that was written whole
  parses back into its frame; the replay has sent the frames of the lines before its
  own, no earlier than the speed factor allows. Speeds are any fractions, infinity and
  NaN. The quotient is taken exactly: below 2^53 nanoseconds, 104 days, the rounding of
  a double may make a wait longer and never shorter.
- Conversions. Each is shown field by field to undo the other on `Frames`, the set of all
  records with the code's fields; for J1939 the identifier is taken apart by quotients
  and remainders of packed fields (`PackedFields`, `IdRoundTrip`), for every priority,
  PGN, address and length.
- DBC parser. The message that the parser holds is the block that the lines read so far
  leave open, and the database describes the blocks that they have ended, each up to where
  the text really ends it (`DbcInv`). `DbcParsed` states the parser's half of
  `SignalsDecoded`, for texts of any length. Assumed is that a text is a sequence of lines
  of the known forms (`IsText`).
- DBC decoder. `DbcDecoded` is `SignalsDecoded` whole: `decode()` answers for every signal
  of the message with the number its bits stand for, for signals of any place, payloads of
  any size, words and doubles of any size: exactly up to 2^MantissaBits, and above to one
  part in 2^MantissaBits, since rounding moves a number by half a unit at most and the
  number has `MantissaBits` bits of that unit (`NearestClose`, `DoubleClose`). For lengths at which the word overflows (section 4) it
  promises nothing, and for a signed signal of one bit less it allows the overflow too.
  The bits of the little-endian word are those of the payload bytes joined, which a sum
  over a set of bits states; a sum loses its largest element at a time, so the facts about
  it go by induction, taken from the least element of a set of numbers (`Induction`, over
  `WellFoundedInduction`) because the induction theorems with an operator parameter cannot
  be used. Shifting right and taking the remainder cuts out the field; the walk of a
  big-endian signal visits the bits from the top of each byte down (`Standing`) and
  collects them in that order; the sign extension subtracts a power of two. `Answered` is
  the invariant: the last answer belongs to the call made last. Assumed: signals have the
  types that the parser gives them (`IsText`), payloads are sequences of bytes, and a word
  and a significand have at least one bit.

Every safety invariant and action property of the passing runs is proved. Only
model-checked are the liveness properties under their fairness (for several of them the
safety they rest on is proved, as said above), because `ENABLED` and fairness are beyond
TLAPS here: `CloseEndsRecv`, `WaitingFrameIsTaken`, `SendReturns`, `CloseReturns`,
`CloseReachesMembers`, `EndReachesMembers`, `EventIsHeard`, `StreamEnds`, `CallsReturn`,
`SentIsReceived` and `CallsEnd`.

## 6. Not modelled, and the plan

`PROJECT.json` gives the reason part by part. Left out altogether: the message
authenticator (a stateless call into a cryptographic library), payload serialisation and
the command-line tools. Abstracted in what is modelled: byte counters (they move with the
frame counters), the bytes of payloads, the wording of errors, the time between polls of a
drain, factor and offset of a DBC signal, the arithmetic of OBD-II formulas. Of ISO-TP:
separation times, WAIT and OVERFLOW (only a foreign receiver sends them), frames without
data, and one connection that sends and receives at once. Two tasks that wait on one
receiver, or that share one UDS client, are not modelled: a subscription is taken to have
one reader. Of the mock: its record of sent frames. Of the recorder: errors while reading
a log, and write errors of a SocketCAN bus that takes a replay. Of the conversions: the
error that `from_message` returns for an id that is no number. Of E2E: how two messages
compare of which one was sent before a restart of the sender and one after, and damage that
the CRC misses by chance.

What remains, in this order:

1. `IsoTp` with both directions on one connection, which `Diagnostics` needs for a
   refinement of its message channels, and with separation times.
2. A drain without a deadline against a receiver dropped with frames queued.
