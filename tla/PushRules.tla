----------------------------- MODULE PushRules -----------------------------
(***************************************************************************)
(* What SubInner::push (src/bus.rs) decides about one arriving frame: the  *)
(* rate limiter first, then the back-pressure policy of the subscriber.    *)
(* These are operators on values; SubQueue, RateLimiter and VirtualBus     *)
(* build their actions from them.                                          *)
(***************************************************************************)
EXTENDS Integers, Sequences

\* BackPressurePolicy.
Policies == {"DropNewest", "DropOldest", "Block"}

---------------------------------------------------------------------------
(* Variants with one bug each, against which the runs test the properties. *)

IsFullOffByOne(q, capacity) == Len(q) > capacity

EnqueueEvictsNewest(policy, q, capacity, f) ==
    IF policy = "DropOldest" /\ Len(q) >= capacity
    THEN Append(SubSeq(q, 1, Len(q) - 1), f)
    ELSE Append(q, f)

EnqueueInFront(policy, q, capacity, f) ==
    IF policy = "DropOldest" /\ Len(q) >= capacity
    THEN <<f>> \o Tail(q)
    ELSE Append(q, f)

\* Refused frames are counted too.
CountBeforeCheck(limit, count, expired) ==
    IF limit = 0 THEN count ELSE IF expired THEN 1 ELSE count + 1

\* The new window begins with a full count of places.
CountLeftOutOnReset(limit, count, expired) ==
    IF limit = 0 \/ (~expired /\ count >= limit) THEN count
    ELSE IF expired THEN 0 ELSE count + 1

---------------------------------------------------------------------------
(* Back-pressure.                                                          *)

\* q.len() >= self.capacity
IsFull(q, capacity) == Len(q) >= capacity

\* Only DropNewest refuses the arriving frame; for Block "capacity is
\* advisory", so the frame is always pushed.
Accepts(policy, q, capacity) == policy = "DropNewest" => ~IsFull(q, capacity)

\* The queue after a frame that Accepts let in.
Enqueue(policy, q, capacity, f) ==
    IF policy = "DropOldest" /\ IsFull(q, capacity)
    THEN Append(Tail(q), f)
    ELSE Append(q, f)

---------------------------------------------------------------------------
(* Rate limiter: limit = 0 means none.  expired says that a whole second   *)
(* has passed since the window began, which starts the window again.  The  *)
(* count goes up before the policy has decided, so a frame that            *)
(* DropNewest then refuses has used up its place.                          *)

CountInWindow(count, expired) == IF expired THEN 0 ELSE count

Admits(limit, count, expired) ==
    limit = 0 \/ CountInWindow(count, expired) < limit

CountAfter(limit, count, expired) ==
    IF limit = 0 THEN count
    ELSE CountInWindow(count, expired)
         + (IF Admits(limit, count, expired) THEN 1 ELSE 0)
=============================================================================
