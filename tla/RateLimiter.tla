---------------------------- MODULE RateLimiter ----------------------------
(***************************************************************************)
(* The rate limiter at the head of SubInner::push (src/bus.rs) against a   *)
(* clock: SubQueue leaves open when a second has passed, this module keeps *)
(* the time.  One tick is the resolution at which frames arrive.           *)
(***************************************************************************)
EXTENDS PushRules, FiniteSets

CONSTANTS
  Limit,           \* rate_limit_per_sec, > 0: with 0 the block is skipped
  TicksPerSecond,  \* clock ticks in one second
  MaxTime,         \* bound on the clock
  MaxArrivals      \* bound on the frames of one behaviour

ASSUME RateLimiterAssumption ==
  /\ Limit \in Nat \ {0}
  /\ TicksPerSecond \in Nat \ {0}
  /\ MaxTime \in Nat
  /\ MaxArrivals \in Nat

VARIABLES
  now,          \* Instant::now(), in ticks
  windowStart,  \* RateState.window_start
  count,        \* RateState.count
  arrivals,     \* history: number of frames that have arrived
  admitted      \* history: times at which the limiter let a frame through

limiterVars == <<now, windowStart, count, arrivals, admitted>>

LimiterInit ==
  /\ now = 0
  /\ windowStart = 0
  /\ count = 0
  /\ arrivals = 0
  /\ admitted = <<>>

Tick ==
  /\ now < MaxTime
  /\ now' = now + 1
  /\ UNCHANGED <<windowStart, count, arrivals, admitted>>

---------------------------------------------------------------------------
(* Variants with one bug each.                                             *)

\* A window that starts again with every frame, full or not.
WindowAlwaysAfter(expired) == now

---------------------------------------------------------------------------

\* now.duration_since(window_start).as_secs() >= 1
WindowExpired == now - windowStart >= TicksPerSecond

WindowAfter(expired) == IF expired THEN now ELSE windowStart

\* The limiter's part of push(), for a frame that arrives now.
Arrive(expired) ==
  /\ arrivals < MaxArrivals
  /\ arrivals' = arrivals + 1
  /\ windowStart' = WindowAfter(expired)
  /\ count' = CountAfter(Limit, count, expired)
  /\ admitted' = IF Admits(Limit, count, expired)
                 THEN Append(admitted, now) ELSE admitted
  /\ UNCHANGED now

LimiterNext == Tick \/ Arrive(WindowExpired)

LimiterSpec == LimiterInit /\ [][LimiterNext]_limiterVars

---------------------------------------------------------------------------

\* How many of the admitted frames came in the ticks from..to.
AdmittedIn(from, to) ==
  Cardinality({i \in 1..Len(admitted) : from <= admitted[i] /\ admitted[i] <= to})

\* What a fixed window guarantees: no second, wherever it begins, lets more
\* than twice the limit through.
AtMostTwiceTheLimit ==
  \A s \in 0..now : AdmittedIn(s, s + TicksPerSecond - 1) <= 2 * Limit

\* A frame is refused only when the limit was used up within the last second,
\* so a subscriber that receives less than its limit loses nothing.
RefusalJustified ==
  [][arrivals' # arrivals /\ admitted' = admitted
       => AdmittedIn(now - TicksPerSecond + 1, now) >= Limit]_limiterVars
=============================================================================
