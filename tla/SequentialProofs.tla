-------------------------- MODULE SequentialProofs --------------------------
(***************************************************************************)
(* The components of Sequential, one after the other: each proof is about  *)
(* the component's own specification, and the last theorem puts them       *)
(* together for the behaviours of Sequential.                              *)
(***************************************************************************)
EXTENDS Sequential, FiniteSetTheorems, FunctionTheorems, WellFoundedInduction, TLAPS

---------------------------------------------------------------------------
(* RateLimiter, for every limit, every resolution of the clock and however *)
(* long it runs.                                                           *)
(*                                                                         *)
(* The argument: a frame is admitted within a second of the beginning of   *)
(* its window, so the second before the present window lies within the     *)
(* window before it.  Any second that holds the newest frame is then made  *)
(* of at most a limit's worth of each of the two.                          *)

---------------------------------------------------------------------------
(* Counting in a sequence of times.                                        *)

Hits(times, from, to) ==
  {i \in 1..Len(times) : from <= times[i] /\ times[i] <= to}

NumHits(times, from, to) == Cardinality(Hits(times, from, to))

\* There are finitely many hits.
LEMMA HitsFinite ==
  ASSUME NEW times \in Seq(Nat), NEW from \in Int, NEW to \in Int
  PROVE  /\ IsFiniteSet(Hits(times, from, to))
         /\ NumHits(times, from, to) \in Nat
<1>1. IsFiniteSet(1..Len(times))
      BY FS_Interval
<1>2. Hits(times, from, to) \in SUBSET (1..Len(times))
      BY DEF Hits
<1>3. IsFiniteSet(Hits(times, from, to))
      BY <1>1, <1>2, FS_Subset
<1> QED BY <1>3, FS_CardinalityType DEF NumHits

\* A longer interval has no fewer hits.
LEMMA HitsMonotonic ==
  ASSUME NEW times \in Seq(Nat), NEW from \in Int, NEW to \in Int,
         NEW from2 \in Int, NEW to2 \in Int,
         Hits(times, from, to) \subseteq Hits(times, from2, to2)
  PROVE  NumHits(times, from, to) <= NumHits(times, from2, to2)
BY HitsFinite, FS_Subset DEF NumHits

\* An interval that two others cover has no more hits than both.
LEMMA HitsSplit ==
  ASSUME NEW times \in Seq(Nat), NEW from \in Int, NEW to \in Int,
         NEW low \in Int, NEW cut \in Int, NEW high \in Int,
         low <= from, \A i \in 1..Len(times) : times[i] <= high
  PROVE  NumHits(times, from, to)
           <= NumHits(times, low, cut - 1) + NumHits(times, cut, high)
<1> DEFINE A == Hits(times, low, cut - 1)
           B == Hits(times, cut, high)
<1>1. Hits(times, from, to) \in SUBSET (A \cup B)
      BY DEF Hits
<1>2. /\ IsFiniteSet(A) /\ Cardinality(A) \in Nat
      /\ IsFiniteSet(B) /\ Cardinality(B) \in Nat
      BY HitsFinite DEF NumHits
<1> HIDE DEF A, B
<1>3. /\ IsFiniteSet(A \cup B)
      /\ Cardinality(A \cup B) = Cardinality(A) + Cardinality(B) - Cardinality(A \cap B)
      BY <1>2, FS_Union
<1>4. Cardinality(A \cap B) \in Nat
  <2>1. A \cap B \in SUBSET A
        OBVIOUS
  <2>2. IsFiniteSet(A \cap B)
        BY <2>1, <1>2, FS_Subset
  <2> QED BY <2>2, FS_CardinalityType
<1>5. Cardinality(A \cup B) \in Nat
      BY <1>3, FS_CardinalityType
<1>6. Cardinality(Hits(times, from, to)) <= Cardinality(A \cup B)
      BY <1>1, <1>3, FS_Subset
<1>7. Cardinality(Hits(times, from, to)) \in Nat
      BY HitsFinite DEF NumHits
<1> QED BY <1>2, <1>3, <1>4, <1>5, <1>6, <1>7 DEF NumHits, A, B

\* One more time counts where it falls.
LEMMA HitsAppend ==
  ASSUME NEW times \in Seq(Nat), NEW t \in Nat, NEW from \in Int, NEW to \in Int
  PROVE  NumHits(Append(times, t), from, to)
           = NumHits(times, from, to) + (IF from <= t /\ t <= to THEN 1 ELSE 0)
<1> DEFINE n == Len(times) + 1
           old == Hits(times, from, to)
<1>1. IsFiniteSet(old) /\ Cardinality(old) \in Nat
      BY HitsFinite DEF NumHits
<1>2. n \notin old
      BY DEF Hits
<1>3. CASE from <= t /\ t <= to
  <2>1. Hits(Append(times, t), from, to) = old \cup {n}
        BY <1>3 DEF Hits
  <2>2. Cardinality(old \cup {n}) = Cardinality(old) + 1
        BY <1>1, <1>2, FS_AddElement
  <2> QED BY <2>1, <2>2, <1>3 DEF NumHits
<1>4. CASE ~(from <= t /\ t <= to)
  <2>1. Hits(Append(times, t), from, to) = old
        BY <1>4 DEF Hits
  <2> QED BY <1>1, <1>4, <2>1 DEF NumHits
<1> QED BY <1>3, <1>4

\* An interval behind all times has no hits.
LEMMA NoHits ==
  ASSUME NEW times \in Seq(Nat), NEW from \in Int, NEW to \in Int,
         \A i \in 1..Len(times) : times[i] < from
  PROVE  NumHits(times, from, to) = 0
<1>1. Hits(times, from, to) = {}
      BY DEF Hits
<1> QED BY <1>1, FS_EmptySet DEF NumHits

---------------------------------------------------------------------------
(* The inductive invariant.                                                *)

Types ==
  /\ now \in Nat /\ windowStart \in 0..now
  /\ count \in 0..Limit
  /\ arrivals \in Nat
  /\ admitted \in Seq(Nat)

\* Admitted in the past, and within a second of the window's beginning.
AdmittedInTime ==
  \A i \in 1..Len(admitted) :
    admitted[i] <= now /\ admitted[i] < windowStart + TicksPerSecond

\* The count is that of the present window, and the second before it let no
\* more through than the limit.
WindowCounted == NumHits(admitted, windowStart, now) = count

SecondBeforeBounded ==
  NumHits(admitted, windowStart - TicksPerSecond, windowStart - 1) <= Limit

IInv ==
  /\ Types /\ AdmittedInTime /\ WindowCounted /\ SecondBeforeBounded
  /\ AtMostTwiceTheLimit

USE RateLimiterAssumption

\* AtMostTwiceTheLimit is about NumHits.
LEMMA AtMostTwice ==
  AtMostTwiceTheLimit
    <=> \A s \in 0..now : NumHits(admitted, s, s + TicksPerSecond - 1) <= 2 * Limit
BY DEF AtMostTwiceTheLimit, AdmittedIn, NumHits, Hits

\* A second that ends now or later has its frames in the present window and in
\* the second before that.  n is now, w the beginning of the window.
LEMMA LastSecondBounded ==
  ASSUME NEW times \in Seq(Nat), NEW n \in Nat, NEW w \in Nat,
         \A i \in 1..Len(times) : times[i] <= n,
         w <= n,
         NumHits(times, w, n) <= Limit,
         NumHits(times, w - TicksPerSecond, w - 1) <= Limit,
         NEW s \in Int, s + TicksPerSecond > n
  PROVE  NumHits(times, s, s + TicksPerSecond - 1) <= 2 * Limit
<1> DEFINE low == w - TicksPerSecond
           to == s + TicksPerSecond - 1
<1>1. low \in Int /\ to \in Int /\ w - 1 \in Int /\ low <= s
      OBVIOUS
<1> HIDE DEF low, to
<1>2. NumHits(times, s, to) <= NumHits(times, low, w - 1) + NumHits(times, w, n)
      BY <1>1, HitsSplit
<1>3. /\ NumHits(times, low, w - 1) \in Nat /\ NumHits(times, w, n) \in Nat
      /\ NumHits(times, s, to) \in Nat
      BY <1>1, HitsFinite
<1>4. NumHits(times, low, w - 1) <= Limit
      BY DEF low
<1>5. NumHits(times, s, to) <= 2 * Limit
      BY <1>2, <1>3, <1>4
<1> QED BY <1>5 DEF to

---------------------------------------------------------------------------

\* The initial states.
LEMMA InitIInv == LimiterInit => IInv
<1> SUFFICES ASSUME LimiterInit PROVE IInv
    OBVIOUS
<1>1. Types /\ AdmittedInTime
      BY DEF LimiterInit, Types, AdmittedInTime
<1>2. \A from, to \in Int : NumHits(admitted, from, to) = 0
  <2> SUFFICES ASSUME NEW from \in Int, NEW to \in Int
               PROVE  NumHits(admitted, from, to) = 0
      OBVIOUS
  <2>1. admitted \in Seq(Nat) /\ \A i \in 1..Len(admitted) : admitted[i] < from
        BY DEF LimiterInit
  <2> QED BY <2>1, NoHits
<1>3. WindowCounted /\ SecondBeforeBounded
      BY <1>1, <1>2 DEF WindowCounted, SecondBeforeBounded, LimiterInit
<1>4. AtMostTwiceTheLimit
      BY <1>2, AtMostTwice DEF LimiterInit
<1> QED BY <1>1, <1>3, <1>4 DEF IInv

\* The clock ticks: the window stays and no frame is younger than it was.
LEMMA TickIInv == IInv /\ Tick => IInv'
<1> SUFFICES ASSUME IInv, Tick PROVE IInv'
    OBVIOUS
<1>0. /\ now' = now + 1
      /\ UNCHANGED <<windowStart, count, arrivals, admitted>>
      /\ Types /\ AdmittedInTime
      BY DEF IInv, Tick
<1>1. Types' /\ AdmittedInTime'
      BY <1>0 DEF Types, AdmittedInTime
<1>2. WindowCounted'
  <2>1. Hits(admitted, windowStart, now + 1) = Hits(admitted, windowStart, now)
        BY <1>0 DEF Hits, Types, AdmittedInTime
  <2> QED BY <1>0, <2>1 DEF IInv, WindowCounted, NumHits
<1>3. SecondBeforeBounded'
      BY <1>0 DEF IInv, SecondBeforeBounded
<1>4. AtMostTwiceTheLimit'
  <2> SUFFICES ASSUME NEW s \in 0..now'
               PROVE  NumHits(admitted', s, s + TicksPerSecond - 1) <= 2 * Limit
      BY DEF AtMostTwiceTheLimit, AdmittedIn, NumHits, Hits
  <2>1. CASE s + TicksPerSecond > now + 1
    <3>1. s + TicksPerSecond > now' /\ s \in Int
          BY <1>0, <2>1 DEF Types
    <3>2. /\ admitted' \in Seq(Nat) /\ now' \in Nat
          /\ windowStart' \in Nat /\ windowStart' <= now'
          /\ \A i \in 1..Len(admitted') : admitted'[i] <= now'
          BY <1>1 DEF Types, AdmittedInTime
    <3>3. /\ NumHits(admitted', windowStart', now') <= Limit
          /\ NumHits(admitted', windowStart' - TicksPerSecond, windowStart' - 1)
               <= Limit
          BY <1>1, <1>2, <1>3 DEF Types, WindowCounted, SecondBeforeBounded
    <3> QED BY <3>1, <3>2, <3>3, LastSecondBounded
  <2>2. CASE s + TicksPerSecond <= now + 1
    <3>1. s \in 0..now
          BY <1>0, <2>2 DEF Types
    <3> QED BY <1>0, <3>1, AtMostTwice DEF IInv
  <2> QED BY <1>0, <2>1, <2>2 DEF Types
<1> QED BY <1>1, <1>2, <1>3, <1>4 DEF IInv

\* After an arrival the window has not expired, and began now or where it did;
\* where it began now, the second before it is part of the old window.
LEMMA ArriveWindow ==
  ASSUME IInv, Arrive(WindowExpired)
  PROVE  /\ Types' /\ AdmittedInTime' /\ WindowCounted' /\ SecondBeforeBounded'
<1>0. /\ Types /\ AdmittedInTime /\ WindowCounted /\ SecondBeforeBounded
      /\ now' = now /\ arrivals' = arrivals + 1
      BY DEF IInv, Arrive
<1>a. /\ now \in Nat /\ windowStart \in Nat /\ windowStart <= now
      /\ count \in Nat /\ count <= Limit
      /\ admitted \in Seq(Nat) /\ Limit \in Nat /\ Limit >= 1
      /\ TicksPerSecond \in Nat /\ TicksPerSecond >= 1 /\ arrivals \in Nat
      BY <1>0 DEF Types
<1>b. \A i \in 1..Len(admitted) :
        /\ admitted[i] \in Nat /\ admitted[i] <= now
        /\ admitted[i] < windowStart + TicksPerSecond
      BY <1>a, <1>0 DEF AdmittedInTime
<1>1. CASE WindowExpired
  <2>1. /\ windowStart' = now /\ count' = 1 /\ admitted' = Append(admitted, now)
        /\ now >= windowStart + TicksPerSecond
        BY <1>1, <1>a DEF Arrive, WindowExpired, WindowAfter, CountAfter, Admits,
                          CountInWindow
  <2>2. Types'
        BY <1>0, <1>a, <2>1 DEF Types
  <2>3. AdmittedInTime'
        BY <1>0, <1>a, <1>b, <2>1 DEF AdmittedInTime
  <2>4. WindowCounted'
    <3>1. NumHits(admitted, now, now) = 0
      <4>1. \A i \in 1..Len(admitted) : admitted[i] < now
            BY <1>a, <1>b, <2>1
      <4> QED BY <1>a, <4>1, NoHits
    <3>2. NumHits(Append(admitted, now), now, now) = 1
          BY <1>a, <3>1, HitsAppend
    <3> QED BY <1>0, <2>1, <3>2 DEF WindowCounted
  <2>5. SecondBeforeBounded'
    <3>1. now - TicksPerSecond \in Int /\ now - 1 \in Int
          BY <1>a
    <3>2. Hits(admitted, now - TicksPerSecond, now - 1)
            \subseteq Hits(admitted, windowStart, now)
          BY <1>a, <1>b, <2>1 DEF Hits
    <3>3. /\ NumHits(admitted, now - TicksPerSecond, now - 1) <= count
          /\ NumHits(admitted, now - TicksPerSecond, now - 1) \in Nat
          BY <1>0, <1>a, <3>1, <3>2, HitsMonotonic, HitsFinite DEF WindowCounted
    <3>4. NumHits(Append(admitted, now), now - TicksPerSecond, now - 1)
            = NumHits(admitted, now - TicksPerSecond, now - 1)
          BY <1>a, <3>1, <3>3, HitsAppend
    <3> QED BY <1>a, <2>1, <3>3, <3>4 DEF SecondBeforeBounded
  <2> QED BY <2>2, <2>3, <2>4, <2>5
<1>2. CASE ~WindowExpired /\ count < Limit
  <2>1. /\ windowStart' = windowStart /\ count' = count + 1
        /\ admitted' = Append(admitted, now)
        /\ now < windowStart + TicksPerSecond
        BY <1>2, <1>a DEF Arrive, WindowExpired, WindowAfter, CountAfter, Admits,
                          CountInWindow
  <2>2. Types'
        BY <1>0, <1>a, <1>2, <2>1 DEF Types
  <2>3. AdmittedInTime'
        BY <1>0, <1>a, <1>b, <2>1 DEF AdmittedInTime
  <2>4. WindowCounted'
    <3>1. NumHits(Append(admitted, now), windowStart, now)
            = NumHits(admitted, windowStart, now) + 1
          BY <1>a, HitsAppend
    <3> QED BY <1>0, <2>1, <3>1 DEF WindowCounted
  <2>5. SecondBeforeBounded'
    <3> DEFINE low == windowStart - TicksPerSecond
               high == windowStart - 1
    <3>1. low \in Int /\ high \in Int /\ ~(now <= high)
          BY <1>a
    <3>2. NumHits(admitted, low, high) \in Nat
          BY <1>a, <3>1, HitsFinite
    <3>3. NumHits(Append(admitted, now), low, high) = NumHits(admitted, low, high)
          BY <1>a, <3>1, <3>2, HitsAppend
    <3> QED BY <1>0, <2>1, <3>3 DEF SecondBeforeBounded
  <2> QED BY <2>2, <2>3, <2>4, <2>5
<1>3. CASE ~WindowExpired /\ ~(count < Limit)
  <2>1. UNCHANGED <<now, windowStart, count, admitted>>
        BY <1>3, <1>a DEF Arrive, WindowAfter, CountAfter, Admits, CountInWindow
  <2> QED BY <1>0, <1>a, <2>1
          DEF Types, AdmittedInTime, WindowCounted, SecondBeforeBounded
<1> QED BY <1>1, <1>2, <1>3

\* A frame arrives: a second that holds it ends now or later.
LEMMA ArriveIInv == IInv /\ Arrive(WindowExpired) => IInv'
<1> SUFFICES ASSUME IInv, Arrive(WindowExpired) PROVE IInv'
    OBVIOUS
<1>1. Types' /\ AdmittedInTime' /\ WindowCounted' /\ SecondBeforeBounded'
      BY ArriveWindow
<1>2. now' = now /\ now \in Nat /\ admitted \in Seq(Nat)
      BY DEF IInv, Arrive, Types
<1>3. admitted' = Append(admitted, now) \/ admitted' = admitted
      BY DEF Arrive
<1>4. AtMostTwiceTheLimit'
  <2> SUFFICES ASSUME NEW s \in 0..now'
               PROVE  NumHits(admitted', s, s + TicksPerSecond - 1) <= 2 * Limit
      BY DEF AtMostTwiceTheLimit, AdmittedIn, NumHits, Hits
  <2> DEFINE to == s + TicksPerSecond - 1
  <2>1. s \in Int /\ to \in Int
        BY <1>2
  <2>2. CASE s + TicksPerSecond > now'
    <3>1. /\ admitted' \in Seq(Nat) /\ now' \in Nat
          /\ windowStart' \in Nat /\ windowStart' <= now'
          /\ \A i \in 1..Len(admitted') : admitted'[i] <= now'
          BY <1>1 DEF Types, AdmittedInTime
    <3>2. /\ NumHits(admitted', windowStart', now') <= Limit
          /\ NumHits(admitted', windowStart' - TicksPerSecond, windowStart' - 1)
               <= Limit
          BY <1>1 DEF Types, WindowCounted, SecondBeforeBounded
    <3> QED BY <2>1, <2>2, <3>1, <3>2, LastSecondBounded
  <2>3. CASE s + TicksPerSecond <= now'
    <3>1. NumHits(admitted, s, to) <= 2 * Limit
          BY <1>2, AtMostTwice DEF IInv
    <3>2. NumHits(admitted, s, to) \in Nat
          BY <1>2, <2>1, HitsFinite
    <3>3. ~(now <= to)
          BY <1>2, <2>1, <2>3
    <3>4. NumHits(Append(admitted, now), s, to) = NumHits(admitted, s, to)
          BY <1>2, <2>1, <3>2, <3>3, HitsAppend
    <3> QED BY <1>3, <3>1, <3>4
  <2> QED BY <1>2, <2>1, <2>2, <2>3
<1> QED BY <1>1, <1>4 DEF IInv

\* Every step keeps the invariant.
LEMMA NextIInv == IInv /\ [LimiterNext]_limiterVars => IInv'
<1> SUFFICES ASSUME IInv, [LimiterNext]_limiterVars PROVE IInv'
    OBVIOUS
<1>1. CASE Tick
      BY <1>1, TickIInv
<1>2. CASE Arrive(WindowExpired)
      BY <1>2, ArriveIInv
<1>3. CASE UNCHANGED limiterVars
      BY <1>3 DEF limiterVars, IInv, Types, AdmittedInTime, WindowCounted,
                  SecondBeforeBounded, AtMostTwiceTheLimit, AdmittedIn
<1> QED BY <1>1, <1>2, <1>3 DEF LimiterNext

---------------------------------------------------------------------------

\* SubInner::push: no second, wherever it begins, lets more than twice
\* rate_limit_per_sec frames through.
THEOREM LimiterTwice == LimiterSpec => []AtMostTwiceTheLimit
<1>1. IInv => AtMostTwiceTheLimit
      BY DEF IInv
<1> QED BY <1>1, InitIInv, NextIInv, PTL DEF LimiterSpec

\* A refusal means a window that has not expired and a full count of frames in
\* it, all of them within the last second.
LEMMA RefusalStep ==
  ASSUME IInv, LimiterNext, arrivals' # arrivals, admitted' = admitted
  PROVE  AdmittedIn(now - TicksPerSecond + 1, now) >= Limit
<1> DEFINE from == now - TicksPerSecond + 1
<1>0. Types /\ WindowCounted
      BY DEF IInv
<1>a. /\ now \in Nat /\ windowStart \in Nat /\ windowStart <= now
      /\ count \in 0..Limit /\ admitted \in Seq(Nat)
      /\ from \in Int
      BY <1>0 DEF Types
<1>1. Arrive(WindowExpired)
      BY DEF LimiterNext, Tick
<1>2. ~Admits(Limit, count, WindowExpired)
  <2>1. Append(admitted, now) # admitted
    <3>1. Len(Append(admitted, now)) = Len(admitted) + 1 /\ Len(admitted) \in Nat
          BY <1>a
    <3> QED BY <3>1
  <2> QED BY <1>1, <2>1 DEF Arrive
<1>3. ~WindowExpired /\ count = Limit
      BY <1>2, <1>a DEF Admits, CountInWindow
<1>4. Hits(admitted, windowStart, now) \subseteq Hits(admitted, from, now)
  <2>1. from <= windowStart
        BY <1>3, <1>a DEF WindowExpired
  <2> QED BY <1>a, <2>1 DEF Hits
<1>5. NumHits(admitted, windowStart, now) <= NumHits(admitted, from, now)
      BY <1>a, <1>4, HitsMonotonic
<1>6. NumHits(admitted, from, now) = AdmittedIn(from, now)
      BY DEF AdmittedIn, NumHits, Hits
<1> QED BY <1>0, <1>3, <1>5, <1>6 DEF WindowCounted

\* SubInner::push: a frame is refused only when the limit was used up within
\* the last second.
THEOREM LimiterRefusal == LimiterSpec => RefusalJustified
<1>1. IInv /\ [LimiterNext]_limiterVars
        => [arrivals' # arrivals /\ admitted' = admitted
              => AdmittedIn(now - TicksPerSecond + 1, now) >= Limit]_limiterVars
  <2> SUFFICES ASSUME IInv, LimiterNext, arrivals' # arrivals, admitted' = admitted
               PROVE  AdmittedIn(now - TicksPerSecond + 1, now) >= Limit
      OBVIOUS
  <2> QED BY RefusalStep
<1> QED BY <1>1, InitIInv, NextIInv, PTL DEF LimiterSpec, RefusalJustified

---------------------------------------------------------------------------
(* E2E, for every Modulus above 2 and whatever the bounds.  The argument is *)
(* one of arithmetic: two messages closer than the modulus have counters   *)
(* that differ by one exactly when the messages do.                        *)

---------------------------------------------------------------------------
(* Remainders.                                                             *)

\* A number is its quotient and its remainder.
LEMMA DivMod ==
  ASSUME NEW M \in Nat, M > 2, NEW n \in Nat
  PROVE  /\ n % M \in 0..(M - 1)
         /\ n \div M \in Int
         /\ n = M * (n \div M) + (n % M)
BY SMT

\* Two numbers closer than M that have the same remainder are equal.
LEMMA SameRemainder ==
  ASSUME NEW M \in Nat, M > 2, NEW n \in Nat, NEW k \in Nat,
         n % M = k % M, n - k < M, k - n < M
  PROVE  n = k
<1> DEFINE p == n \div M
           q == k \div M
           r == n % M
<1>1. p \in Int /\ q \in Int /\ r \in Int
      BY DivMod
<1>2. n = M * p + r /\ k = M * q + r
      BY DivMod
<1> HIDE DEF p, q, r
<1>3. n - k = M * (p - q)
      BY <1>1, <1>2
<1>4. CASE p - q >= 1
  <2>1. M * (p - q) >= M
        BY <1>1, <1>4
  <2> QED BY <1>3, <2>1
<1>5. CASE p - q <= -1
  <2>1. M * (p - q) <= -M
        BY <1>1, <1>5
  <2> QED BY <1>3, <2>1
<1>6. CASE p = q
      BY <1>1, <1>2, <1>6
<1> QED BY <1>1, <1>4, <1>5, <1>6

\* Adding a multiple of M does not change the remainder.
LEMMA RemainderOf ==
  ASSUME NEW M \in Nat, M > 2, NEW q \in Int, NEW r \in 0..(M - 1)
  PROVE  (M * q + r) % M = r
<1> DEFINE n == M * q + r
           p == n \div M
           t == n % M
<1>1. n \in Int /\ p \in Int /\ t \in 0..(M - 1) /\ n = M * p + t
      BY SMT
<1>2. n = M * q + r
      OBVIOUS
<1> HIDE DEF n, p, t
<1>3. M * (p - q) = r - t
      BY <1>1, <1>2
<1>4. CASE p - q >= 1
  <2>1. M * (p - q) >= M
        BY <1>1, <1>4
  <2> QED BY <1>1, <1>3, <2>1
<1>5. CASE p - q <= -1
  <2>1. M * (p - q) <= -M
        BY <1>1, <1>5
  <2> QED BY <1>1, <1>3, <2>1
<1>6. CASE p = q
  <2>1. M * (p - q) = 0
        BY <1>1, <1>6
  <2>2. t = r
        BY <1>1, <1>3, <2>1
  <2> QED BY <2>2 DEF n, t
<1> QED BY <1>1, <1>4, <1>5, <1>6

\* The counter after that of call k is the counter of call k + 1.
LEMMA NextRemainder ==
  ASSUME NEW M \in Nat, M > 2, NEW k \in Nat
  PROVE  ((k % M) + 1) % M = (k + 1) % M
<1> DEFINE q == k \div M
           r == k % M
<1>1. q \in Int /\ r \in 0..(M - 1) /\ k = M * q + r
      BY DivMod
<1> HIDE DEF q, r
<1>2. CASE r + 1 < M
  <2>1. r + 1 \in 0..(M - 1) /\ k + 1 = M * q + (r + 1)
        BY <1>1, <1>2
  <2>2. (k + 1) % M = r + 1
        BY <2>1, <1>1, RemainderOf
  <2>3. (r + 1) % M = r + 1
        BY <2>1, SMT
  <2> QED BY <2>2, <2>3 DEF r
<1>3. CASE r + 1 = M
  <2>1. q + 1 \in Int /\ 0 \in 0..(M - 1) /\ k + 1 = M * (q + 1) + 0
        BY <1>1, <1>3
  <2>2. (k + 1) % M = 0
        BY <2>1, RemainderOf
  <2>3. M % M = 0
        BY SMT
  <2> QED BY <1>3, <2>2, <2>3 DEF r
<1> QED BY <1>1, <1>2, <1>3

\* From here on counters are opaque: these are the facts about them.
LEMMA CounterFacts ==
  /\ 0 \in Counters /\ CounterOf(0) = 0
  /\ \A n \in Nat : CounterOf(n) \in Counters
  /\ \A n \in Nat : WrappingInc(CounterOf(n)) = CounterOf(n + 1)
<1>1. 0 \in Counters /\ CounterOf(0) = 0
      BY E2EAssumption, SMT DEF Counters, CounterOf
<1>2. ASSUME NEW n \in Nat  PROVE CounterOf(n) \in Counters
      BY DivMod, E2EAssumption DEF Counters, CounterOf
<1>3. ASSUME NEW n \in Nat  PROVE WrappingInc(CounterOf(n)) = CounterOf(n + 1)
      BY NextRemainder, E2EAssumption, Zenon DEF WrappingInc, CounterOf
<1> QED BY <1>1, <1>2, <1>3

\* Two calls closer than Modulus - 1: the counters are consecutive exactly when
\* the calls are.
LEMMA Consecutive ==
  ASSUME NEW k \in Nat, NEW n \in Nat,
         n - k < Modulus - 1, k - n < Modulus - 1
  PROVE  (CounterOf(n) = WrappingInc(CounterOf(k))) <=> (n = k + 1)
<1>1. WrappingInc(CounterOf(k)) = CounterOf(k + 1)
      BY CounterFacts
<1>2. ASSUME CounterOf(n) = CounterOf(k + 1)  PROVE n = k + 1
  <2>1. k + 1 \in Nat /\ n - (k + 1) < Modulus /\ (k + 1) - n < Modulus
        BY E2EAssumption
  <2>2. n % Modulus = (k + 1) % Modulus
        BY <1>2 DEF CounterOf
  <2> QED BY <2>1, <2>2, SameRemainder, E2EAssumption
<1> QED BY <1>1, <1>2

---------------------------------------------------------------------------
(* The invariant.                                                          *)

\* What the receiver remembers is the counter of the message it checked last,
\* and it is waiting for its first message exactly when it has checked none.
LastChecked ==
  /\ first <=> checked = <<>>
  /\ checked # <<>> => last_seq = CounterOf(checked[Len(checked)].nr)

Inv == TypeOK /\ LastChecked /\ DisorderDetected /\ AlarmJustified

LEMMA InitInv == E2EInit => Inv
<1> SUFFICES ASSUME E2EInit PROVE Inv
    OBVIOUS
<1>2. TypeOK
      BY CounterFacts, E2EAssumption DEF E2EInit, TypeOK
<1> QED BY <1>2 DEF E2EInit, Inv, LastChecked, DisorderDetected, AlarmJustified

\* The sender's steps leave the receiver alone.
LEMMA SenderInv ==
  ASSUME Inv, Protect \/ RestartSender
  PROVE  Inv'
<1>1. TypeOK'
  <2>1. CASE Protect
    <3> DEFINE m0 == [epoch |-> epoch, nr |-> calls, seq |-> seq]
    <3>1. seq = CounterOf(calls) /\ calls \in Nat /\ calls + 1 \in Nat
          BY DEF Inv, TypeOK
    <3>2. seq' = CounterOf(calls + 1) /\ calls' = calls + 1
          BY <2>1, <3>1, CounterFacts DEF Protect
    <3>3. m0 \in Message /\ m0.seq = CounterOf(m0.nr)
          BY <3>1, CounterFacts DEF Inv, TypeOK, Message
    <3>4. sent' = sent \union {m0}
          BY <2>1 DEF Protect
    <3> HIDE DEF m0
    <3>5. sent' \in SUBSET Message /\ \A m \in sent' : m.seq = CounterOf(m.nr)
          BY <3>3, <3>4 DEF Inv, TypeOK
    <3> QED BY <2>1, <3>1, <3>2, <3>5 DEF Inv, TypeOK, Protect
  <2>2. CASE RestartSender
        BY <2>2, CounterFacts, E2EAssumption DEF Inv, TypeOK, RestartSender
  <2> QED BY <2>1, <2>2
<1>2. UNCHANGED <<last_seq, first, checked>>
      BY DEF Protect, RestartSender
<1> QED BY <1>1, <1>2 DEF Inv, LastChecked, DisorderDetected, AlarmJustified, SameSender

\* A message whose counter is checked: it is appended to the history, and the
\* verdict is right because it is near the message before.
LEMMA CheckInv ==
  ASSUME Inv, NEW m \in sent, UnwrapGap(m) \/ UnwrapAccept(m)
  PROVE  Inv'
<1> DEFINE v == IF UnwrapGap(m) THEN "gap" ELSE "ok"
           c == [epoch |-> m.epoch, nr |-> m.nr, verdict |-> v]
           l == Len(checked)
<1>1. v \in {"gap", "ok"} /\ (v = "gap" <=> IsGap(m)) /\ Near(m)
      BY DEF UnwrapGap, UnwrapAccept
<1>2. checked' = Append(checked, c) /\ last_seq' = m.seq
      BY DEF UnwrapGap, UnwrapAccept, Resync, CheckedAs
<1>3. /\ UNCHANGED <<seq, epoch, calls, sent>>
      /\ verdict' \in {"ok", "sequence_gap"}
      /\ first' = FALSE
      BY DEF UnwrapGap, UnwrapAccept, IsGap, Inv, TypeOK
<1> HIDE DEF v
<1>4. /\ m.nr \in Nat /\ m.seq \in Counters /\ m.epoch \in 0..MaxRestarts
      /\ m.seq = CounterOf(m.nr)
      BY DEF Inv, TypeOK, Message
<1>5. c \in Check
      BY <1>1, <1>4 DEF Check
<1>6. /\ checked \in Seq(Check) /\ l \in Nat
      /\ \A i \in 1..l : checked[i] \in Check
  <2>1. checked \in Seq(Check)
        BY DEF Inv, TypeOK
  <2> QED BY <2>1
<1>7. /\ checked' \in Seq(Check) /\ Len(checked') = l + 1 /\ checked' # <<>>
      /\ \A i \in 1..l : checked'[i] = checked[i]
      /\ checked'[l + 1] = c
      BY <1>2, <1>5, <1>6
<1>8. c.epoch = m.epoch /\ c.nr = m.nr /\ c.verdict = v
      OBVIOUS
<1> HIDE DEF c
<1>9. ASSUME l > 0, checked[l].epoch = c.epoch
      PROVE  (c.verdict = "gap") <=> (c.nr # checked[l].nr + 1)
  <2> DEFINE k == checked[l].nr
  <2>0. checked[l] \in Check
        BY <1>6, <1>9
  <2>1. k \in Nat /\ checked # <<>>
        BY <1>6, <1>9, <2>0 DEF Check
  <2>2. last_seq = CounterOf(k) /\ ~first
        BY <2>1 DEF Inv, LastChecked
  <2>3. m.nr - k < Modulus - 1 /\ k - m.nr < Modulus - 1
        BY <1>1, <1>8, <1>9, <2>1 DEF Near
  <2> HIDE DEF k
  <2>4. (CounterOf(m.nr) = WrappingInc(CounterOf(k))) <=> (m.nr = k + 1)
        BY <1>4, <2>1, <2>3, Consecutive
  <2>5. IsGap(m) <=> m.nr # k + 1
        BY <1>4, <2>2, <2>4 DEF IsGap
  <2> QED BY <1>1, <1>8, <2>5 DEF k
<1>10. TypeOK'
       BY <1>2, <1>3, <1>4, <1>7 DEF Inv, TypeOK
<1>11. LastChecked'
       BY <1>2, <1>3, <1>4, <1>7, <1>8 DEF LastChecked
<1>12. ASSUME NEW i \in 2..Len(checked'), SameSender(i, i - 1)'
       PROVE  (checked'[i].verdict = "gap") <=> (checked'[i].nr # checked'[i - 1].nr + 1)
  <2>1. CASE i = l + 1
    <3>1. l > 0 /\ checked'[i] = c /\ checked'[i - 1] = checked[l]
          BY <1>6, <1>7, <1>12, <2>1
    <3>2. checked[l].epoch = c.epoch
          BY <1>12, <3>1 DEF SameSender
    <3> QED BY <1>9, <3>1, <3>2
  <2>2. CASE i # l + 1
    <3>1. i \in 2..l /\ checked'[i] = checked[i] /\ checked'[i - 1] = checked[i - 1]
          BY <1>6, <1>7, <1>12, <2>2
    <3>2. SameSender(i, i - 1)
          BY <1>12, <3>1 DEF SameSender
    <3>0. checked[i] \in Check
          BY <1>6, <3>1
    <3>3. checked[i].verdict \in {"ok", "gap"}
          BY <3>0 DEF Check
    <3> QED BY <3>1, <3>2, <3>3 DEF Inv, DisorderDetected, AlarmJustified
  <2> QED BY <2>1, <2>2
<1>13. DisorderDetected' /\ AlarmJustified'
       BY <1>12 DEF DisorderDetected, AlarmJustified
<1> QED BY <1>10, <1>11, <1>13 DEF Inv

\* The steps of the receiver that check no counter.
LEMMA OtherInv ==
  ASSUME Inv, UnwrapTooShort \/ UnwrapCrcMismatch \/ RestartReceiver \/ UNCHANGED e2eVars
  PROVE  Inv'
<1>1. CASE UnwrapTooShort \/ UnwrapCrcMismatch
      BY <1>1 DEF UnwrapTooShort, UnwrapCrcMismatch, CrcMismatch, Inv, TypeOK,
                  LastChecked, DisorderDetected, AlarmJustified, SameSender
<1>2. CASE RestartReceiver
  <2>2. TypeOK'
        BY <1>2, CounterFacts DEF RestartReceiver, Inv, TypeOK
  <2> QED BY <1>2, <2>2 DEF RestartReceiver, Inv, LastChecked, DisorderDetected,
                            AlarmJustified
<1>3. CASE UNCHANGED e2eVars
      BY <1>3 DEF e2eVars, Inv, TypeOK, LastChecked, DisorderDetected, AlarmJustified,
                  SameSender
<1> QED BY <1>1, <1>2, <1>3

LEMMA NextInv == Inv /\ [E2ENext]_e2eVars => Inv'
<1> SUFFICES ASSUME Inv, [E2ENext]_e2eVars PROVE Inv'
    OBVIOUS
<1>1. CASE Protect \/ RestartSender
      BY <1>1, SenderInv
<1>2. CASE \E m \in sent : UnwrapGap(m) \/ UnwrapAccept(m)
      BY <1>2, CheckInv
<1>3. CASE UnwrapTooShort \/ UnwrapCrcMismatch \/ RestartReceiver \/ UNCHANGED e2eVars
      BY <1>3, OtherInv
<1> QED BY <1>1, <1>2, <1>3 DEF E2ENext

LEMMA Invariance == E2ESpec => []Inv
<1> QED BY InitInv, NextInv, PTL DEF E2ESpec

\* The counters stay 32-bit counters of the calls, for every modulus.
THEOREM E2ETypeOK == E2ESpec => []TypeOK
<1>1. Inv => TypeOK
      BY DEF Inv
<1> QED BY <1>1, Invariance, PTL

\* Every message that unwrap() returns follows the one it checked before, for
\* every counter width: loss, repetition and reordering never pass unreported.
THEOREM E2EDisorderDetected == E2ESpec => []DisorderDetected
<1>1. Inv => DisorderDetected
      BY DEF Inv
<1> QED BY <1>1, Invariance, PTL

\* unwrap() never reports a gap where there is none.
THEOREM E2EAlarmJustified == E2ESpec => []AlarmJustified
<1>1. Inv => AlarmJustified
      BY DEF Inv
<1> QED BY <1>1, Invariance, PTL

---------------------------------------------------------------------------
(* Crc16: the checksum notices damage to two consecutive bytes that no     *)
(* border of the CRC field parts, for every message.  Step is linear and   *)
(* one-to-one on words, so the difference of the two checksums depends on  *)
(* the damage alone and, once there, never goes away; eight steps move a   *)
(* low byte to the high byte untouched, which is why the second damaged    *)
(* byte cannot undo the first.                                             *)

LEMMA XorWord == \A a, b \in Word : Xor(a, b) \in Word
  BY DEF Xor, Word

\* The bits of a step, one by one.
LEMMA StepBits ==
  ASSUME NEW c \in Word, NEW x \in Int
  PROVE  x \in Step(c) <=> ((x - 1 \in c /\ x # 16) # (15 \in c /\ x \in Poly))
<1>1. x \in ShiftLeft(c) <=> x - 1 \in c /\ x # 16
  <2>1. ASSUME x \in ShiftLeft(c) PROVE x - 1 \in c /\ x # 16
    <3>1. PICK b \in c \ {15} : x = b + 1
      BY <2>1 DEF ShiftLeft
    <3>2. b \in Int /\ b # 15
      BY <3>1 DEF Word
    <3>3. b = x - 1
      BY <3>1, <3>2
    <3> QED
      BY <3>1, <3>2, <3>3
  <2>2. ASSUME x - 1 \in c, x # 16 PROVE x \in ShiftLeft(c)
    <3>1. x - 1 \in c \ {15} /\ x = (x - 1) + 1
      BY <2>2
    <3> QED
      BY <3>1 DEF ShiftLeft
  <2> QED
    BY <2>1, <2>2
<1> QED
  BY <1>1 DEF Step, Xor

LEMMA StepWord == \A c \in Word : Step(c) \in Word
<1> SUFFICES ASSUME NEW c \in Word, NEW x \in Step(c)
             PROVE  x \in 0..15
  BY DEF Word
<1>1. ShiftLeft(c) \subseteq 0..15
  BY DEF ShiftLeft, Word
<1> QED
  BY <1>1 DEF Step, Xor, Poly

LEMMA StepInjective == \A a, b \in Word : Step(a) = Step(b) => a = b
<1> SUFFICES ASSUME NEW a \in Word, NEW b \in Word, Step(a) = Step(b)
             PROVE  a = b
  OBVIOUS
<1>1. -1 \notin a /\ -1 \notin b
  BY DEF Word
<1>2. 15 \in a <=> 15 \in b
  <2>1. 0 \in Step(a) <=> 15 \in a
    BY <1>1, StepBits DEF Poly
  <2>2. 0 \in Step(b) <=> 15 \in b
    BY <1>1, StepBits DEF Poly
  <2> QED
    BY <2>1, <2>2
<1>3. ASSUME NEW x \in 0..14 PROVE x \in a <=> x \in b
  <2>1. x + 1 \in Step(a) <=> ((x \in a) # (15 \in a /\ x + 1 \in Poly))
    BY StepBits, (x + 1) - 1 = x
  <2>2. x + 1 \in Step(b) <=> ((x \in b) # (15 \in b /\ x + 1 \in Poly))
    BY StepBits, (x + 1) - 1 = x
  <2> QED
    BY <2>1, <2>2, <1>2
<1>4. \A x \in 0..15 : x \in a <=> x \in b
  BY <1>2, <1>3
<1> QED
  BY <1>4 DEF Word

LEMMA StepLinear ==
  \A a, b \in Word : Step(Xor(a, b)) = Xor(Step(a), Step(b))
<1> SUFFICES ASSUME NEW a \in Word, NEW b \in Word
             PROVE  Step(Xor(a, b)) = Xor(Step(a), Step(b))
  OBVIOUS
<1>1. Xor(a, b) \in Word
  BY XorWord
<1>2. Step(Xor(a, b)) \subseteq Int /\ Xor(Step(a), Step(b)) \subseteq Int
  BY <1>1, StepWord, XorWord DEF Word
<1>3. ASSUME NEW x \in Int
      PROVE  x \in Step(Xor(a, b)) <=> x \in Xor(Step(a), Step(b))
  <2>1. x \in Step(a) <=> ((x - 1 \in a /\ x # 16) # (15 \in a /\ x \in Poly))
    BY StepBits
  <2>2. x \in Step(b) <=> ((x - 1 \in b /\ x # 16) # (15 \in b /\ x \in Poly))
    BY StepBits
  <2>3. x \in Step(Xor(a, b))
         <=> ((x - 1 \in Xor(a, b) /\ x # 16) # (15 \in Xor(a, b) /\ x \in Poly))
    BY <1>1, StepBits
  <2>4. \A y : y \in Xor(a, b) <=> ((y \in a) # (y \in b))
    BY DEF Xor
  <2>5. \A y : y \in Xor(Step(a), Step(b)) <=> ((y \in Step(a)) # (y \in Step(b)))
    BY DEF Xor
  <2> QED
    BY <2>1, <2>2, <2>3, <2>4, <2>5
<1> QED
  BY <1>2, <1>3

---------------------------------------------------------------------------
(* Eight steps.                                                            *)

LEMMA Steps8Word == \A c \in Word : Steps8(c) \in Word
  BY StepWord DEF Steps8

LEMMA Steps8Injective == \A a, b \in Word : Steps8(a) = Steps8(b) => a = b
  BY StepWord, StepInjective DEF Steps8

LEMMA Steps8Linear ==
  \A a, b \in Word : Steps8(Xor(a, b)) = Xor(Steps8(a), Steps8(b))
  BY StepWord, StepLinear DEF Steps8

\* A low byte arrives in the high byte as it was.
LEMMA Steps8Low == \A d \in SUBSET (0..7) : Steps8(d) = High(d)
<1> DEFINE By(n, d) == {i + n : i \in d}
<1>1. ASSUME NEW d \in SUBSET (0..7), NEW n \in 0..7
      PROVE  Step(By(n, d)) = By(n + 1, d)
  <2>1. \A i \in d : i + n \in Int /\ i + n # 15
    BY <1>1
  <2>2. 15 \notin By(n, d)
    BY <2>1
  <2>3. ShiftLeft(By(n, d)) = By(n + 1, d)
    <3>1. ASSUME NEW x \in ShiftLeft(By(n, d)) PROVE x \in By(n + 1, d)
      <4>1. PICK i \in d : x = (i + n) + 1
        BY <3>1 DEF ShiftLeft
      <4>2. x = i + (n + 1)
        BY <4>1
      <4> QED
        BY <4>2
    <3>2. ASSUME NEW x \in By(n + 1, d) PROVE x \in ShiftLeft(By(n, d))
      <4>1. PICK i \in d : x = i + (n + 1)
        BY <3>2
      <4>2. x = (i + n) + 1 /\ i + n \in By(n, d) \ {15}
        BY <4>1, <2>1
      <4> QED
        BY <4>2 DEF ShiftLeft
    <3> QED
      BY <3>1, <3>2
  <2> QED
    BY <2>2, <2>3 DEF Step
<1> SUFFICES ASSUME NEW d \in SUBSET (0..7)
             PROVE  Steps8(d) = High(d)
  OBVIOUS
<1>2. d = By(0, d)
  <2>1. \A i \in d : i + 0 = i
    OBVIOUS
  <2> QED
    BY <2>1
<1>3. /\ Step(By(0, d)) = By(1, d) /\ Step(By(1, d)) = By(2, d)
      /\ Step(By(2, d)) = By(3, d) /\ Step(By(3, d)) = By(4, d)
      /\ Step(By(4, d)) = By(5, d) /\ Step(By(5, d)) = By(6, d)
      /\ Step(By(6, d)) = By(7, d) /\ Step(By(7, d)) = By(8, d)
  <2> HIDE DEF By
  <2> QED
    BY <1>1, 0 + 1 = 1, 1 + 1 = 2, 2 + 1 = 3, 3 + 1 = 4, 4 + 1 = 5, 5 + 1 = 6,
       6 + 1 = 7, 7 + 1 = 8
<1>4. High(d) = By(8, d)
  BY DEF High
<1> HIDE DEF By
<1> QED
  BY <1>2, <1>3, <1>4 DEF Steps8

LEMMA HighWord ==
  \A d \in SUBSET (0..7) : High(d) \in Word /\ (High(d) = {} => d = {})
  BY DEF High, Word

LEMMA HighXor ==
  ASSUME NEW b \in SUBSET (0..7), NEW d \in SUBSET (0..7)
  PROVE  High(Xor(b, d)) = Xor(High(b), High(d))
<1>1. ASSUME NEW e \in SUBSET (0..7), NEW x \in Int
      PROVE  x \in High(e) <=> x - 8 \in e
  <2>1. ASSUME x \in High(e) PROVE x - 8 \in e
    <3>1. PICK i \in e : x = i + 8
      BY <2>1 DEF High
    <3> QED
      BY <3>1, i = x - 8
  <2>2. ASSUME x - 8 \in e PROVE x \in High(e)
    BY <2>2, x = (x - 8) + 8 DEF High
  <2> QED
    BY <2>1, <2>2
<1>2. Xor(b, d) \in SUBSET (0..7)
  BY DEF Xor
<1>3. High(Xor(b, d)) \subseteq Int /\ Xor(High(b), High(d)) \subseteq Int
  BY <1>2, HighWord, XorWord DEF Word
<1>4. ASSUME NEW x \in Int
      PROVE  x \in High(Xor(b, d)) <=> x \in Xor(High(b), High(d))
  BY <1>1, <1>2 DEF Xor
<1> QED
  BY <1>3, <1>4

---------------------------------------------------------------------------
(* The inductive invariant: after the first damaged byte the difference is *)
(* what eight steps make of the damage, and it does not go away.  Where    *)
(* the field is damaged, the checksums agree.                              *)

Difference(d) == Xor(crcSent, crcSeen) = Steps8(High(d))

CrcInv ==
  /\ crcSent \in Word /\ crcSeen \in Word /\ field \in Word
  /\ damaged \in 0..2
  /\ field # {} => damaged = 0
  /\ damaged = 0 => crcSent = crcSeen
  /\ damaged = 1 => \E d \in SUBSET (0..7) : d # {} /\ Difference(d)
  /\ damaged = 2 => crcSent # crcSeen

\* An undamaged byte keeps equal checksums equal and different ones different.
LEMMA SameByte ==
  ASSUME NEW s \in Word, NEW r \in Word, NEW b \in SUBSET (0..7)
  PROVE  /\ Update(s, b) \in Word
         /\ Update(s, b) = Update(r, b) => s = r
<1>1. High(b) \in Word
  BY HighWord
<1>2. Xor(s, High(b)) \in Word /\ Xor(r, High(b)) \in Word
  BY <1>1, XorWord
<1>3. Xor(s, High(b)) = Xor(r, High(b)) => s = r
  BY DEF Xor
<1> QED
  BY <1>2, <1>3, Steps8Word, Steps8Injective DEF Update

\* What a damaged byte does to the difference of the checksums.
LEMMA DamagedByte ==
  ASSUME NEW s \in Word, NEW r \in Word,
         NEW b \in SUBSET (0..7), NEW d \in SUBSET (0..7)
  PROVE  /\ Update(r, Xor(b, d)) \in Word
         /\ Xor(Update(s, b), Update(r, Xor(b, d)))
              = Xor(Steps8(Xor(s, r)), Steps8(High(d)))
<1> DEFINE hb == High(b)
           hd == High(d)
<1>1. Xor(b, d) \in SUBSET (0..7)
  BY DEF Xor
<1>2. hb \in Word /\ hd \in Word /\ High(Xor(b, d)) = Xor(hb, hd)
  BY HighWord, HighXor
<1> HIDE DEF hb, hd
<1>3. Xor(s, hb) \in Word /\ Xor(r, Xor(hb, hd)) \in Word /\ Xor(s, r) \in Word
  BY <1>2, XorWord
<1>4. Xor(Xor(s, hb), Xor(r, Xor(hb, hd))) = Xor(Xor(s, r), hd)
  BY DEF Xor
<1>5. Xor(Steps8(Xor(s, hb)), Steps8(Xor(r, Xor(hb, hd))))
        = Xor(Steps8(Xor(s, r)), Steps8(hd))
  BY <1>2, <1>3, <1>4, Steps8Linear
<1>6. Update(r, Xor(b, d)) = Steps8(Xor(r, Xor(hb, hd)))
  BY <1>2 DEF Update
<1>7. Update(s, b) = Steps8(Xor(s, hb))
  BY DEF Update, hb
<1> QED
  BY <1>3, <1>5, <1>6, <1>7, Steps8Word DEF hd

LEMMA Steps8Empty == Steps8({}) = {}
  BY Steps8Low DEF High

\* Header and payload are fed alike: both copies of the loop do the same.
LEMMA OneChecksum ==
  ASSUME NEW c, NEW b
  PROVE  Checksum(c, b) = Update(c, b)
  BY DEF Checksum, Continue, Update

\* The damage of one byte makes the checksums differ.
LEMMA DifferenceShows ==
  ASSUME NEW d \in SUBSET (0..7), d # {}, Difference(d)
  PROVE  crcSent # crcSeen
<1>1. High(d) \in Word /\ High(d) # {} /\ {} \in Word
  BY HighWord DEF Word
<1>2. Steps8(High(d)) # {}
  BY <1>1, Steps8Empty, Steps8Injective
<1> QED
  BY <1>2 DEF Difference, Xor

LEMMA CrcInvariant == CrcSpec => []CrcInv
<1>1. CrcInit => CrcInv
  BY DEF CrcInit, CrcInv, Word
<1>2. CrcInv /\ [CrcNext]_crcVars => CrcInv'
  <2> SUFFICES ASSUME CrcInv, [CrcNext]_crcVars
               PROVE  CrcInv'
    OBVIOUS
  <2> USE DEF CrcInv
  <2>1. CASE FeedByte
    <3>1. PICK b \in Bytes : /\ crcSent' = Update(crcSent, b)
                             /\ crcSeen' = Update(crcSeen, b)
      BY <2>1, OneChecksum DEF FeedByte
    <3>2. b \in SUBSET (0..7)
      BY Crc16Assumption
    <3>3. damaged' = (IF damaged = 1 THEN 2 ELSE damaged) /\ field' = field
      BY <2>1 DEF FeedByte
    <3>4. crcSent' \in Word /\ crcSeen' \in Word
      BY <3>1, <3>2, SameByte
    <3>5. crcSent' = crcSeen' => crcSent = crcSeen
      BY <3>1, <3>2, SameByte
    <3>6. crcSent = crcSeen => crcSent' = crcSeen'
      BY <3>1
    <3>7. damaged = 1 => crcSent # crcSeen
      BY DifferenceShows
    <3> QED
      BY <3>3, <3>4, <3>5, <3>6, <3>7
  <2>2. CASE FeedDamaged
    <3>1. PICK b \in Bytes, d \in Patterns \ {{}} :
                 /\ crcSent' = Update(crcSent, b)
                 /\ crcSeen' = Update(crcSeen, Xor(b, d))
      BY <2>2, OneChecksum DEF FeedDamaged
    <3>2. b \in SUBSET (0..7) /\ d \in SUBSET (0..7)
      BY Crc16Assumption
    <3>3. /\ damaged' = damaged + 1 /\ damaged \in {0, 1}
          /\ field = {} /\ field' = {}
      BY <2>2 DEF FeedDamaged
    <3>4. crcSent' \in Word /\ crcSeen' \in Word
      BY <3>1, <3>2, SameByte, DamagedByte
    <3>5. Xor(crcSent', crcSeen')
            = Xor(Steps8(Xor(crcSent, crcSeen)), Steps8(High(d)))
      BY <3>1, <3>2, DamagedByte
    <3>6. CASE damaged = 0
      <4>1. Xor(crcSent, crcSeen) = {}
        BY <3>6 DEF Xor
      <4>2. Xor(crcSent', crcSeen') = Steps8(High(d))
        BY <3>5, <4>1, Steps8Empty DEF Xor
      <4> QED
        BY <3>1, <3>2, <3>3, <3>4, <3>6, <4>2 DEF Difference
    <3>7. CASE damaged = 1
      <4>1. PICK e \in SUBSET (0..7) : e # {} /\ Difference(e)
        BY <3>7
      <4>2. High(e) \in Word /\ High(d) \in Word /\ d \in Word
        BY <3>2, HighWord DEF Word
      <4>3. SUFFICES ASSUME crcSent' = crcSeen' PROVE FALSE
        BY <3>3, <3>4, <3>7
      <4>4. Steps8(Steps8(High(e))) = Steps8(High(d))
        <5>1. Xor(crcSent', crcSeen') = {}
          BY <4>3 DEF Xor
        <5>2. Xor(Steps8(Steps8(High(e))), Steps8(High(d))) = {}
          BY <3>5, <4>1, <5>1 DEF Difference
        <5> QED
          BY <5>2 DEF Xor
      <4>5. Steps8(High(e)) = High(d)
        BY <4>2, <4>4, Steps8Word, Steps8Injective
      <4>6. High(e) = d
        BY <3>2, <4>2, <4>5, Steps8Low, Steps8Injective
      <4>7. PICK i \in e : TRUE
        BY <4>1
      <4>8. i + 8 \in High(e) /\ i + 8 \notin 0..7
        BY <4>7 DEF High
      <4> QED
        BY <3>2, <4>6, <4>8
    <3> QED
      BY <3>3, <3>6, <3>7
  <2>3. CASE DamageField
    <3>1. field' \in Word
      <4>1. PICK low \in Patterns, high \in Patterns : field' = low \union High(high)
        BY <2>3 DEF DamageField
      <4>2. low \in SUBSET (0..7) /\ high \in SUBSET (0..7)
        BY Crc16Assumption
      <4> HIDE DEF CrcInv
      <4>3. High(high) \in Word /\ low \subseteq 0..15
        BY <4>2, HighWord
      <4> QED
        BY <4>1, <4>3 DEF Word
    <3>2. damaged = 0 /\ damaged' = 0 /\ UNCHANGED <<crcSent, crcSeen>>
      BY <2>3 DEF DamageField
    <3> QED
      BY <3>1, <3>2
  <2>4. CASE UNCHANGED crcVars
    BY <2>4 DEF crcVars, Difference
  <2> QED
    BY <2>1, <2>2, <2>3, <2>4 DEF CrcNext
<1> QED
  BY <1>1, <1>2, PTL DEF CrcSpec

\* Damage to one byte, or to two consecutive bytes of the counter, of the payload or
\* of the CRC field, is always noticed: the CRC check of Receiver::unwrap refuses the
\* message, whatever its length and its bytes.
THEOREM CrcDamageDetected == CrcSpec => []DamageDetected
<1>1. CrcInv => DamageDetected
  <2> SUFFICES ASSUME CrcInv PROVE DamageDetected
    OBVIOUS
  <2>1. damaged = 1 => crcSent # crcSeen
    BY DifferenceShows DEF CrcInv
  <2>2. (crcSent = crcSeen) <=> (damaged = 0)
    BY <2>1 DEF CrcInv
  <2>3. CASE field = {}
    <3>1. ReceivedCrc = crcSent
      BY <2>3 DEF ReceivedCrc, Xor
    <3> QED
      BY <2>2, <2>3, <3>1 DEF DamageDetected
  <2>4. CASE field # {}
    <3>1. crcSent = crcSeen
      BY <2>2, <2>4 DEF CrcInv
    <3>2. ReceivedCrc # crcSent
      BY <2>4 DEF ReceivedCrc, Xor
    <3> QED
      BY <2>4, <3>1, <3>2 DEF DamageDetected
  <2> QED
    BY <2>3, <2>4
<1> QED
  BY <1>1, CrcInvariant, PTL

---------------------------------------------------------------------------
(* Recorder, for every bus and every log.                                  *)
(*                                                                         *)
(* The argument: nothing is written once the replay began, so that what    *)
(* holds of the lines behind the reader stays true of them.  A line that   *)
(* can hold its frame parses back to it, and the frame is valid.           *)

WrittenFor(f, ts) == {FormatLine(ts, f)} \union Torn(FormatLine(ts, f))

\* What may be in a log.
Lines ==
  {Comment, Malformed}
  \union UNION {WrittenFor(f, ts) : f \in LogFrames, ts \in 0..MaxStamp}

ReplayStates == {"off", "reading", "pacing", "done", "failed"}

RecorderTypes ==
  /\ log \in Seq(Lines)
  /\ replaying \in ReplayStates
  /\ speed \in [num : Int, den : Nat]
  /\ line \in Nat /\ t0 \in Int /\ wall \in Nat
  /\ replayed \in Seq([frame : {ParseFrame(l) : l \in Lines},
                       line : Nat, time : Nat])

\* The replay has the log to itself.
LogAtRest == replaying # "off" => recording # "on"

Reader ==
  /\ 1 <= line /\ line <= Len(log) + 1
  /\ replaying = "off" => line = 1 /\ replayed = <<>> /\ t0 = NoTime
  /\ replaying \in {"pacing", "failed"} =>
       line <= Len(log) /\ log[line].kind = "frame"
  /\ replaying = "pacing" => t0 # NoTime
  /\ t0 = NoTime => replayed = <<>>
  /\ replaying = "failed" /\ target => ~Intact(log[line])
  /\ replaying = "done" => line > Len(log)

SentInOrder ==
  \A i \in 1..Len(replayed) :
    /\ 1 <= replayed[i].line /\ replayed[i].line < line
    /\ log[replayed[i].line].kind = "frame"
    /\ i > 1 => replayed[i - 1].line < replayed[i].line

SentInTime ==
  \A i \in 1..Len(replayed) :
    replayed[i].time * Factor.num
      > (log[replayed[i].line].ts - t0) * Factor.den - Factor.num

SentAsRecorded ==
  \A i \in 1..Len(replayed) :
    Intact(log[replayed[i].line]) =>
      replayed[i].frame = log[replayed[i].line].frame

NoneLeftOut ==
  \A k \in 1..(line - 1) :
    log[k].kind = "frame" =>
      \E i \in 1..Len(replayed) : replayed[i].line = k

RecorderInv ==
  /\ RecorderTypes /\ LogAtRest /\ Reader
  /\ SentInOrder /\ SentInTime /\ SentAsRecorded /\ NoneLeftOut

FieldNames ==
  {"id", "ext", "rtr", "fd", "brs", "esi", "xl", "sdt", "vcid", "af", "sec",
   "len"}

\* A line that can hold its frame gives it back, and it is a valid one.
LEMMA ParseFormat ==
  ASSUME NEW f \in Frames, ValidFrame(f), Recordable(f), NEW ts \in Nat
  PROVE  ParseFrame(FormatLine(ts, f)) = f
<1> DEFINE g == ParseFrame(FormatLine(ts, f))
<1>1. /\ g.id = f.id /\ g.fd = f.fd /\ g.brs = f.brs /\ g.len = f.len
      /\ g.ext = f.ext
  <2>1. /\ g.id = f.id /\ g.fd = f.fd /\ g.brs = (f.fd /\ f.brs) /\ g.len = f.len
        /\ g.ext = (~f.fd /\ f.id > MaxStdId)
    BY DEF ParseFrame, FormatLine, IsExtended, DefaultFrame
  <2>2. /\ f.ext \in BOOLEAN /\ f.fd \in BOOLEAN /\ f.brs \in BOOLEAN
        /\ f.xl \in BOOLEAN
    BY DEF Frames
  <2>3. ~f.xl /\ (f.ext <=> f.id > MaxStdId) /\ ~(f.fd /\ f.ext)
    BY DEF Recordable
  <2>4. f.brs => f.fd
    BY <2>3 DEF ValidFrame
  <2> QED
    BY <2>1, <2>2, <2>3, <2>4
<1>2. /\ g.rtr = FALSE /\ g.esi = FALSE /\ g.xl = FALSE
      /\ g.sdt = 0 /\ g.vcid = 0 /\ g.af = 0 /\ g.sec = FALSE
  BY DEF ParseFrame, FormatLine, DefaultFrame
<1>3. /\ f.rtr = FALSE /\ f.esi = FALSE /\ f.xl = FALSE
      /\ f.sdt = 0 /\ f.vcid = 0 /\ f.af = 0 /\ f.sec = FALSE
  <2>1. f.rtr \in BOOLEAN /\ f.esi \in BOOLEAN /\ f.xl \in BOOLEAN
    BY DEF Frames
  <2>2. ~f.rtr /\ ~f.esi /\ ~f.xl
    BY DEF Recordable
  <2>3. f.sdt = 0 /\ f.vcid = 0 /\ f.af = 0 /\ f.sec = FALSE
    BY DEF Recordable, XlFields, DefaultFrame
  <2> QED
    BY <2>1, <2>2, <2>3
<1>4. f = [k \in FieldNames |-> f[k]]
  BY DEF Frames, FieldNames
<1>5. g = [k \in FieldNames |-> g[k]]
  <2>1. DefaultFrame = [k \in FieldNames |-> DefaultFrame[k]]
    BY DEF DefaultFrame, FieldNames
  <2> QED
    BY <2>1 DEF ParseFrame
<1>6. \A k \in FieldNames : g[k] = f[k]
  <2> HIDE DEF g
  <2> QED
    BY <1>1, <1>2, <1>3 DEF FieldNames
<1> HIDE DEF g
<1>7. g = f
  BY <1>4, <1>5, <1>6
<1> QED
  BY <1>7 DEF g

\* What a line of the log is.
LEMMA LineFacts ==
  ASSUME NEW l \in Lines, l.kind = "frame"
  PROVE  /\ l.ts \in Nat
         /\ Intact(l) => ValidFrame(l.frame) /\ ParseFrame(l) = l.frame
<1>1. l \notin {Comment, Malformed}
  BY DEF Comment, Malformed
<1>2. PICK f \in LogFrames, ts \in 0..MaxStamp : l \in WrittenFor(f, ts)
  BY <1>1 DEF Lines
<1>3. f \in Frames /\ ValidFrame(f) /\ ts \in Nat
  BY RecorderAssumption
<1>4. CASE l = FormatLine(ts, f)
  <2>1. l.ts = ts /\ l.frame = f
    BY <1>4 DEF FormatLine
  <2> QED
    BY <1>3, <1>4, <2>1, ParseFormat DEF Intact
<1>5. CASE l \in Torn(FormatLine(ts, f))
  <2>1. l # Malformed
    BY <1>1
  <2>2. l.ts = ts /\ l.whole = FALSE
    BY <1>5, <2>1 DEF Torn, FormatLine
  <2> QED
    BY <1>3, <2>2 DEF Intact
<1> QED
  BY <1>2, <1>4, <1>5 DEF WrittenFor

LEMMA FactorPositive ==
  ASSUME speed \in [num : Int, den : Nat]
  PROVE  Factor.num \in Nat /\ Factor.num >= 1 /\ Factor.den \in Nat
BY DEF Factor

\* A frame that waited for its delay is in time.
LEMMA WaitedLongEnough ==
  ASSUME NEW d \in Int, NEW F \in Nat, F >= 1, NEW w \in Nat,
         d > 0 => w >= d \div F
  PROVE  w * F > d - F
<1>1. CASE d <= 0
  <2>1. w * F >= 0
    OBVIOUS
  <2> QED
    BY <1>1, <2>1
<1>2. CASE d > 0
  <2> DEFINE q == d \div F  r == d % F
  <2>1. q \in Int /\ r \in Nat /\ r < F /\ d = F * q + r
    BY <1>2, SMT
  <2>2. w >= q
    BY <1>2
  <2> HIDE DEF q, r
  <2>3. w = q + (w - q) /\ w - q >= 0 /\ w - q \in Int
    BY <2>1, <2>2
  <2>4. w * F = F * q + F * (w - q)
    BY <2>1, <2>3
  <2>5. F * (w - q) >= 0
    BY <2>3
  <2>6. F * q \in Int /\ F * (w - q) \in Int
    BY <2>1, <2>3
  <2> QED
    BY <2>1, <2>4, <2>5, <2>6
<1> QED
  BY <1>1, <1>2

LEMMA RecorderInitInv == RecorderInit => RecorderInv
<1> SUFFICES ASSUME RecorderInit PROVE RecorderInv
  OBVIOUS
<1> USE DEF RecorderInit
<1>1. Len(log) = 0 /\ Len(replayed) = 0
  OBVIOUS
<1>2. RecorderTypes
  <2>1. speed \in [num : Int, den : Nat]
    BY RecorderAssumption
  <2>2. t0 \in Int
    BY DEF NoTime
  <2> QED
    BY <2>1, <2>2 DEF RecorderTypes, ReplayStates
<1>3. LogAtRest /\ Reader
  BY <1>1 DEF LogAtRest, Reader
<1>4. SentInOrder /\ SentInTime /\ SentAsRecorded /\ NoneLeftOut
  BY <1>1 DEF SentInOrder, SentInTime, SentAsRecorded, NoneLeftOut
<1> QED
  BY <1>2, <1>3, <1>4 DEF RecorderInv

\* What record() may write is a line.
LEMMA WrittenLines ==
  ASSUME NEW f \in LogFrames, NEW ts \in 0..MaxStamp
  PROVE  WrittenFor(f, ts) \subseteq Lines
<1>1. WrittenFor(f, ts) \in {WrittenFor(g, t) : g \in LogFrames, t \in 0..MaxStamp}
  OBVIOUS
<1> QED
  BY <1>1 DEF Lines

\* A frame replayed has the number of its line.
LEMMA SentTypes ==
  ASSUME RecorderTypes, NEW i \in 1..Len(replayed)
  PROVE  replayed[i].line \in Nat
<1> DEFINE Sent == [frame : {ParseFrame(l) : l \in Lines}, line : Nat, time : Nat]
<1>1. replayed \in Seq(Sent)
  BY DEF RecorderTypes
<1>2. \A s \in Sent : s.line \in Nat
  OBVIOUS
<1> HIDE DEF Sent
<1>3. replayed[i] \in Sent
  BY <1>1
<1> QED
  BY <1>2, <1>3

\* Before the replay, what is written matters to no one yet.
LEMMA WritingInv ==
  ASSUME RecorderInv, replaying = "off", log' \in Seq(Lines),
         UNCHANGED <<replaying, speed, line, t0, wall, replayed>>
  PROVE  RecorderInv'
<1> USE DEF RecorderInv
<1>1. line = 1 /\ replayed = <<>> /\ Len(replayed) = 0 /\ t0 = NoTime
  BY DEF Reader
<1>2. RecorderTypes'
  BY DEF RecorderTypes
<1>3. LogAtRest'
  BY DEF LogAtRest
<1>4. Reader'
  <2>1. Len(log') \in Nat
    OBVIOUS
  <2> QED
    BY <1>1, <2>1 DEF Reader
<1>5. (SentInOrder /\ SentInTime /\ SentAsRecorded /\ NoneLeftOut)'
  BY <1>1 DEF SentInOrder, SentInTime, SentAsRecorded, NoneLeftOut
<1> QED
  BY <1>2, <1>3, <1>4, <1>5

\* Nothing behind the reader changes when it moves without sending.
LEMMA NoSendInv ==
  ASSUME RecorderInv, UNCHANGED <<log, replayed, speed>>,
         line' \in Nat, line <= line', t0 = NoTime \/ t0' = t0,
         \A k \in Nat : line <= k /\ k < line' => log[k].kind # "frame"
  PROVE  (SentInOrder /\ SentInTime /\ SentAsRecorded /\ NoneLeftOut)'
<1> USE DEF RecorderInv
<1>1. Len(replayed) \in Nat /\ line \in Nat
  BY DEF RecorderTypes
<1>2. SentInOrder'
  <2> SUFFICES ASSUME NEW i \in 1..Len(replayed)
               PROVE  /\ 1 <= replayed[i].line /\ replayed[i].line < line'
                      /\ log[replayed[i].line].kind = "frame"
                      /\ i > 1 => replayed[i - 1].line < replayed[i].line
    BY DEF SentInOrder
  <2>1. replayed[i].line \in Nat
    BY SentTypes
  <2> QED
    BY <1>1, <2>1 DEF SentInOrder
<1>3. SentInTime'
  <2>1. CASE t0' = t0
    BY <2>1 DEF SentInTime, Factor
  <2>2. CASE t0 = NoTime
    <3>1. Len(replayed) = 0
      BY <2>2 DEF Reader
    <3> QED
      BY <3>1 DEF SentInTime
  <2> QED
    BY <2>1, <2>2
<1>4. SentAsRecorded'
  BY DEF SentAsRecorded
<1>5. NoneLeftOut'
  <2> SUFFICES ASSUME NEW k \in 1..(line' - 1), log[k].kind = "frame"
               PROVE  \E i \in 1..Len(replayed) : replayed[i].line = k
    BY DEF NoneLeftOut
  <2>1. k \in Nat /\ 1 <= k /\ k < line'
    OBVIOUS
  <2>2. k \in 1..(line - 1)
    BY <1>1, <2>1
  <2> QED
    BY <2>2 DEF NoneLeftOut
<1> QED
  BY <1>2, <1>3, <1>4, <1>5

LEMMA SendLineInv == RecorderInv /\ SendLine => RecorderInv'
<1> SUFFICES ASSUME RecorderInv, SendLine PROVE RecorderInv'
  OBVIOUS
<1> USE DEF RecorderInv
<1>1. /\ replaying = "pacing" /\ wall >= Delay(log[line].ts)
      /\ UNCHANGED <<recording, log, speed, t0, wall, target>>
  BY DEF SendLine
<1>2. /\ line \in Nat /\ 1 <= line /\ line <= Len(log) /\ Len(log) \in Nat
      /\ log[line].kind = "frame" /\ t0 # NoTime /\ t0 \in Int /\ wall \in Nat
      /\ Len(replayed) \in Nat
  BY <1>1 DEF Reader, RecorderTypes
<1> DEFINE l == log[line]
           f == ParseFrame(l)
           s == [frame |-> f, line |-> line, time |-> wall]
<1>3. l \in Lines
  BY <1>2 DEF RecorderTypes
<1>4. l.ts \in Nat /\ (Intact(l) => ValidFrame(l.frame) /\ f = l.frame)
  BY <1>2, <1>3, LineFacts
<1>5. LogAtRest'
  BY <1>1 DEF LogAtRest, SendLine
<1>6. CASE target /\ ValidFrame(f)
  <2>1. /\ replayed' = Append(replayed, s)
        /\ line' = line + 1 /\ replaying' = "reading"
    BY <1>6 DEF SendLine
  <2> HIDE DEF s
  <2>2. s.frame = f /\ s.line = line /\ s.time = wall
    BY DEF s
  <2>3. s \in [frame : {ParseFrame(k) : k \in Lines}, line : Nat, time : Nat]
    BY <1>2, <1>3 DEF s
  <2> HIDE DEF l, f
  <2>4. RecorderTypes'
    BY <1>1, <1>2, <2>1, <2>3 DEF RecorderTypes, ReplayStates
  <2>5. /\ Len(replayed') = Len(replayed) + 1
        /\ replayed'[Len(replayed) + 1] = s
        /\ \A i \in 1..Len(replayed) : replayed'[i] = replayed[i]
    BY <2>1, <2>3 DEF RecorderTypes
  <2>6. Reader'
    <3>1. replayed' # <<>>
      BY <1>2, <2>5
    <3> QED
      BY <1>1, <1>2, <2>1, <3>1 DEF Reader
  <2>7. ASSUME NEW i \in 1..Len(replayed')
        PROVE  i = Len(replayed) + 1 \/ i \in 1..Len(replayed)
    BY <1>2, <2>5
  <2>8. SentInOrder'
    <3> SUFFICES ASSUME NEW i \in 1..Len(replayed')
                 PROVE  /\ 1 <= replayed'[i].line /\ replayed'[i].line < line'
                        /\ log[replayed'[i].line].kind = "frame"
                        /\ i > 1 => replayed'[i - 1].line < replayed'[i].line
      BY <1>1 DEF SentInOrder
    <3>1. CASE i \in 1..Len(replayed)
      <4>1. replayed[i].line \in Nat /\ i \in Nat
        BY <3>1, SentTypes
      <4>2. i > 1 => i - 1 \in 1..Len(replayed)
        BY <1>2, <3>1
      <4>3. replayed'[i] = replayed[i] /\ (i > 1 => replayed'[i - 1] = replayed[i - 1])
        BY <2>5, <3>1, <4>2
      <4> QED
        BY <1>2, <2>1, <3>1, <4>1, <4>3 DEF SentInOrder
    <3>2. CASE i = Len(replayed) + 1
      <4>1. replayed'[i] = s
        BY <2>5, <3>2
      <4>2. ASSUME i > 1 PROVE replayed'[i - 1].line < line
        <5>1. i - 1 \in 1..Len(replayed)
          BY <1>2, <3>2, <4>2
        <5> QED
          BY <2>5, <5>1 DEF SentInOrder
      <4> QED
        BY <1>2, <2>1, <2>2, <4>1, <4>2
    <3> QED
      BY <2>7, <3>1, <3>2
  <2>9. SentInTime'
    <3>1. Factor' = Factor
      BY <1>1 DEF Factor
    <3> SUFFICES ASSUME NEW i \in 1..Len(replayed')
                 PROVE  replayed'[i].time * Factor.num
                          > (log[replayed'[i].line].ts - t0) * Factor.den - Factor.num
      BY <1>1, <3>1 DEF SentInTime
    <3>2. CASE i \in 1..Len(replayed)
      BY <2>5, <3>2 DEF SentInTime
    <3>3. CASE i = Len(replayed) + 1
      <4>1. PICK a \in Nat, b \in Nat : a = Factor.num /\ a >= 1 /\ b = Factor.den
        BY FactorPositive DEF RecorderTypes
      <4>2. PICK e \in Int : e = l.ts - t0
        BY <1>2, <1>4
      <4>3. e > 0 => wall >= (e * b) \div a
        <5>1. l.ts - t0 > 0 => ~(l.ts < t0)
          BY <1>2, <1>4
        <5> QED
          BY <1>1, <4>1, <4>2, <5>1 DEF Delay, l
      <4>4. PICK d \in Int : d = e * b /\ (d > 0 => e > 0)
        <5>1. e * b \in Int /\ (e <= 0 => e * b <= 0)
          OBVIOUS
        <5> QED
          BY <5>1
      <4>5. wall * a > d - a
        BY <1>2, <4>1, <4>3, <4>4, WaitedLongEnough
      <4>6. wall * Factor.num > (l.ts - t0) * Factor.den - Factor.num
        BY <4>1, <4>2, <4>4, <4>5
      <4>7. replayed'[i].time = wall /\ log[replayed'[i].line].ts = l.ts
        BY <2>2, <2>5, <3>3 DEF l
      <4> QED
        BY <4>6, <4>7
    <3> QED
      BY <2>7, <3>2, <3>3
  <2>10. SentAsRecorded'
    <3> SUFFICES ASSUME NEW i \in 1..Len(replayed'), Intact(log[replayed'[i].line])
                 PROVE  replayed'[i].frame = log[replayed'[i].line].frame
      BY <1>1 DEF SentAsRecorded
    <3>1. CASE i \in 1..Len(replayed)
      BY <2>5, <3>1 DEF SentAsRecorded
    <3>2. CASE i = Len(replayed) + 1
      <4>1. replayed'[i].frame = f /\ log[replayed'[i].line] = l
        BY <2>2, <2>5, <3>2 DEF l
      <4> QED
        BY <1>4, <4>1
    <3> QED
      BY <2>7, <3>1, <3>2
  <2>11. NoneLeftOut'
    <3> SUFFICES ASSUME NEW k \in 1..(line' - 1), log[k].kind = "frame"
                 PROVE  \E i \in 1..Len(replayed') : replayed'[i].line = k
      BY <1>1 DEF NoneLeftOut
    <3>1. CASE k = line
      <4>1. Len(replayed) + 1 \in 1..Len(replayed')
        BY <1>2, <2>5
      <4> QED
        BY <2>2, <2>5, <3>1, <4>1
    <3>2. CASE k # line
      <4>1. k \in 1..(line - 1)
        BY <1>2, <2>1, <3>2
      <4>2. PICK i \in 1..Len(replayed) : replayed[i].line = k
        BY <4>1 DEF NoneLeftOut
      <4>3. i \in 1..Len(replayed')
        BY <1>2, <2>5
      <4> QED
        BY <2>5, <4>2, <4>3
    <3> QED
      BY <3>1, <3>2
  <2> QED
    BY <1>5, <2>4, <2>6, <2>8, <2>9, <2>10, <2>11
<1>7. CASE ~(target /\ ValidFrame(f))
  <2>1. replaying' = "failed" /\ UNCHANGED <<replayed, line>>
    BY <1>7 DEF SendLine
  <2>2. target => ~Intact(l)
    BY <1>4, <1>7
  <2>3. RecorderTypes'
    BY <1>1, <2>1 DEF RecorderTypes, ReplayStates
  <2>4. Reader'
    BY <1>1, <1>2, <2>1, <2>2 DEF Reader
  <2>5. (SentInOrder /\ SentInTime /\ SentAsRecorded /\ NoneLeftOut)'
    <3>1. \A k \in Nat : line <= k /\ k < line' => log[k].kind # "frame"
      BY <1>2, <2>1
    <3> QED
      BY <1>1, <1>2, <2>1, <3>1, NoSendInv
  <2> QED
    BY <1>5, <2>3, <2>4, <2>5
<1> QED
  BY <1>6, <1>7

LEMMA RecorderNextInv ==
  RecorderInv /\ [RecorderNext]_recorderVars => RecorderInv'
<1> SUFFICES ASSUME RecorderInv, [RecorderNext]_recorderVars PROVE RecorderInv'
  OBVIOUS
<1> USE DEF RecorderInv
<1>1. /\ log \in Seq(Lines) /\ line \in Nat /\ 1 <= line /\ line <= Len(log) + 1
      /\ Len(log) \in Nat
  BY DEF RecorderTypes, Reader
<1>2. CASE RecordFrame
  <2>1. replaying = "off"
    BY <1>2 DEF RecordFrame, LogAtRest
  <2>2. PICK f \in LogFrames, ts \in 0..MaxStamp : log' = Append(log, FormatLine(ts, f))
    BY <1>2 DEF RecordFrame
  <2>3. FormatLine(ts, f) \in Lines
    BY WrittenLines DEF WrittenFor
  <2>4. log' \in Seq(Lines)
    BY <1>1, <2>2, <2>3
  <2> QED
    BY <1>2, <2>1, <2>4, WritingInv DEF RecordFrame
<1>3. CASE RecordFails
  <2>1. replaying = "off"
    BY <1>3 DEF RecordFails, LogAtRest
  <2>2. PICK f \in LogFrames, ts \in 0..MaxStamp :
          log' \in {log} \union {Append(log, l) : l \in Torn(FormatLine(ts, f))}
    BY <1>3 DEF RecordFails
  <2>3. Torn(FormatLine(ts, f)) \subseteq Lines
    BY WrittenLines DEF WrittenFor
  <2>4. log' \in Seq(Lines)
    BY <1>1, <2>2, <2>3
  <2> QED
    BY <1>3, <2>1, <2>4, WritingInv DEF RecordFails
<1>4. CASE RecordEnds
  <2>1. replaying = "off"
    BY <1>4 DEF RecordEnds, LogAtRest
  <2>2. log' \in Seq(Lines)
    BY <1>1, <1>4 DEF RecordEnds
  <2> QED
    BY <1>4, <2>1, <2>2, WritingInv DEF RecordEnds
<1>5. CASE Annotate
  <2>1. log' \in Seq(Lines)
    BY <1>1, <1>5 DEF Annotate, Lines
  <2> QED
    BY <1>5, <2>1, WritingInv DEF Annotate
<1>6. CASE ReplayCall
  <2>1. RecorderTypes' /\ LogAtRest'
    BY <1>6 DEF ReplayCall, RecorderTypes, LogAtRest, ReplayStates
  <2>2. Reader'
    BY <1>6 DEF ReplayCall, Reader
  <2>3. (SentInOrder /\ SentInTime /\ SentAsRecorded /\ NoneLeftOut)'
    BY <1>1, <1>6, NoSendInv DEF ReplayCall
  <2> QED
    BY <2>1, <2>2, <2>3
<1>7. CASE SkipLine
  <2>1. RecorderTypes' /\ LogAtRest'
    BY <1>7 DEF SkipLine, RecorderTypes, LogAtRest
  <2>2. Reader'
    BY <1>1, <1>7 DEF SkipLine, Reader
  <2>3. \A k \in Nat : line <= k /\ k < line' => log[k].kind # "frame"
    BY <1>1, <1>7 DEF SkipLine
  <2>4. (SentInOrder /\ SentInTime /\ SentAsRecorded /\ NoneLeftOut)'
    BY <1>1, <1>7, <2>3, NoSendInv DEF SkipLine
  <2> QED
    BY <2>1, <2>2, <2>4
<1>8. CASE ReadLine
  <2>1. log[line].ts \in Nat
    BY <1>1, <1>8, LineFacts DEF ReadLine
  <2>2. t0' \in Int /\ t0' # NoTime /\ (t0 = NoTime \/ t0' = t0)
    BY <1>8, <2>1 DEF ReadLine, NoTime, RecorderTypes
  <2>3. RecorderTypes' /\ LogAtRest'
    BY <1>8, <2>2 DEF ReadLine, RecorderTypes, LogAtRest, ReplayStates
  <2>4. Reader'
    BY <1>1, <1>8, <2>2 DEF ReadLine, Reader
  <2>5. (SentInOrder /\ SentInTime /\ SentAsRecorded /\ NoneLeftOut)'
    <3>1. \A k \in Nat : line <= k /\ k < line' => log[k].kind # "frame"
      BY <1>1, <1>8 DEF ReadLine
    <3> QED
      BY <1>1, <1>8, <2>2, <3>1, NoSendInv DEF ReadLine
  <2> QED
    BY <2>3, <2>4, <2>5
<1>9. CASE SendLine
  BY <1>9, SendLineInv
<1>10. CASE ReplayEnds
  <2>1. RecorderTypes' /\ LogAtRest'
    BY <1>10 DEF ReplayEnds, RecorderTypes, LogAtRest, ReplayStates
  <2>2. Reader'
    BY <1>10 DEF ReplayEnds, Reader
  <2>3. (SentInOrder /\ SentInTime /\ SentAsRecorded /\ NoneLeftOut)'
    BY <1>1, <1>10, NoSendInv DEF ReplayEnds
  <2> QED
    BY <2>1, <2>2, <2>3
<1>11. CASE TimePasses
  <2>1. RecorderTypes' /\ LogAtRest'
    BY <1>11 DEF TimePasses, RecorderTypes, LogAtRest
  <2>2. Reader'
    BY <1>11 DEF TimePasses, Reader
  <2>3. (SentInOrder /\ SentInTime /\ SentAsRecorded /\ NoneLeftOut)'
    BY <1>1, <1>11, NoSendInv DEF TimePasses
  <2> QED
    BY <2>1, <2>2, <2>3
<1>12. CASE CloseTarget
  <2>1. RecorderTypes' /\ LogAtRest'
    BY <1>12 DEF CloseTarget, RecorderTypes, LogAtRest
  <2>2. Reader'
    BY <1>12 DEF CloseTarget, Reader
  <2>3. (SentInOrder /\ SentInTime /\ SentAsRecorded /\ NoneLeftOut)'
    BY <1>1, <1>12, NoSendInv DEF CloseTarget
  <2> QED
    BY <2>1, <2>2, <2>3
<1>13. CASE UNCHANGED recorderVars
  <2>1. RecorderTypes' /\ LogAtRest'
    BY <1>13 DEF recorderVars, RecorderTypes, LogAtRest
  <2>2. Reader'
    BY <1>13 DEF recorderVars, Reader
  <2>3. (SentInOrder /\ SentInTime /\ SentAsRecorded /\ NoneLeftOut)'
    BY <1>1, <1>13, NoSendInv DEF recorderVars
  <2> QED
    BY <2>1, <2>2, <2>3
<1> QED
  BY <1>2, <1>3, <1>4, <1>5, <1>6, <1>7, <1>8, <1>9, <1>10, <1>11, <1>12, <1>13
     DEF RecorderNext

LEMMA RecorderInvFaithful == RecorderInv => ReplayFaithful
<1> SUFFICES ASSUME RecorderInv PROVE ReplayFaithful
  OBVIOUS
<1> USE DEF RecorderInv
<1>1. {k \in 1..(line - 1) : log[k].kind = "frame"}
        = {s.line : s \in Range(replayed)}
  <2>1. DOMAIN replayed = 1..Len(replayed)
    BY DEF RecorderTypes
  <2>2. ASSUME NEW k \in 1..(line - 1), log[k].kind = "frame"
        PROVE  k \in {s.line : s \in Range(replayed)}
    <3>1. PICK i \in 1..Len(replayed) : replayed[i].line = k
      BY <2>2 DEF NoneLeftOut
    <3>2. replayed[i] \in Range(replayed)
      BY <2>1 DEF Range
    <3> QED
      BY <3>1, <3>2
  <2>3. ASSUME NEW s \in Range(replayed)
        PROVE  s.line \in 1..(line - 1) /\ log[s.line].kind = "frame"
    <3>1. PICK i \in 1..Len(replayed) : s = replayed[i]
      BY <2>1 DEF Range
    <3>2. s.line \in Nat /\ line \in Nat
      BY <3>1, SentTypes DEF RecorderTypes
    <3> QED
      BY <3>1, <3>2 DEF SentInOrder
  <2> QED
    BY <2>2, <2>3
<1> QED
  BY <1>1 DEF ReplayFaithful, SentInOrder, SentInTime, SentAsRecorded, Reader

\* A replay is faithful to the log, whatever the recorded bus delivers, the
\* wall clock does, a failing write leaves behind and the speed is.
THEOREM RecorderFaithful == RecorderSpec => []ReplayFaithful
<1>1. RecorderSpec => []RecorderInv
  BY RecorderInitInv, RecorderNextInv, PTL DEF RecorderSpec
<1> QED
  BY <1>1, RecorderInvFaithful, PTL

---------------------------------------------------------------------------
(* The conversions, for every frame with the fields that src/frame.rs      *)
(* gives it, every J1939 message, every list of PGNs and every address.    *)

\* A frame is its fields.
LEMMA FrameFields ==
  ASSUME NEW f \in Frames, NEW g, g = [k \in FieldNames |-> g[k]],
         \A k \in FieldNames : g[k] = f[k]
  PROVE  g = f
<1>1. f = [k \in FieldNames |-> f[k]]
  BY DEF Frames, FieldNames
<1> QED
  BY <1>1

LEMMA CleanFields ==
  ASSUME NEW f \in Frames
  PROVE  /\ Clean(f) = [k \in FieldNames |->
              IF k \in XlFields /\ ~f.xl THEN DefaultFrame[k] ELSE f[k]]
         /\ Clean(f) \in Frames
         /\ \A k \in FieldNames \ XlFields : Clean(f)[k] = f[k]
<1>1. f = [k \in FieldNames |-> f[k]] /\ DOMAIN f = FieldNames
  BY DEF Frames, FieldNames
<1>2. Clean(f) = [k \in FieldNames |->
              IF k \in XlFields /\ ~f.xl THEN DefaultFrame[k] ELSE f[k]]
  <2>1. CASE f.xl
    BY <1>1, <2>1 DEF Clean
  <2>2. CASE ~f.xl
    BY <1>1, <2>2 DEF Clean
  <2> QED
    BY <2>1, <2>2
<1>3. Clean(f) \in Frames
  <2>1. CASE f.xl
    BY <2>1 DEF Clean
  <2>2. CASE ~f.xl
    <3> DEFINE c == Clean(f)
    <3>1. c = [k \in FieldNames |->
                IF k \in XlFields THEN DefaultFrame[k] ELSE f[k]]
      BY <1>2, <2>2
    <3>2. /\ c.id = f.id /\ c.ext = f.ext /\ c.rtr = f.rtr /\ c.fd = f.fd
          /\ c.brs = f.brs /\ c.esi = f.esi /\ c.xl = f.xl /\ c.len = f.len
      BY <3>1 DEF FieldNames, XlFields
    <3>3. c.sdt = 0 /\ c.vcid = 0 /\ c.af = 0 /\ c.sec = FALSE
      BY <3>1 DEF FieldNames, XlFields, DefaultFrame
    <3>4. /\ f.id \in Nat /\ f.ext \in BOOLEAN /\ f.rtr \in BOOLEAN
          /\ f.fd \in BOOLEAN /\ f.brs \in BOOLEAN /\ f.esi \in BOOLEAN
          /\ f.xl \in BOOLEAN /\ f.len \in Nat
      BY DEF Frames
    <3>5. c = [id |-> f.id, ext |-> f.ext, rtr |-> f.rtr, fd |-> f.fd,
               brs |-> f.brs, esi |-> f.esi, xl |-> f.xl, sdt |-> 0,
               vcid |-> 0, af |-> 0, sec |-> FALSE, len |-> f.len]
      <4> DEFINE d == [id |-> f.id, ext |-> f.ext, rtr |-> f.rtr, fd |-> f.fd,
               brs |-> f.brs, esi |-> f.esi, xl |-> f.xl, sdt |-> 0,
               vcid |-> 0, af |-> 0, sec |-> FALSE, len |-> f.len]
      <4>1. d = [k \in FieldNames |-> d[k]]
        BY DEF FieldNames
      <4>2. c = [k \in FieldNames |-> c[k]]
        <5> HIDE DEF c
        <5> QED
          BY <3>1
      <4>3. \A k \in FieldNames : c[k] = d[k]
        <5>1. /\ d.id = f.id /\ d.ext = f.ext /\ d.rtr = f.rtr /\ d.fd = f.fd
              /\ d.brs = f.brs /\ d.esi = f.esi /\ d.xl = f.xl /\ d.len = f.len
              /\ d.sdt = 0 /\ d.vcid = 0 /\ d.af = 0 /\ d.sec = FALSE
          OBVIOUS
        <5> HIDE DEF c, d
        <5> QED
          BY <3>2, <3>3, <5>1 DEF FieldNames
      <4> HIDE DEF c, d
      <4>4. c = d
        BY <4>1, <4>2, <4>3
      <4> QED
        BY <4>4 DEF c, d
    <3> HIDE DEF c
    <3>6. c \in Frames
      BY <3>4, <3>5 DEF Frames
    <3> QED
      BY <3>6 DEF c
  <2> QED
    BY <2>1, <2>2
<1>4. \A k \in FieldNames \ XlFields : Clean(f)[k] = f[k]
  BY <1>2
<1> QED
  BY <1>2, <1>3, <1>4

\* A relay message brings back every field.
LEMMA MessageRoundTrip ==
  ASSUME NEW f \in Frames
  PROVE  FromMessage(ToMessage(f)) = Clean(f)
<1> DEFINE m == ToMessage(f)
           g == FromMessage(m)
<1>1. /\ m.id = f.id /\ m.payload = f.len
      /\ m.meta = [k \in Meta(f) |-> f[k]]
  BY DEF ToMessage
<1>2. DOMAIN DefaultFrame = FieldNames
  BY DEF DefaultFrame, FieldNames
<1>3. DOMAIN m.meta = Meta(f) /\ \A k \in Meta(f) : m.meta[k] = f[k]
  BY <1>1
<1>4. g = [k \in FieldNames |->
             IF k = "id" THEN f.id ELSE IF k = "len" THEN f.len
             ELSE IF k \in Meta(f) THEN f[k] ELSE DefaultFrame[k]]
  BY <1>1, <1>2, <1>3 DEF FromMessage
<1>5. ASSUME NEW k \in FieldNames PROVE g[k] = Clean(f)[k]
  <2> HIDE DEF g
  <2>1. Clean(f)[k] = IF k \in XlFields /\ ~f.xl THEN DefaultFrame[k] ELSE f[k]
    BY CleanFields
  <2>2. CASE k \in {"id", "len"}
    BY <1>4, <2>1, <2>2 DEF XlFields
  <2>3. CASE k \in {"ext", "fd", "rtr", "brs"}
    BY <1>4, <2>1, <2>3 DEF Meta, XlFields
  <2>4. CASE k \in {"esi", "xl"}
    <3>1. f[k] \in BOOLEAN /\ DefaultFrame[k] = FALSE
      BY <2>4 DEF Frames, DefaultFrame
    <3>2. k \in Meta(f) <=> f[k]
      BY <2>4 DEF Meta, XlFields
    <3>3. k \notin XlFields /\ k \notin {"id", "len"}
      BY <2>4 DEF XlFields
    <3> QED
      BY <1>4, <2>1, <3>1, <3>2, <3>3
  <2>5. CASE k \in XlFields
    <3>1. k \in Meta(f) <=> f.xl /\ f[k] # DefaultFrame[k]
      BY <2>5 DEF Meta, XlFields
    <3>2. k \notin {"id", "len"}
      BY <2>5 DEF XlFields
    <3> QED
      BY <1>4, <2>1, <2>5, <3>1, <3>2
  <2> QED
    BY <2>2, <2>3, <2>4, <2>5 DEF FieldNames, XlFields
<1>6. g = [k \in FieldNames |-> g[k]]
  <2> HIDE DEF g
  <2> QED
    BY <1>4
<1> HIDE DEF g
<1>7. g = Clean(f)
  BY <1>5, <1>6, CleanFields, FrameFields
<1> QED
  BY <1>7 DEF g

\* The socket brings back every field of a valid frame that is not CAN XL.
LEMMA SocketRoundTrip ==
  ASSUME NEW f \in Frames, ValidFrame(f), ~f.xl
  PROVE  FromRaw(ToRaw(f)) = Clean(f)
<1> DEFINE r == ToRaw(f)
           g == FromRaw(r)
<1>1. /\ f.id \in Nat /\ f.ext \in BOOLEAN /\ f.rtr \in BOOLEAN
      /\ f.fd \in BOOLEAN /\ f.brs \in BOOLEAN /\ f.esi \in BOOLEAN
      /\ f.xl \in BOOLEAN /\ f.len \in Nat
  BY DEF Frames
<1>2. /\ f.id <= (IF f.ext THEN MaxExtId ELSE MaxStdId)
      /\ (f.brs \/ f.esi => f.fd) /\ (f.rtr => ~f.fd)
      /\ f.len <= MaxDataLen(f)
  BY DEF ValidFrame
<1>3. /\ r.fd = f.fd /\ r.canId.id = f.id /\ r.canId.eff = f.ext
      /\ r.canId.rtr = f.rtr
      /\ "brs" \in r.flags <=> f.fd /\ f.brs
      /\ "esi" \in r.flags <=> f.fd /\ f.esi
  BY DEF ToRaw, BuildCanId
<1>4. r.len = f.len
  <2>1. MaxDataLen(f) \in Nat
    BY DEF MaxDataLen
  <2>2. r.len = IF f.len < MaxDataLen(f) THEN f.len ELSE MaxDataLen(f)
    BY DEF ToRaw
  <2> QED
    BY <1>1, <1>2, <2>1, <2>2
<1>5. f.id % (IF f.ext THEN MaxExtId + 1 ELSE MaxStdId + 1) = f.id
  BY <1>1, <1>2 DEF MaxExtId, MaxStdId
<1> HIDE DEF r
<1>6. /\ g.id = f.id /\ g.ext = f.ext /\ g.rtr = f.rtr /\ g.fd = f.fd
      /\ g.brs = f.brs /\ g.esi = f.esi /\ g.len = f.len
  <2>1. /\ g.id = r.canId.id % (IF r.canId.eff THEN MaxExtId + 1 ELSE MaxStdId + 1)
        /\ g.ext = r.canId.eff /\ g.rtr = (~r.fd /\ r.canId.rtr) /\ g.fd = r.fd
        /\ g.brs = ("brs" \in r.flags) /\ g.esi = ("esi" \in r.flags)
        /\ g.len = r.len
    BY DEF FromRaw, DefaultFrame
  <2>2. g.id = f.id /\ g.ext = f.ext /\ g.fd = f.fd /\ g.len = f.len
    BY <1>3, <1>4, <1>5, <2>1
  <2>3. g.rtr = f.rtr
    BY <1>1, <1>2, <1>3, <2>1
  <2>4. g.brs = f.brs
    BY <1>1, <1>2, <1>3, <2>1
  <2>5. g.esi = f.esi
    BY <1>1, <1>2, <1>3, <2>1
  <2> QED
    BY <2>2, <2>3, <2>4, <2>5
<1>7. /\ g.xl = FALSE /\ g.sdt = 0 /\ g.vcid = 0 /\ g.af = 0 /\ g.sec = FALSE
  BY DEF FromRaw, DefaultFrame
<1>8. g = [k \in FieldNames |-> g[k]]
  <2>1. DefaultFrame = [k \in FieldNames |-> DefaultFrame[k]]
    BY DEF DefaultFrame, FieldNames
  <2> QED
    BY <2>1 DEF FromRaw
<1> HIDE DEF g
<1>9. ASSUME NEW k \in FieldNames PROVE g[k] = Clean(f)[k]
  <2>1. Clean(f)[k] = IF k \in XlFields THEN DefaultFrame[k] ELSE f[k]
    BY CleanFields
  <2>2. CASE k \in XlFields
    <3>1. /\ DefaultFrame.sdt = 0 /\ DefaultFrame.vcid = 0
          /\ DefaultFrame.af = 0 /\ DefaultFrame.sec = FALSE
      BY DEF DefaultFrame
    <3> QED
      BY <1>7, <2>1, <2>2, <3>1 DEF XlFields
  <2>3. CASE k \notin XlFields
    BY <1>1, <1>6, <1>7, <2>1, <2>3 DEF FieldNames, XlFields
  <2> QED
    BY <2>2, <2>3
<1>10. g = Clean(f)
  BY <1>8, <1>9, CleanFields, FrameFields
<1> QED
  BY <1>10 DEF g, r

\* What send() looks at, a relay message carries.
LEMMA CleanSendError ==
  ASSUME NEW f \in Frames
  PROVE  SendError(Clean(f)) = SendError(f) /\ Clean(f).xl = f.xl
<1> DEFINE c == Clean(f)
<1>1. /\ c.id = f.id /\ c.ext = f.ext /\ c.rtr = f.rtr /\ c.fd = f.fd
      /\ c.brs = f.brs /\ c.esi = f.esi /\ c.xl = f.xl /\ c.len = f.len
  BY CleanFields DEF FieldNames, XlFields
<1> HIDE DEF c
<1>2. MaxDataLen(c) = MaxDataLen(f)
  BY <1>1 DEF MaxDataLen
<1>3. ValidXl(c) = ValidXl(f)
  BY <1>1, <1>2 DEF ValidXl
<1>4. ValidFrame(c) = ValidFrame(f)
  BY <1>1, <1>2, <1>3 DEF ValidFrame
<1>5. SendError(c) = SendError(f)
  BY <1>1, <1>4 DEF SendError
<1> QED
  BY <1>1, <1>5 DEF c

LEMMA CleanTwice ==
  ASSUME NEW f \in Frames
  PROVE  Clean(Clean(f)) = Clean(f)
<1> DEFINE c == Clean(f)
<1>1. /\ c \in Frames
      /\ c = [k \in FieldNames |->
                IF k \in XlFields /\ ~f.xl THEN DefaultFrame[k] ELSE f[k]]
      /\ c.xl = f.xl
  BY CleanFields, CleanSendError
<1> HIDE DEF c
<1>2. Clean(c) = [k \in FieldNames |->
              IF k \in XlFields /\ ~c.xl THEN DefaultFrame[k] ELSE c[k]]
  BY <1>1, CleanFields
<1>3. ASSUME NEW k \in FieldNames PROVE Clean(c)[k] = c[k]
  BY <1>1, <1>2
<1>4. Clean(c) = [k \in FieldNames |-> Clean(c)[k]]
  BY <1>2
<1>5. Clean(c) = c
  BY <1>1, <1>3, <1>4, FrameFields
<1> QED
  BY <1>5 DEF c

\* The adapter's send over the socket.
LEMMA NodeRoundTrip ==
  ASSUME NEW f \in Frames
  PROVE  SentByNode(ToMessage(f)) =
           IF ValidFrame(f) /\ ~f.xl THEN Clean(f) ELSE Told("Closed")
<1> DEFINE c == Clean(f)
<1>1. c \in Frames /\ SendError(c) = SendError(f) /\ c.xl = f.xl /\ Clean(c) = c
  BY CleanFields, CleanSendError, CleanTwice
<1>2. FromMessage(ToMessage(f)) = c
  BY MessageRoundTrip
<1> HIDE DEF c
<1>3. SentByNode(ToMessage(f)) =
        IF SendError(c) = "none" THEN FromRaw(ToRaw(c))
        ELSE Told(AdapterError(SendError(c)))
  BY <1>2 DEF SentByNode
<1>4. CASE ValidFrame(f) /\ ~f.xl
  <2>1. SendError(c) = "none"
    BY <1>1, <1>4 DEF SendError
  <2>2. ValidFrame(c) /\ ~c.xl
    BY <1>1, <1>4, <2>1 DEF SendError
  <2>3. FromRaw(ToRaw(c)) = c
    BY <1>1, <2>2, SocketRoundTrip
  <2> QED
    BY <1>3, <1>4, <2>1, <2>3 DEF c
<1>5. CASE ~(ValidFrame(f) /\ ~f.xl)
  <2>1. SendError(c) \in {"InvalidFrame", "Other"}
    BY <1>1, <1>5 DEF SendError
  <2>2. AdapterError(SendError(c)) = "Closed" /\ SendError(c) # "none"
    BY <2>1 DEF AdapterError, Sentinels
  <2> QED
    BY <1>3, <1>5, <2>2
<1> QED
  BY <1>4, <1>5

\* A PGN of eighteen bits, and an identifier.
Pgn18(q, m) == q * 256 + m
Packed(a, q, m, s) == a * 2^26 + (q * 256) * 256 + m * 256 + s

PriorityOf(id) == (id \div 2^26) % 8
FieldOf(id) == (id \div 256) % 2^18
DestinationOf(id) == (id \div 256) % 256
SourceOf(id) == id % 256
KeptPgn(pgn) == pgn % 2^18

\* The fields of a J1939 identifier come out as they went in.
LEMMA PackedFields ==
  ASSUME NEW a \in Nat, a < 8, NEW q \in Nat, q < 1024,
         NEW m \in Nat, m < 256, NEW s \in Nat, s < 256
  PROVE  /\ Packed(a, q, m, s) \in Nat /\ Packed(a, q, m, s) <= MaxExtId
         /\ PriorityOf(Packed(a, q, m, s)) = a
         /\ FieldOf(Packed(a, q, m, s)) = Pgn18(q, m)
         /\ DestinationOf(Packed(a, q, m, s)) = m
         /\ SourceOf(Packed(a, q, m, s)) = s
<1> DEFINE pgn == q * 256 + m
           rest == pgn * 256 + s
           high == a * 2^18 + pgn
           id == Packed(a, q, m, s)
<1>1. pgn \in Nat /\ pgn < 2^18
  BY SMT
<1>2. rest \in Nat /\ rest < 2^26
  BY SMT
<1>3. id = a * 2^26 + rest
  BY SMT DEF Packed
<1>4. id = high * 256 + s
  BY SMT DEF Packed
<1>5. high \in Nat
  BY SMT
<1> HIDE DEF id
<1>6. id \in Nat /\ id <= MaxExtId
  <2> HIDE DEF rest, pgn, high
  <2> QED
    BY <1>2, <1>3, SMT DEF MaxExtId
<1>7. id \div 2^26 = a
  <2> HIDE DEF rest, pgn, high
  <2> QED
    BY <1>2, <1>3, SMT
<1>8. id \div 256 = high /\ id % 256 = s
  <2> HIDE DEF high, rest, pgn
  <2> QED
    BY <1>4, <1>5, SMT
<1>9. high % 2^18 = pgn
  <2> HIDE DEF pgn
  <2> QED
    BY <1>1, SMT
<1>10. high % 256 = m
  <2> DEFINE n == a * 1024 + q
  <2>1. n \in Nat /\ high = n * 256 + m
    BY SMT
  <2> HIDE DEF n, high
  <2> QED
    BY <2>1, SMT
<1>11. a % 8 = a
  BY SMT
<1> HIDE DEF high, rest
<1> QED
  BY <1>6, <1>7, <1>8, <1>9, <1>10, <1>11
     DEF id, Pgn18, PriorityOf, FieldOf, DestinationOf, SourceOf

KeptHeader(priority, pgn, src) ==
  [priority |-> priority % 8,
   pgn |-> IF IsPeerToPeer(KeptPgn(pgn))
           THEN KeptPgn(pgn) - (KeptPgn(pgn) % 256) ELSE KeptPgn(pgn),
   src |-> src]

LEMMA PgnFields ==
  ASSUME NEW pgn \in Nat
  PROVE  /\ (pgn \div 256) % 1024 \in Nat /\ (pgn \div 256) % 1024 < 1024
         /\ pgn % 256 \in Nat /\ pgn % 256 < 256
         /\ pgn % 2^18 = Pgn18((pgn \div 256) % 1024, pgn % 256)
         /\ ((pgn \div 256) % 1024) % 256 = (pgn \div 256) % 256
BY SMT DEF Pgn18

LEMMA ShortPgn ==
  ASSUME NEW q \in Nat, q < 1024, NEW m \in Nat, m < 256
  PROVE  /\ PduFormat(Pgn18(q, m)) = q % 256
         /\ PageAndFormat(Pgn18(q, m)) = q * 256
         /\ Pgn18(q, m) % 256 = m
<1>1. (q * 256 + m) \div 256 = q
  OBVIOUS
<1>2. (q * 256 + m) % 256 = m
  OBVIOUS
<1>3. q % 1024 = q
  OBVIOUS
<1> QED
  BY <1>1, <1>2, <1>3 DEF PduFormat, PageAndFormat, Pgn18

\* A J1939 identifier gives back the priority, the eighteen bits of the PGN that
\* J1939 keeps, the source and, peer to peer, the destination.
LEMMA IdRoundTrip ==
  ASSUME NEW priority \in Nat, NEW pgn \in Nat,
         NEW dst \in Nat, dst < 256, NEW src \in Nat, src < 256
  PROVE  /\ EncodeId(priority, pgn, src, dst) \in Nat
         /\ EncodeId(priority, pgn, src, dst) <= MaxExtId
         /\ DecodeId(EncodeId(priority, pgn, src, dst)) =
              KeptHeader(priority, pgn, src)
         /\ IsPeerToPeer(DecodeId(EncodeId(priority, pgn, src, dst)).pgn)
              <=> IsPeerToPeer(KeptPgn(pgn))
         /\ IsPeerToPeer(KeptPgn(pgn)) =>
              DestinationOf(EncodeId(priority, pgn, src, dst)) = dst
<1> DEFINE a == priority % 8
           q == (pgn \div 256) % 1024
           low == pgn % 256
           kept == KeptPgn(pgn)
           id == EncodeId(priority, pgn, src, dst)
           m == IF IsPeerToPeer(pgn) THEN dst ELSE low
<1>1. a \in Nat /\ a < 8
  OBVIOUS
<1>2. /\ q \in Nat /\ q < 1024 /\ low \in Nat /\ low < 256
      /\ kept = Pgn18(q, low)
      /\ q % 256 = (pgn \div 256) % 256
  BY PgnFields DEF KeptPgn
<1>3. m \in Nat /\ m < 256
  BY <1>2
<1>4. id = Packed(a, q, m, src)
  <2>1. PageAndFormat(pgn) = q * 256
    BY DEF PageAndFormat
  <2> QED
    BY <2>1 DEF EncodeId, Packed
<1>5. IsPeerToPeer(pgn) <=> q % 256 < 240
  BY <1>2 DEF IsPeerToPeer, PduFormat
<1>6. ~IsPeerToPeer(pgn) => m = low
  OBVIOUS
<1>7. IsPeerToPeer(pgn) => m = dst
  OBVIOUS
<1>8. a = priority % 8
  OBVIOUS
<1> HIDE DEF a, q, low, m, id, kept
<1>9. /\ id \in Nat /\ id <= MaxExtId
      /\ PriorityOf(id) = a /\ FieldOf(id) = Pgn18(q, m)
      /\ DestinationOf(id) = m /\ SourceOf(id) = src
  <2>1. q \in Nat /\ q < 1024
    BY <1>2
  <2>2. /\ Packed(a, q, m, src) \in Nat /\ Packed(a, q, m, src) <= MaxExtId
        /\ PriorityOf(Packed(a, q, m, src)) = a
        /\ FieldOf(Packed(a, q, m, src)) = Pgn18(q, m)
        /\ DestinationOf(Packed(a, q, m, src)) = m
        /\ SourceOf(Packed(a, q, m, src)) = src
    BY <1>1, <2>1, <1>3, PackedFields
  <2> QED
    BY <1>4, <2>2
<1>10. /\ PduFormat(kept) = q % 256 /\ kept % 256 = low
  BY <1>2, ShortPgn
<1>11. IsPeerToPeer(kept) <=> IsPeerToPeer(pgn)
  BY <1>5, <1>10 DEF IsPeerToPeer
<1>12. /\ PduFormat(Pgn18(q, m)) = q % 256
       /\ PageAndFormat(Pgn18(q, m)) = q * 256
  BY <1>2, <1>3, ShortPgn
<1>13. IsPeerToPeer(Pgn18(q, m)) <=> IsPeerToPeer(kept)
  BY <1>10, <1>12 DEF IsPeerToPeer
<1>14. /\ q * 256 = kept - (kept % 256)
       /\ q * 256 = Pgn18(q, 0)
  BY <1>2, <1>10 DEF Pgn18
<1>15. ~IsPeerToPeer(kept) => Pgn18(q, m) = kept
  BY <1>2, <1>6, <1>11
<1>16. DecodeId(id) =
         [priority |-> a,
          pgn |-> IF IsPeerToPeer(kept) THEN kept - (kept % 256) ELSE kept,
          src |-> src]
  BY <1>9, <1>12, <1>13, <1>14, <1>15 DEF DecodeId, PriorityOf, FieldOf, SourceOf
<1>17. IsPeerToPeer(q * 256) <=> IsPeerToPeer(kept)
  <2>1. PduFormat(Pgn18(q, 0)) = q % 256
    BY <1>2, ShortPgn
  <2> QED
    BY <1>10, <1>14, <2>1 DEF IsPeerToPeer
<1>18. IsPeerToPeer(DecodeId(id).pgn) <=> IsPeerToPeer(kept)
  BY <1>14, <1>16, <1>17
<1> QED
  BY <1>7, <1>8, <1>9, <1>11, <1>16, <1>18 DEF id, kept, KeptHeader

LEMMA J1939RoundTrip ==
  ASSUME NEW j \in J1939Messages, NEW f, f = ToCan(j, Node)
  PROVE  /\ ValidFrame(f) <=> j.len <= 8
         /\ f.ext
         /\ FromCan(f) = Kept(j)
         /\ DecodeId(f.id).pgn = Kept(j).pgn
<1> DEFINE kept == KeptPgn(j.pgn)
           id == EncodeId(j.priority, j.pgn, Node, j.dst)
<1>1. /\ j.priority \in Nat /\ j.pgn \in Nat /\ j.len \in Nat
      /\ j.dst \in Nat /\ j.dst < 256
  BY DEF J1939Messages
<1>2. Node \in Nat /\ Node < 256
  BY SequentialAssumption
<1>3. f.id = id /\ f.ext = TRUE /\ f.len = j.len
  BY DEF ToCan, DefaultFrame
<1>4. /\ f.xl = FALSE /\ f.fd = FALSE /\ f.brs = FALSE /\ f.esi = FALSE
      /\ f.rtr = FALSE
  BY DEF ToCan, DefaultFrame
<1>5. Kept(j) =
        [priority |-> j.priority % 8,
         pgn |-> IF IsPeerToPeer(kept) THEN kept - (kept % 256) ELSE kept,
         src |-> Node,
         dst |-> IF IsPeerToPeer(kept) THEN j.dst ELSE Broadcast,
         len |-> j.len]
  BY DEF Kept, KeptPgn
<1>6. id = EncodeId(j.priority, j.pgn, Node, j.dst) /\ kept = KeptPgn(j.pgn)
  OBVIOUS
<1> HIDE DEF id, kept
<1>7. /\ id \in Nat /\ id <= MaxExtId
      /\ DecodeId(id) =
           [priority |-> j.priority % 8,
            pgn |-> IF IsPeerToPeer(kept) THEN kept - (kept % 256) ELSE kept,
            src |-> Node]
      /\ IsPeerToPeer(DecodeId(id).pgn) <=> IsPeerToPeer(kept)
      /\ IsPeerToPeer(kept) => DestinationOf(id) = j.dst
  <2> DEFINE p == j.priority  g == j.pgn  d == j.dst
  <2>1. p \in Nat /\ g \in Nat /\ d \in Nat /\ d < 256
    BY <1>1
  <2> HIDE DEF p, g, d
  <2>2. EncodeId(p, g, Node, d) \in Nat /\ EncodeId(p, g, Node, d) <= MaxExtId
    BY <1>2, <2>1, IdRoundTrip
  <2>3. DecodeId(EncodeId(p, g, Node, d)) =
          KeptHeader(p, g, Node)
    BY <1>2, <2>1, IdRoundTrip
  <2>4. IsPeerToPeer(DecodeId(EncodeId(p, g, Node, d)).pgn)
          <=> IsPeerToPeer(KeptPgn(g))
    BY <1>2, <2>1, IdRoundTrip
  <2>5. IsPeerToPeer(KeptPgn(g)) => DestinationOf(EncodeId(p, g, Node, d)) = d
    BY <1>2, <2>1, IdRoundTrip
  <2> QED
    BY <1>6, <2>2, <2>3, <2>4, <2>5 DEF p, g, d, KeptHeader
<1>8. ValidFrame(f) <=> j.len <= 8
  <2>1. MaxDataLen(f) = 8
    BY <1>4 DEF MaxDataLen
  <2> QED
    BY <1>3, <1>4, <1>7, <2>1 DEF ValidFrame
<1>9. FromCan(f) = Kept(j)
  BY <1>3, <1>5, <1>7 DEF FromCan, DestinationOf
<1>10. DecodeId(f.id).pgn = Kept(j).pgn
  BY <1>3, <1>5, <1>7
<1> QED
  BY <1>3, <1>8, <1>9, <1>10

Given ==
  job \in Conversions =>
    given \in IF job = "j1939" THEN J1939Messages ELSE Frames

OnTheWire ==
  wire # None =>
    /\ job \in {"relay", "node"} => wire = ToMessage(given)
    /\ job = "socket" => wire = ToRaw(given) /\ SendError(given) = "none"
    /\ job = "j1939" => wire = ToCan(given, Node) /\ ValidFrame(wire)

FrameInv == Given /\ OnTheWire /\ FrameSurvives

LEMMA FrameInitInv == Init => FrameInv
BY SequentialAssumption DEF Init, FrameInv, Given, OnTheWire, FrameSurvives

LEMMA ConvertInv == FrameInv /\ Convert /\ UNCHANGED job => FrameInv'
<1> SUFFICES ASSUME FrameInv, Convert, UNCHANGED job PROVE FrameInv'
  OBVIOUS
<1>1. job' = job /\ given' = given /\ pgns' = pgns /\ wire = None /\ got = None
  BY DEF Convert
<1>2. Given'
  BY <1>1 DEF FrameInv, Given
<1>3. CASE job \in {"relay", "node"} /\ wire' = ToMessage(given) /\ UNCHANGED got
  BY <1>1, <1>2, <1>3 DEF FrameInv, OnTheWire, FrameSurvives
<1>4. CASE job = "socket" /\ SendError(given) = "none" /\ wire' = ToRaw(given)
           /\ UNCHANGED got
  BY <1>1, <1>2, <1>4 DEF FrameInv, OnTheWire, FrameSurvives
<1>5. CASE job = "socket" /\ SendError(given) # "none" /\ got' = Refused
           /\ UNCHANGED wire
  <2>1. ~(ValidFrame(given) /\ ~given.xl)
    BY <1>5 DEF SendError
  <2>2. FrameSurvives'
    BY <1>1, <1>5, <2>1 DEF FrameSurvives
  <2> QED
    BY <1>1, <1>2, <1>5, <2>2 DEF FrameInv, OnTheWire
<1>6. CASE job = "j1939" /\ ValidFrame(ToCan(given, Node))
           /\ wire' = ToCan(given, Node) /\ UNCHANGED got
  BY <1>1, <1>2, <1>6 DEF FrameInv, OnTheWire, FrameSurvives
<1>7. CASE job = "j1939" /\ ~ValidFrame(ToCan(given, Node)) /\ got' = Refused
           /\ UNCHANGED wire
  <2>1. given \in J1939Messages
    BY <1>7 DEF FrameInv, Given, Conversions
  <2>2. ~(given.len <= 8) /\ given.len \in Nat
    BY <1>7, <2>1, J1939RoundTrip DEF J1939Messages
  <2>3. given.len > 8
    BY <2>2
  <2>4. FrameSurvives'
    BY <1>1, <1>7, <2>3 DEF FrameSurvives
  <2> QED
    BY <1>1, <1>2, <1>7, <2>4 DEF FrameInv, OnTheWire
<1> QED
  BY <1>3, <1>4, <1>5, <1>6, <1>7 DEF Convert

LEMMA ConvertBackInv == FrameInv /\ ConvertBack /\ UNCHANGED job => FrameInv'
<1> SUFFICES ASSUME FrameInv, ConvertBack, UNCHANGED job PROVE FrameInv'
  OBVIOUS
<1>1. /\ job' = job /\ given' = given /\ pgns' = pgns /\ wire' = wire
      /\ wire # None
  BY DEF ConvertBack
<1>2. Given' /\ OnTheWire'
  BY <1>1 DEF FrameInv, Given, OnTheWire
<1>3. CASE job = "relay" /\ got' = FromMessage(wire)
  <2>1. given \in Frames /\ wire = ToMessage(given)
    BY <1>1, <1>3 DEF FrameInv, Given, OnTheWire, Conversions
  <2>2. got' = Clean(given)
    BY <1>3, <2>1, MessageRoundTrip
  <2>3. FrameSurvives'
    BY <1>1, <1>3, <2>2 DEF FrameSurvives, Clean
  <2> QED
    BY <1>2, <2>3 DEF FrameInv
<1>4. CASE job = "node" /\ got' = SentByNode(wire)
  <2>1. given \in Frames /\ wire = ToMessage(given)
    BY <1>1, <1>4 DEF FrameInv, Given, OnTheWire, Conversions
  <2>2. got' = IF ValidFrame(given) /\ ~given.xl THEN Clean(given) ELSE Told("Closed")
    BY <1>4, <2>1, NodeRoundTrip
  <2>3. FrameSurvives'
    BY <1>1, <1>4, <2>2 DEF FrameSurvives, Clean
  <2> QED
    BY <1>2, <2>3 DEF FrameInv
<1>5. CASE job = "socket" /\ got' = FromRaw(wire)
  <2>1. given \in Frames /\ wire = ToRaw(given) /\ SendError(given) = "none"
    BY <1>1, <1>5 DEF FrameInv, Given, OnTheWire, Conversions
  <2>2. ValidFrame(given) /\ ~given.xl
    BY <2>1 DEF SendError
  <2>3. got' = Clean(given)
    BY <1>5, <2>1, <2>2, SocketRoundTrip
  <2>4. FrameSurvives'
    BY <1>1, <1>5, <2>2, <2>3 DEF FrameSurvives, Clean
  <2> QED
    BY <1>2, <2>4 DEF FrameInv
<1>6. CASE job = "j1939"
           /\ got' = IF Skips(wire, pgns) THEN Skipped ELSE FromCan(wire)
  <2>1. given \in J1939Messages /\ wire = ToCan(given, Node) /\ ValidFrame(wire)
    BY <1>1, <1>6 DEF FrameInv, Given, OnTheWire, Conversions
  <2>2. /\ given.len <= 8 /\ wire.ext /\ FromCan(wire) = Kept(given)
        /\ DecodeId(wire.id).pgn = Kept(given).pgn
    BY <2>1, J1939RoundTrip
  <2>3. ~(given.len > 8)
    BY <2>1, <2>2 DEF J1939Messages
  <2>4. got' = IF pgns = {} \/ Kept(given).pgn \in pgns THEN Kept(given) ELSE Skipped
    BY <1>6, <2>2 DEF Skips
  <2>5. FrameSurvives'
    BY <1>1, <1>6, <2>3, <2>4 DEF FrameSurvives, Kept
  <2> QED
    BY <1>2, <2>5 DEF FrameInv
<1> QED
  BY <1>3, <1>4, <1>5, <1>6 DEF ConvertBack

LEMMA FrameNextInv == FrameInv /\ [Next]_vars => FrameInv'
<1> SUFFICES ASSUME FrameInv, [Next]_vars PROVE FrameInv'
  OBVIOUS
<1>1. CASE UNCHANGED <<job, frameVars>>
  BY <1>1 DEF FrameInv, Given, OnTheWire, FrameSurvives, frameVars, Clean, Kept
<1>2. CASE UNCHANGED job /\ FrameNext
  BY <1>2, ConvertInv, ConvertBackInv DEF FrameNext
<1> QED
  BY <1>1, <1>2 DEF Next, vars, frameVars

\* Every conversion and its way back: whatever the frame, the message, the list of
\* PGNs and the address of the node, what comes back is what a conversion promises.
THEOREM FramesSurvive == Spec => []FrameSurvives
<1>1. FrameInv => FrameSurvives
  BY DEF FrameInv
<1> QED
  BY <1>1, FrameInitInv, FrameNextInv, PTL DEF Spec

---------------------------------------------------------------------------
(* The parser of Dbc, for every text.                                      *)
(*                                                                         *)
(* The argument: the message that the parser holds is the block that the   *)
(* lines before the next one leave open, and the database describes the    *)
(* blocks that they have ended, each up to where the text really ends it.  *)

\* The lines that begin a message, among those read; the block that is still open,
\* if the last of them is; and the blocks that the database has.
Started == {b \in 1..(at - 1) : text[b].kind = "message"}

Ongoing == {b \in Started : \A j \in (b + 1)..(at - 1) : text[j].kind = "signal"}

Ended == IF parsed = "ok" THEN Started ELSE Started \ Ongoing

\* The signals q are those of the lines of the text t from b to e.
IsBlock(t, q, b, e) ==
  /\ DOMAIN q = 1..(e - b)
  /\ \A i \in 1..(e - b) : t[b + i].kind = "signal" /\ q[i] = t[b + i].signal

\* Line e is the last of its block.
EndsBlock(t, e) == e < Len(t) => t[e + 1].kind # "signal"

\* The latest of the blocks in B that define id.
IsLatest(t, b, id, B) ==
  b \in B /\ t[b].id = id /\ \A c \in B : t[c].id = id => c <= b

Describes(t, d, B) ==
  /\ DOMAIN d = {t[b].id : b \in B}
  /\ \A id \in DOMAIN d : \E b \in B :
       /\ IsLatest(t, b, id, B)
       /\ \E e \in b..Len(t) : IsBlock(t, d[id], b, e) /\ EndsBlock(t, e)

Numbers == {0} \union {text[k].id : k \in DOMAIN text}

Signals == {text[k].signal : k \in DOMAIN text}

DbcTypes ==
  /\ IsText(text)
  /\ at \in 1..(Len(text) + 1)
  /\ parsed \in {"reading", "ok", "error", "panic"}
  /\ parsed = "ok" => at = Len(text) + 1
  /\ current \in [id : Numbers, signals : Seq(Signals), some : BOOLEAN]

Stopped ==
  parsed \in {"error", "panic"} =>
    /\ at \in Wrong
    /\ parsed = "panic" <=> text[at].form = "crossed"

CurrentIsOngoing ==
  parsed = "reading" =>
    /\ ~current.some => Ongoing = {}
    /\ current.some => \E b \in Ongoing :
         current.id = text[b].id /\ IsBlock(text, current.signals, b, at - 1)

DbcInv ==
  /\ DbcTypes
  /\ \A k \in 1..(at - 1) : k \notin Wrong
  /\ Stopped
  /\ CurrentIsOngoing
  /\ Describes(text, db, Ended)

LEMMA DbcTextFacts ==
  ASSUME DbcTypes
  PROVE  /\ Len(text) \in Nat /\ DOMAIN text = 1..Len(text)
         /\ at \in Nat /\ at >= 1 /\ at <= Len(text) + 1
BY DEF DbcTypes, IsText

\* One block at most is open, the latest that has begun.
LEMMA OngoingIsLast ==
  ASSUME DbcTypes, NEW b \in Ongoing
  PROVE  /\ b \in Started /\ b \in Nat /\ b < at /\ b >= 1
         /\ \A c \in Started : c <= b
         /\ Ongoing = {b}
<1>0. at \in Nat /\ at >= 1
  BY DbcTextFacts
<1>1. b \in Started /\ b \in Nat /\ b < at /\ b >= 1
  BY <1>0 DEF Ongoing, Started
<1>2. ASSUME NEW c \in Started PROVE c <= b
  <2>1. CASE c > b
    <3>1. c \in (b + 1)..(at - 1)
      BY <1>0, <1>1, <2>1 DEF Started
    <3>2. text[c].kind = "signal" /\ text[c].kind = "message"
      BY <3>1 DEF Ongoing, Started
    <3> QED
      BY <3>2
  <2> QED
    BY <1>0, <1>1, <2>1 DEF Started
<1>3. ASSUME NEW c \in Ongoing PROVE c = b
  <2>1. c \in Started /\ c \in Nat
    BY <1>0 DEF Ongoing, Started
  <2>2. CASE c < b
    <3>1. b \in (c + 1)..(at - 1)
      BY <1>0, <1>1, <2>1, <2>2
    <3>2. text[b].kind = "signal" /\ text[b].kind = "message"
      BY <3>1 DEF Ongoing, Started
    <3> QED
      BY <3>2
  <2> QED
    BY <1>1, <1>2, <2>1, <2>2
<1> QED
  BY <1>1, <1>2, <1>3

\* What insert() leaves: the blocks that were described, and the open one.
LEMMA CommitFacts ==
  ASSUME DbcInv, parsed = "reading", EndsBlock(text, at - 1)
  PROVE  Describes(text, Commit(current, db), Started)
<1>0. /\ Len(text) \in Nat /\ DOMAIN text = 1..Len(text)
      /\ at \in Nat /\ at >= 1 /\ at <= Len(text) + 1
  BY DbcTextFacts DEF DbcInv
<1>1. Ended = Started \ Ongoing /\ Describes(text, db, Ended)
  BY DEF DbcInv, Ended
<1>2. CASE ~current.some
  <2>1. Commit(current, db) = db /\ Ended = Started
    BY <1>1, <1>2 DEF Commit, DbcInv, CurrentIsOngoing
  <2> QED
    BY <1>1, <2>1
<1>3. CASE current.some
  <2> DEFINE m == current.id  q == current.signals  d == Commit(current, db)
  <2>1. PICK b \in Ongoing : m = text[b].id /\ IsBlock(text, q, b, at - 1)
    BY <1>3 DEF DbcInv, CurrentIsOngoing
  <2>2. /\ b \in Started /\ b \in Nat /\ b < at /\ b >= 1
        /\ \A c \in Started : c <= b
        /\ Ongoing = {b}
    BY <2>1, OngoingIsLast DEF DbcInv
  <2>3. Started = Ended \union {b} /\ b \notin Ended
    BY <1>1, <2>2
  <2>4. d = [i \in DOMAIN db \union {m} |-> IF i = m THEN q ELSE db[i]]
    BY <1>3 DEF Commit
  <2>5. DOMAIN db = {text[c].id : c \in Ended}
    BY <1>1 DEF Describes
  <2>6. DOMAIN d = DOMAIN db \union {m} /\ d[m] = q
        /\ \A id \in DOMAIN db : id # m => d[id] = db[id]
    BY <2>4
  <2> HIDE DEF d, m, q
  <2>7. DOMAIN d = {text[c].id : c \in Started}
    BY <2>1, <2>3, <2>5, <2>6
  <2>8. IsLatest(text, b, m, Started)
    BY <2>1, <2>2 DEF IsLatest
  <2>9. at - 1 \in b..Len(text)
    BY <1>0, <2>2
  <2>10. ASSUME NEW id \in DOMAIN d
         PROVE  \E c \in Started :
                  /\ IsLatest(text, c, id, Started)
                  /\ \E e \in c..Len(text) : IsBlock(text, d[id], c, e) /\ EndsBlock(text, e)
    <3>1. CASE id = m
      BY <2>1, <2>2, <2>6, <2>8, <2>9, <3>1
    <3>2. CASE id # m
      <4>1. id \in DOMAIN db /\ d[id] = db[id]
        BY <2>6, <3>2
      <4>2. PICK c \in Ended :
              /\ IsLatest(text, c, id, Ended)
              /\ \E e \in c..Len(text) : IsBlock(text, db[id], c, e) /\ EndsBlock(text, e)
        BY <1>1, <4>1 DEF Describes
      <4>3. IsLatest(text, c, id, Started)
        BY <2>1, <2>3, <3>2, <4>2 DEF IsLatest
      <4>4. c \in Started
        BY <2>3
      <4> QED
        BY <4>1, <4>2, <4>3, <4>4
    <3> QED
      BY <3>1, <3>2
  <2> QED
    BY <2>7, <2>10 DEF Describes, d
<1> QED
  BY <1>2, <1>3

\* A line that is no signal, or the end of the text, ends the block before it.
LEMMA EndOfBlock ==
  ASSUME DbcTypes, at <= Len(text) => text[at].kind # "signal"
  PROVE  EndsBlock(text, at - 1)
BY DbcTextFacts DEF EndsBlock

\* The block that is open takes the next signal.
LEMMA SignalJoins ==
  ASSUME DbcTypes, NEW b \in Ongoing, NEW q \in Seq(Signals),
         IsBlock(text, q, b, at - 1), text[at].kind = "signal"
  PROVE  IsBlock(text, Append(q, text[at].signal), b, at)
<1>0. at \in Nat /\ at >= 1 /\ b \in Nat /\ b < at
  BY DbcTextFacts, OngoingIsLast
<1> DEFINE n == (at - 1) - b  r == Append(q, text[at].signal)
<1>1. n \in Nat /\ at - b = n + 1 /\ b + (n + 1) = at
  BY <1>0
<1>2. DOMAIN q = 1..n
  BY DEF IsBlock
<1>3. Len(q) = n
  BY <1>1, <1>2
<1>4. DOMAIN r = 1..(n + 1) /\ r[n + 1] = text[at].signal
      /\ \A i \in 1..n : r[i] = q[i]
  BY <1>1, <1>3
<1>5. \A i \in 1..n : text[b + i].kind = "signal" /\ q[i] = text[b + i].signal
  BY DEF IsBlock
<1> HIDE DEF r, n
<1>6. ASSUME NEW i \in 1..(n + 1)
      PROVE  text[b + i].kind = "signal" /\ r[i] = text[b + i].signal
  <2>1. CASE i = n + 1
    BY <1>1, <1>4, <2>1
  <2>2. CASE i \in 1..n
    BY <1>4, <1>5, <2>2
  <2> QED
    BY <1>1, <2>1, <2>2
<1> QED
  BY <1>1, <1>4, <1>6 DEF IsBlock, r

\* A line that is in its place does not stop the parser.
LEMMA NotWrong ==
  ASSUME DbcInv, parsed = "reading", at <= Len(text),
         \/ text[at].kind \notin {"message", "signal"}
         \/ text[at].form = "good"
         \/ text[at].kind = "signal" /\ ~current.some
  PROVE  at \notin Wrong
<1>0. /\ DOMAIN text = 1..Len(text) /\ Len(text) \in Nat
      /\ at \in Nat /\ at >= 1
  BY DbcTextFacts DEF DbcInv
<1> SUFFICES ASSUME at \in Wrong PROVE FALSE
  OBVIOUS
<1>1. /\ text[at].kind = "signal" /\ ~current.some
      /\ \E b \in DOMAIN text : BelongsTo(at, b)
  BY DEF Wrong
<1>2. PICK b \in DOMAIN text : BelongsTo(at, b)
  BY <1>1
<1>3. b \in Ongoing
  BY <1>0, <1>2 DEF BelongsTo, Ongoing, Started
<1> QED
  BY <1>1, <1>3 DEF DbcInv, CurrentIsOngoing

LEMMA DbcInitInv == DbcInit => DbcInv
<1> SUFFICES ASSUME DbcInit PROVE DbcInv
  OBVIOUS
<1> USE DEF DbcInit
<1>1. IsText(text) /\ Len(text) \in Nat
  BY DbcAssumption DEF IsText
<1>2. DbcTypes
  <2>1. current \in [id : Numbers, signals : Seq(Signals), some : BOOLEAN]
    BY DEF NoMessage, Numbers
  <2> QED
    BY <1>1, <2>1 DEF DbcTypes
<1>3. Started = {} /\ Ongoing = {} /\ Ended = {}
  BY DEF Started, Ongoing, Ended
<1>4. Describes(text, db, Ended)
  BY <1>3 DEF Describes
<1>5. \A k \in 1..(at - 1) : k \notin Wrong
  OBVIOUS
<1> QED
  BY <1>2, <1>3, <1>4, <1>5 DEF DbcInv, Stopped, CurrentIsOngoing, NoMessage

\* The parser goes on to the next line, of which it knows that it is not wrong.
LEMMA NextLine ==
  ASSUME DbcInv, text' = text, at' = at + 1, parsed' = "reading", at <= Len(text),
         at \notin Wrong
  PROVE  /\ \A k \in 1..(at' - 1) : k \notin Wrong'
         /\ Stopped'
         /\ at' \in 1..(Len(text) + 1)
<1>0. /\ Len(text) \in Nat /\ at \in Nat /\ at >= 1
  BY DbcTextFacts DEF DbcInv
<1>1. Wrong' = Wrong
  BY DEF Wrong, BelongsTo
<1>2. \A k \in 1..(at' - 1) : k \in 1..(at - 1) \/ k = at
  BY <1>0
<1> QED
  BY <1>0, <1>1, <1>2 DEF DbcInv, Stopped

\* A line that is no signal: what was begun has ended.
LEMMA StartedNext ==
  ASSUME DbcTypes, text' = text, at' = at + 1, parsed' = "reading",
         at <= Len(text), text[at].kind # "signal"
  PROVE  /\ Ended' = Started
         /\ Ongoing' = IF text[at].kind = "message" THEN {at} ELSE {}
<1>0. at \in Nat /\ at >= 1 /\ Len(text) \in Nat
  BY DbcTextFacts
<1>1. Started' = IF text[at].kind = "message" THEN Started \union {at} ELSE Started
  BY <1>0 DEF Started
<1>2. ASSUME NEW b \in Started PROVE b \notin Ongoing'
  <2>1. b \in Nat /\ b < at /\ at \in (b + 1)..(at' - 1)
    BY <1>0 DEF Started
  <2> QED
    BY <2>1 DEF Ongoing
<1>3. text[at].kind = "message" => at \in Ongoing'
  BY <1>0, <1>1 DEF Ongoing
<1>4. at \notin Started
  BY <1>0 DEF Started
<1>5. Ongoing' \subseteq Started'
  BY DEF Ongoing
<1>6. Ended' = Started' \ Ongoing'
  BY DEF Ended
<1>7. CASE text[at].kind = "message"
  <2>1. Ongoing' = {at}
    BY <1>1, <1>2, <1>3, <1>5, <1>7
  <2>2. Ended' = Started
    BY <1>1, <1>4, <1>6, <1>7, <2>1
  <2> QED
    BY <1>7, <2>1, <2>2
<1>8. CASE text[at].kind # "message"
  <2>1. Ongoing' = {}
    BY <1>1, <1>2, <1>5, <1>8
  <2>2. Ended' = Started
    BY <1>1, <1>6, <1>8, <2>1
  <2> QED
    BY <1>8, <2>1, <2>2
<1> QED
  BY <1>7, <1>8

\* A signal line leaves what has begun and what is open.
LEMMA StartedStays ==
  ASSUME DbcTypes, text' = text, at' = at + 1, parsed' = "reading",
         parsed = "reading", at <= Len(text), text[at].kind = "signal"
  PROVE  Started' = Started /\ Ongoing' = Ongoing /\ Ended' = Ended
<1>0. at \in Nat /\ at >= 1 /\ Len(text) \in Nat
  BY DbcTextFacts
<1>1. Started' = Started
  <2>1. \A k \in 1..(at' - 1) : k \in 1..(at - 1) \/ k = at
    BY <1>0
  <2>2. \A k \in 1..(at - 1) : k \in 1..(at' - 1)
    BY <1>0
  <2>3. text[at].kind # "message"
    OBVIOUS
  <2> QED
    BY <2>1, <2>2, <2>3 DEF Started
<1>2. ASSUME NEW b \in Started
      PROVE  b \in Ongoing' <=> b \in Ongoing
  <2>1. b \in Nat /\ b < at
    BY <1>0 DEF Started
  <2>2. \A k \in (b + 1)..(at' - 1) : k \in (b + 1)..(at - 1) \/ k = at
    BY <1>0, <2>1
  <2>3. \A k \in (b + 1)..(at - 1) : k \in (b + 1)..(at' - 1)
    BY <1>0, <2>1
  <2> QED
    BY <1>1, <2>2, <2>3 DEF Ongoing
<1>3. Ongoing' \subseteq Started' /\ Ongoing \subseteq Started
  BY DEF Ongoing
<1>4. Ongoing' = Ongoing
  BY <1>1, <1>2, <1>3
<1> QED
  BY <1>1, <1>4 DEF Ended

LEMMA OtherLineInv == DbcInv /\ OtherLine => DbcInv'
<1> SUFFICES ASSUME DbcInv, OtherLine PROVE DbcInv'
  OBVIOUS
<1>1. /\ parsed = "reading" /\ at <= Len(text) /\ text[at].kind \in {"blank", "other"}
      /\ db' = Commit(current, db) /\ current' = NoMessage
      /\ at' = at + 1 /\ text' = text /\ parsed' = "reading"
  BY DEF OtherLine, Reading
<1>2. at \notin Wrong
  BY <1>1, NotWrong
<1>3. /\ \A k \in 1..(at' - 1) : k \notin Wrong'
      /\ Stopped' /\ at' \in 1..(Len(text) + 1)
  BY <1>1, <1>2, NextLine
<1>4. Ended' = Started /\ Ongoing' = {}
  BY <1>1, StartedNext DEF DbcInv
<1>5. Describes(text, db', Ended')
  BY <1>1, <1>4, EndOfBlock, CommitFacts DEF DbcInv
<1>6. Describes(text, db, Ended)'
  BY <1>1, <1>5
<1>7. DbcTypes'
  <2>1. Numbers' = Numbers /\ Signals' = Signals
    BY <1>1 DEF Numbers, Signals
  <2>2. current' \in [id : Numbers, signals : Seq(Signals), some : BOOLEAN]
    BY <1>1 DEF NoMessage, Numbers
  <2> QED
    BY <1>1, <1>3, <2>1, <2>2 DEF DbcInv, DbcTypes
<1>8. CurrentIsOngoing'
  BY <1>1, <1>4 DEF CurrentIsOngoing, NoMessage
<1> QED
  BY <1>3, <1>6, <1>7, <1>8 DEF DbcInv

LEMMA MessageLineInv == DbcInv /\ MessageLine => DbcInv'
<1> SUFFICES ASSUME DbcInv, MessageLine PROVE DbcInv'
  OBVIOUS
<1>0. /\ DOMAIN text = 1..Len(text) /\ Len(text) \in Nat /\ at \in Nat /\ at >= 1
      /\ DbcTypes /\ IsText(text)
  BY DbcTextFacts DEF DbcInv, DbcTypes
<1>1. /\ parsed = "reading" /\ at <= Len(text) /\ text[at].kind = "message"
      /\ text' = text /\ at \in DOMAIN text
  BY <1>0 DEF MessageLine, Reading
<1>2. CASE text[at].form = "good"
  <2>1. /\ db' = Commit(current, db)
        /\ current' = [id |-> text[at].id, signals |-> <<>>, some |-> TRUE]
        /\ at' = at + 1 /\ parsed' = "reading"
    BY <1>1, <1>2 DEF MessageLine, ParseMessageLine
  <2>2. at \notin Wrong
    BY <1>1, <1>2, NotWrong
  <2>3. /\ \A k \in 1..(at' - 1) : k \notin Wrong'
        /\ Stopped' /\ at' \in 1..(Len(text) + 1)
    BY <1>1, <2>1, <2>2, NextLine
  <2>4. Ended' = Started /\ Ongoing' = {at}
    BY <1>0, <1>1, <2>1, StartedNext
  <2>5. Describes(text, db', Ended')
    BY <1>0, <1>1, <2>1, <2>4, EndOfBlock, CommitFacts
  <2>6. Describes(text, db, Ended)'
    BY <1>1, <2>5
  <2>7. DbcTypes'
    <3>1. Numbers' = Numbers /\ Signals' = Signals
      BY <1>1 DEF Numbers, Signals
    <3>2. current' \in [id : Numbers, signals : Seq(Signals), some : BOOLEAN]
      BY <1>1, <2>1 DEF Numbers
    <3> QED
      BY <1>0, <1>1, <2>1, <2>3, <3>1, <3>2 DEF DbcTypes
  <2>8. CurrentIsOngoing'
    <3>1. IsBlock(text, current'.signals, at, at' - 1)
      BY <1>0, <2>1 DEF IsBlock
    <3>2. current'.id = text'[at].id /\ current'.some
      BY <1>1, <2>1
    <3>3. IsBlock(text', current'.signals, at, at' - 1)
      BY <1>1, <3>1
    <3>4. PICK b : b = at
      OBVIOUS
    <3>5. b \in Ongoing' /\ current'.id = text'[b].id
          /\ IsBlock(text', current'.signals, b, at' - 1)
      BY <2>4, <3>2, <3>3, <3>4
    <3> QED
      BY <3>2, <3>5 DEF CurrentIsOngoing
  <2> QED
    BY <2>3, <2>6, <2>7, <2>8 DEF DbcInv
<1>3. CASE text[at].form # "good"
  <2>1. parsed' = "error" /\ UNCHANGED <<at, db, current>>
    BY <1>1, <1>3 DEF MessageLine, ParseMessageLine
  <2>2. at \in Wrong
    BY <1>1, <1>3 DEF Wrong
  <2>3. text[at].form # "crossed"
    BY <1>0, <1>1 DEF IsText
  <2>4. Wrong' = Wrong
    BY <1>1 DEF Wrong, BelongsTo
  <2>5. Ended' = Ended
    BY <1>1, <2>1 DEF Ended, Started, Ongoing
  <2>6. DbcTypes'
    BY <1>0, <1>1, <2>1 DEF DbcTypes, Numbers, Signals
  <2>7. Describes(text, db, Ended)'
    BY <1>1, <2>1, <2>5 DEF DbcInv
  <2>8. Stopped' /\ CurrentIsOngoing'
    BY <1>1, <2>1, <2>2, <2>3, <2>4 DEF Stopped, CurrentIsOngoing
  <2>9. \A k \in 1..(at' - 1) : k \notin Wrong'
    BY <2>1, <2>4 DEF DbcInv
  <2> QED
    BY <2>6, <2>7, <2>8, <2>9 DEF DbcInv
<1> QED
  BY <1>2, <1>3

LEMMA SignalLineInv == DbcInv /\ SignalLine => DbcInv'
<1> SUFFICES ASSUME DbcInv, SignalLine PROVE DbcInv'
  OBVIOUS
<1>0. /\ DOMAIN text = 1..Len(text) /\ Len(text) \in Nat /\ at \in Nat /\ at >= 1
      /\ DbcTypes /\ IsText(text)
      /\ current \in [id : Numbers, signals : Seq(Signals), some : BOOLEAN]
  BY DbcTextFacts DEF DbcInv, DbcTypes
<1>1. /\ parsed = "reading" /\ at <= Len(text) /\ text[at].kind = "signal"
      /\ text' = text /\ at' = at + 1 /\ db' = db /\ parsed' = "reading"
      /\ at \in DOMAIN text
  BY <1>0 DEF SignalLine, Reading
<1>2. /\ current.some => text[at].form = "good"
      /\ current' = IF current.some
                    THEN [current EXCEPT !.signals = Append(@, text[at].signal)]
                    ELSE current
  <2>1. text[at].form \in {"good", "bad", "crossed"}
    BY <1>0, <1>1 DEF IsText
  <2> QED
    BY <2>1 DEF SignalLine, ParseSignalLine
<1>3. at \notin Wrong
  BY <1>1, <1>2, NotWrong
<1>4. /\ \A k \in 1..(at' - 1) : k \notin Wrong'
      /\ Stopped' /\ at' \in 1..(Len(text) + 1)
  BY <1>1, <1>3, NextLine
<1>5. Ongoing' = Ongoing /\ Ended' = Ended
  BY <1>0, <1>1, StartedStays
<1>6. Describes(text, db, Ended)'
  BY <1>1, <1>5 DEF DbcInv
<1>7. current' \in [id : Numbers, signals : Seq(Signals), some : BOOLEAN]
  <2>1. text[at].signal \in Signals
    BY <1>1 DEF Signals
  <2>2. Append(current.signals, text[at].signal) \in Seq(Signals)
    BY <1>0, <2>1
  <2> QED
    BY <1>0, <1>2, <2>2
<1>8. DbcTypes'
  <2>1. Numbers' = Numbers /\ Signals' = Signals
    BY <1>1 DEF Numbers, Signals
  <2> QED
    BY <1>0, <1>1, <1>4, <1>7, <2>1 DEF DbcTypes
<1>9. CASE ~current.some
  <2>1. CurrentIsOngoing'
    BY <1>1, <1>2, <1>5, <1>9 DEF DbcInv, CurrentIsOngoing
  <2> QED
    BY <1>4, <1>6, <1>8, <2>1 DEF DbcInv
<1>10. CASE current.some
  <2>1. PICK b \in Ongoing :
          current.id = text[b].id /\ IsBlock(text, current.signals, b, at - 1)
    BY <1>1, <1>10 DEF DbcInv, CurrentIsOngoing
  <2> DEFINE q == Append(current.signals, text[at].signal)
  <2>2. current.signals \in Seq(Signals)
    BY <1>0
  <2>3. IsBlock(text, q, b, at)
    BY <1>0, <1>1, <2>1, <2>2, SignalJoins
  <2>4. current'.signals = q /\ current'.id = current.id /\ current'.some
    BY <1>0, <1>2, <1>10
  <2> HIDE DEF q
  <2>5. at' - 1 = at
    BY <1>0, <1>1
  <2>6. IsBlock(text', current'.signals, b, at' - 1)
    BY <1>1, <2>3, <2>4, <2>5
  <2>7. b \in Ongoing' /\ current'.id = text'[b].id
    BY <1>1, <1>5, <2>1, <2>4
  <2>8. CurrentIsOngoing'
    BY <2>4, <2>6, <2>7 DEF CurrentIsOngoing
  <2> QED
    BY <1>4, <1>6, <1>8, <2>8 DEF DbcInv
<1> QED
  BY <1>9, <1>10

LEMMA SignalLineFailsInv == DbcInv /\ SignalLineFails => DbcInv'
<1> SUFFICES ASSUME DbcInv, SignalLineFails PROVE DbcInv'
  OBVIOUS
<1>0. /\ DOMAIN text = 1..Len(text) /\ Len(text) \in Nat /\ at \in Nat /\ at >= 1
      /\ DbcTypes /\ IsText(text)
  BY DbcTextFacts DEF DbcInv, DbcTypes
<1>1. /\ parsed = "reading" /\ at <= Len(text) /\ text[at].kind = "signal"
      /\ current.some /\ ParseSignalLine(text[at]) # "ok"
      /\ parsed' = ParseSignalLine(text[at])
      /\ UNCHANGED <<text, at, current, db>> /\ at \in DOMAIN text
  BY <1>0 DEF SignalLineFails, Reading
<1>2. /\ text[at].form \in {"bad", "crossed"}
      /\ parsed' = IF text[at].form = "crossed" THEN "panic" ELSE "error"
  <2>1. text[at].form \in {"good", "bad", "crossed"}
    BY <1>0, <1>1 DEF IsText
  <2> QED
    BY <1>1, <2>1 DEF ParseSignalLine
<1>3. at \in Wrong
  <2>1. PICK b \in Ongoing : TRUE
    BY <1>1 DEF DbcInv, CurrentIsOngoing
  <2>2. b \in DOMAIN text /\ BelongsTo(at, b)
    <3>1. b \in Nat /\ b >= 1 /\ b < at /\ text[b].kind = "message"
      BY <1>0, OngoingIsLast DEF Started
    <3>2. \A j \in (b + 1)..at : j \in (b + 1)..(at - 1) \/ j = at
      BY <1>0, <3>1
    <3>3. \A j \in (b + 1)..at : text[j].kind = "signal"
      BY <1>1, <3>2 DEF Ongoing
    <3> QED
      BY <1>0, <1>1, <3>1, <3>3 DEF BelongsTo
  <2> QED
    BY <1>1, <1>2, <2>2 DEF Wrong
<1>4. Wrong' = Wrong /\ Ended' = Ended
  BY <1>1, <1>2 DEF Wrong, BelongsTo, Ended, Started, Ongoing
<1>5. DbcTypes'
  BY <1>0, <1>1, <1>2 DEF DbcTypes, Numbers, Signals
<1>6. Describes(text, db, Ended)'
  BY <1>1, <1>4 DEF DbcInv
<1>7. Stopped' /\ CurrentIsOngoing'
  BY <1>1, <1>2, <1>3, <1>4 DEF Stopped, CurrentIsOngoing
<1>8. \A k \in 1..(at' - 1) : k \notin Wrong'
  BY <1>1, <1>4 DEF DbcInv
<1> QED
  BY <1>5, <1>6, <1>7, <1>8 DEF DbcInv

LEMMA EndOfTextInv == DbcInv /\ EndOfText => DbcInv'
<1> SUFFICES ASSUME DbcInv, EndOfText PROVE DbcInv'
  OBVIOUS
<1>0. Len(text) \in Nat /\ at \in Nat /\ at = Len(text) + 1 /\ DbcTypes
  BY DbcTextFacts DEF DbcInv, EndOfText
<1>1. /\ parsed = "reading" /\ db' = Commit(current, db) /\ current' = NoMessage
      /\ parsed' = "ok" /\ UNCHANGED <<text, at>>
  BY DEF EndOfText
<1>2. Ended' = Started /\ Wrong' = Wrong
  BY <1>1 DEF Ended, Started, Wrong, BelongsTo
<1>3. Describes(text, db', Ended')
  BY <1>0, <1>1, <1>2, EndOfBlock, CommitFacts
<1>4. Describes(text, db, Ended)'
  BY <1>1, <1>3
<1>5. DbcTypes'
  <2>1. Numbers' = Numbers /\ Signals' = Signals
    BY <1>1 DEF Numbers, Signals
  <2>2. current' \in [id : Numbers, signals : Seq(Signals), some : BOOLEAN]
    BY <1>1 DEF NoMessage, Numbers
  <2> QED
    BY <1>0, <1>1, <2>1, <2>2 DEF DbcTypes
<1>6. Stopped' /\ CurrentIsOngoing'
  BY <1>1 DEF Stopped, CurrentIsOngoing
<1>7. \A k \in 1..(at' - 1) : k \notin Wrong'
  BY <1>1, <1>2 DEF DbcInv
<1> QED
  BY <1>4, <1>5, <1>6, <1>7 DEF DbcInv

\* Nothing of what the parser has is lost.
LEMMA DbcStays ==
  ASSUME DbcInv, UNCHANGED <<text, at, current, db, parsed>>
  PROVE  DbcInv'
<1>1. Wrong' = Wrong /\ Ended' = Ended /\ Ongoing' = Ongoing
  BY DEF Wrong, BelongsTo, Ended, Started, Ongoing
<1>2. DbcTypes'
  BY DEF DbcInv, DbcTypes, Numbers, Signals
<1>3. Describes(text, db, Ended)'
  BY <1>1 DEF DbcInv
<1>4. Stopped' /\ CurrentIsOngoing'
  BY <1>1 DEF DbcInv, Stopped, CurrentIsOngoing
<1>5. \A k \in 1..(at' - 1) : k \notin Wrong'
  BY <1>1 DEF DbcInv
<1> QED
  BY <1>2, <1>3, <1>4, <1>5 DEF DbcInv

LEMMA DbcNextInv == DbcInv /\ [DbcNext]_dbcVars => DbcInv'
<1>1. ASSUME DbcInv, NEW id \in Ids, NEW data \in Payloads, Decode(id, data)
      PROVE  DbcInv'
  BY <1>1, DbcStays DEF Decode
<1>2. DbcInv /\ UNCHANGED dbcVars => DbcInv'
  BY DbcStays DEF dbcVars
<1> QED
  BY <1>1, <1>2, OtherLineInv, MessageLineInv, SignalLineInv, SignalLineFailsInv,
     EndOfTextInv DEF DbcNext

\* The line that the database's block of an id begins with is the last that
\* defines it.
LEMMA DefinitionIsLatest ==
  ASSUME DbcTypes, at = Len(text) + 1, NEW id, NEW b,
         IsLatest(text, b, id, Started)
  PROVE  Definition(id) = b /\ b \in DOMAIN text /\ text[b].kind = "message"
<1>0. DOMAIN text = 1..Len(text) /\ Len(text) \in Nat /\ at - 1 = Len(text)
  BY DbcTextFacts
<1> DEFINE D == {c \in DOMAIN text : text[c].kind = "message" /\ text[c].id = id}
<1>1. Started = {c \in DOMAIN text : text[c].kind = "message"}
  BY <1>0 DEF Started
<1>2. b \in D /\ \A c \in D : c <= b
  BY <1>1 DEF IsLatest
<1>3. \A c \in D : c \in Nat
  BY <1>0
<1>4. Definition(id) = Max(D)
  BY DEF Definition
<1> HIDE DEF D
<1>5. Max(D) = b
  <2>1. b \in D /\ \A c \in D : b >= c
    BY <1>2, <1>3
  <2>2. Max(D) \in D /\ \A c \in D : Max(D) >= c
    BY <2>1 DEF Max
  <2> QED
    BY <1>3, <2>1, <2>2
<1> QED
  BY <1>2, <1>4, <1>5 DEF D

LEMMA DbcInvMeans == DbcInv => BlocksParsed
<1> SUFFICES ASSUME DbcInv PROVE BlocksParsed
  OBVIOUS
<1>0. /\ DOMAIN text = 1..Len(text) /\ Len(text) \in Nat /\ at \in Nat /\ at >= 1
      /\ DbcTypes
  BY DbcTextFacts DEF DbcInv
<1>1. ASSUME parsed \in {"error", "panic"}
      PROVE  /\ at \in Wrong /\ \A k \in Wrong : at <= k
             /\ parsed = "panic" <=> text[at].form = "crossed"
  <2>1. \A k \in Wrong : k \in Nat /\ k >= 1
    BY <1>0 DEF Wrong
  <2>2. ASSUME NEW k \in Wrong PROVE at <= k
    <3>1. k \notin 1..(at - 1)
      BY <2>2 DEF DbcInv
    <3> QED
      BY <1>0, <2>1, <3>1
  <2>3. at \in Wrong /\ (parsed = "panic" <=> text[at].form = "crossed")
    BY <1>1 DEF DbcInv, Stopped
  <2> QED
    BY <2>2, <2>3
<1>2. ASSUME parsed = "ok"
      PROVE  /\ Wrong = {}
             /\ DOMAIN db = {text[b].id : b \in {b \in DOMAIN text :
                                                 text[b].kind = "message"}}
             /\ \A id \in DOMAIN db :
                  /\ \A i \in DOMAIN db[id] :
                       db[id][i] = text[Definition(id) + i].signal
                  /\ {Definition(id) + i : i \in DOMAIN db[id]}
                       = {k \in DOMAIN text : BelongsTo(k, Definition(id))}
  <2>1. at = Len(text) + 1 /\ at - 1 = Len(text) /\ Ended = Started
    BY <1>0, <1>2 DEF DbcTypes, Ended
  <2>2. Wrong = {}
    <3>1. Wrong \subseteq 1..(at - 1)
      BY <1>0, <2>1 DEF Wrong
    <3> QED
      BY <3>1 DEF DbcInv
  <2>3. Started = {b \in DOMAIN text : text[b].kind = "message"}
    BY <1>0, <2>1 DEF Started
  <2>4. Describes(text, db, Started)
    BY <2>1 DEF DbcInv
  <2>5. ASSUME NEW id \in DOMAIN db
        PROVE  /\ \A i \in DOMAIN db[id] :
                    db[id][i] = text[Definition(id) + i].signal
               /\ {Definition(id) + i : i \in DOMAIN db[id]}
                    = {k \in DOMAIN text : BelongsTo(k, Definition(id))}
    <3>1. PICK b \in Started :
            /\ IsLatest(text, b, id, Started)
            /\ \E e \in b..Len(text) :
                 IsBlock(text, db[id], b, e) /\ EndsBlock(text, e)
      BY <2>4 DEF Describes
    <3>2. PICK e \in b..Len(text) :
            IsBlock(text, db[id], b, e) /\ EndsBlock(text, e)
      BY <3>1
    <3>3. Definition(id) = b /\ b \in 1..Len(text) /\ text[b].kind = "message"
      BY <1>0, <2>1, <3>1, DefinitionIsLatest
    <3>4. b \in Nat /\ e \in Nat /\ b <= e /\ e <= Len(text) /\ b >= 1
      BY <1>0, <3>3
    <3> DEFINE q == db[id]
    <3>5. /\ DOMAIN q = 1..(e - b)
          /\ \A i \in 1..(e - b) : text[b + i].kind = "signal"
                                   /\ q[i] = text[b + i].signal
      BY <3>2 DEF IsBlock
    <3> HIDE DEF q
    <3>6. {b + i : i \in DOMAIN q} = (b + 1)..e
      <4>1. ASSUME NEW k \in (b + 1)..e PROVE \E i \in 1..(e - b) : k = b + i
        <5>1. k - b \in 1..(e - b) /\ k = b + (k - b)
          BY <3>4
        <5> QED
          BY <5>1
      <4>2. \A i \in 1..(e - b) : b + i \in (b + 1)..e
        BY <3>4
      <4> QED
        BY <3>5, <4>1, <4>2
    <3>7. \A j \in (b + 1)..e : text[j].kind = "signal"
      <4>1. TAKE j \in (b + 1)..e
      <4>2. j - b \in 1..(e - b) /\ b + (j - b) = j
        BY <3>4
      <4>3. text[b + (j - b)].kind = "signal"
        BY <3>5, <4>2
      <4> QED
        BY <4>2, <4>3
    <3>8. ASSUME NEW k \in DOMAIN text PROVE BelongsTo(k, b) <=> k \in (b + 1)..e
      <4>1. k \in Nat /\ k <= Len(text)
        BY <1>0
      <4>2. CASE k \in (b + 1)..e
        <5>1. b < k /\ \A j \in (b + 1)..k : j \in (b + 1)..e
          BY <3>4, <4>1, <4>2
        <5> QED
          BY <3>3, <3>7, <4>2, <5>1 DEF BelongsTo
      <4>3. CASE k > e
        <5>1. e < Len(text) /\ e + 1 \in (b + 1)..k
          BY <3>4, <4>1, <4>3
        <5>2. text[e + 1].kind # "signal"
          BY <3>2, <5>1 DEF EndsBlock
        <5>3. ~BelongsTo(k, b)
          BY <5>1, <5>2 DEF BelongsTo
        <5> QED
          BY <3>4, <4>1, <4>3, <5>3
      <4>4. CASE k <= b
        <5>1. ~(b < k)
          BY <3>4, <4>1, <4>4
        <5> QED
          BY <3>4, <4>1, <4>4, <5>1 DEF BelongsTo
      <4> QED
        BY <3>4, <4>1, <4>2, <4>3, <4>4
    <3>9. \A k \in (b + 1)..e : k \in DOMAIN text
      BY <1>0, <3>4
    <3>10. {k \in DOMAIN text : BelongsTo(k, b)} = (b + 1)..e
      BY <3>8, <3>9
    <3> QED
      BY <3>3, <3>5, <3>6, <3>10 DEF q
  <2> QED
    BY <2>2, <2>3, <2>4, <2>5 DEF Describes
<1> QED
  BY <1>1, <1>2 DEF BlocksParsed

\* The part of SignalsDecoded that is about parse(): whatever lines a text has and
\* in whatever order, a message gets the signals of its block, the last definition
\* of an id wins, and the first line that does not parse is the one that stops it.
THEOREM DbcParsed == DbcSpec => []BlocksParsed
BY DbcInitInv, DbcNextInv, DbcInvMeans, PTL DEF DbcSpec

---------------------------------------------------------------------------
(* The decoder of Dbc, for every signal and every frame.                   *)
(*                                                                         *)
(* The argument: a number is the sum of the powers of two at its bits, and *)
(* the bytes of the frame, put together, have at each place the bit that   *)
(* the loop of extract_raw looks at there.  A remainder by a power of two  *)
(* then cuts the field out of it.                                          *)

---------------------------------------------------------------------------
(* Induction.                                                              *)

\* A set of naturals has a least element.
LEMMA LeastNatural ==
  ASSUME NEW S \in SUBSET Nat, S # {}
  PROVE  \E x \in S : \A y \in S : x <= y
<1>1. IsWellFoundedOn(OpToRel(<,Nat), Nat)
  BY NatLessThanWellFounded
<1>2. \E x \in S : \A y \in S : ~ (<<y, x>> \in OpToRel(<,Nat))
  BY <1>1, WFMin
<1>3. ASSUME NEW x \in Nat, NEW y \in Nat, ~ (<<y, x>> \in OpToRel(<,Nat))
      PROVE x <= y
  BY <1>3 DEF OpToRel
<1> QED
  BY <1>2, <1>3

\* A set that has 0, and the successor of each number it has, has all of them.
LEMMA Induction ==
  ASSUME NEW S, 0 \in S, \A n \in Nat : n \in S => n + 1 \in S
  PROVE  \A n \in Nat : n \in S
<1> SUFFICES ASSUME Nat \ S # {} PROVE FALSE
  OBVIOUS
<1>1. PICK x \in Nat \ S : \A y \in Nat \ S : x <= y
  BY LeastNatural
<1>2. x # 0 /\ x - 1 \in Nat /\ x - 1 \in S /\ x = (x - 1) + 1
  BY <1>1
<1> QED
  BY <1>1, <1>2

---------------------------------------------------------------------------
(* Sums over a finite set, as the fold of the community modules has them.  *)

\* The element that the fold takes next.
Pick(s) == CHOOSE x \in s : TRUE

\* What it has for a subset of S is the sum of the w of its elements.
Sums(it, S, w) ==
  it = [s \in SUBSET S |-> IF s = {} THEN 0 ELSE w[Pick(s)] + it[s \ {Pick(s)}]]

\* Taking it makes the set smaller.
LEMMA PickFacts ==
  ASSUME NEW S, IsFiniteSet(S), S # {}
  PROVE  /\ Pick(S) \in S /\ IsFiniteSet(S \ {Pick(S)})
         /\ Cardinality(S \ {Pick(S)}) = Cardinality(S) - 1
         /\ Cardinality(S) \in Nat \ {0}
<1>1. Pick(S) \in S
  BY DEF Pick
<1>2. Cardinality(S) \in Nat /\ Cardinality(S) # 0
  BY FS_CardinalityType, FS_EmptySet
<1> QED
  BY <1>1, <1>2, FS_RemoveElement

\* There is such a sum, by induction over the size of the subsets.
LEMMA SumsExist ==
  ASSUME NEW S, IsFiniteSet(S), NEW w \in [S -> Nat]
  PROVE  \E it \in [SUBSET S -> Nat] : Sums(it, S, w)
<1> DEFINE Small(n) == {s \in SUBSET S : Cardinality(s) <= n}
           After(it, s) == IF s = {} THEN 0 ELSE w[Pick(s)] + it[s \ {Pick(s)}]
           Done == {n \in Nat : \E it \in [Small(n) -> Nat] :
                                  \A s \in Small(n) : it[s] = After(it, s)}
<1>0. \A s \in SUBSET S : IsFiniteSet(s) /\ Cardinality(s) \in Nat
  BY FS_Subset, FS_CardinalityType
<1>1. 0 \in Done
  <2>1. Small(0) = {{}}
    <3>1. ASSUME NEW s \in Small(0) PROVE s = {}
      BY <1>0, <3>1, FS_EmptySet
    <3>2. {} \in Small(0)
      BY FS_EmptySet
    <3> QED
      BY <3>1, <3>2
  <2> DEFINE it == [s \in Small(0) |-> 0]
  <2>2. it \in [Small(0) -> Nat] /\ \A s \in Small(0) : it[s] = After(it, s)
    BY <2>1
  <2> QED
    BY <2>2
<1>2. ASSUME NEW n \in Nat, n \in Done PROVE n + 1 \in Done
  <2>1. PICK it \in [Small(n) -> Nat] : \A s \in Small(n) : it[s] = After(it, s)
    BY <1>2
  <2> DEFINE up == [s \in Small(n + 1) |-> After(it, s)]
  <2>2. ASSUME NEW s \in Small(n + 1), s # {}
        PROVE  Pick(s) \in S /\ s \ {Pick(s)} \in Small(n)
    <3>1. IsFiniteSet(s) /\ Cardinality(s) \in Nat /\ s \in SUBSET S
          /\ Cardinality(s) <= n + 1
      BY <1>0
    <3>2. Pick(s) \in s /\ Cardinality(s \ {Pick(s)}) = Cardinality(s) - 1
      BY <2>2, <3>1, PickFacts
    <3> QED
      BY <3>1, <3>2
  <2>3. up \in [Small(n + 1) -> Nat]
    <3>1. ASSUME NEW s \in Small(n + 1) PROVE After(it, s) \in Nat
      <4>1. CASE s = {}
        BY <4>1
      <4>2. CASE s # {}
        <5>1. w[Pick(s)] \in Nat /\ it[s \ {Pick(s)}] \in Nat
          BY <2>1, <2>2, <4>2
        <5> QED
          BY <4>2, <5>1
      <4> QED
        BY <4>1, <4>2
    <3> QED
      BY <3>1
  <2>4. ASSUME NEW s \in Small(n) PROVE s \in Small(n + 1) /\ up[s] = it[s]
    <3>1. s \in Small(n + 1)
      BY <1>0
    <3>2. up[s] = After(it, s)
      BY <3>1
    <3> QED
      BY <2>1, <3>1, <3>2
  <2>5. ASSUME NEW s \in Small(n + 1) PROVE up[s] = After(up, s)
    <3>1. up[s] = After(it, s)
      OBVIOUS
    <3>2. CASE s = {}
      BY <3>1, <3>2
    <3>3. CASE s # {}
      <4>1. up[s \ {Pick(s)}] = it[s \ {Pick(s)}]
        BY <2>2, <2>4, <3>3
      <4> HIDE DEF up
      <4> QED
        BY <3>1, <3>3, <4>1
    <3> QED
      BY <3>2, <3>3
  <2> HIDE DEF up, After, Small
  <2> QED
    BY <2>3, <2>5
<1>3. Cardinality(S) \in Nat
  BY FS_CardinalityType
<1> HIDE DEF Done
<1>4. Cardinality(S) \in Done
  BY <1>1, <1>2, <1>3, Induction
<1> USE DEF Done
<1>5. Small(Cardinality(S)) = SUBSET S
  BY <1>0, <1>3, FS_Subset
<1>6. PICK it \in [SUBSET S -> Nat] : \A s \in SUBSET S : it[s] = After(it, s)
  BY <1>4, <1>5
<1>7. it = [s \in SUBSET S |-> After(it, s)]
  BY <1>6
<1> QED
  BY <1>7 DEF Sums

\* All of its values are naturals.
LEMMA SumsAreNatural ==
  ASSUME NEW S, IsFiniteSet(S), NEW w \in [S -> Nat], NEW it, Sums(it, S, w)
  PROVE  it \in [SUBSET S -> Nat]
<1> DEFINE Done == {n \in Nat : \A s \in SUBSET S : Cardinality(s) = n => it[s] \in Nat}
<1>0. \A s \in SUBSET S : IsFiniteSet(s) /\ Cardinality(s) \in Nat
  BY FS_Subset, FS_CardinalityType
<1>1. /\ it[{}] = 0
      /\ \A s \in SUBSET S : s # {} => it[s] = w[Pick(s)] + it[s \ {Pick(s)}]
  BY DEF Sums
<1>2. 0 \in Done
  <2>1. ASSUME NEW s \in SUBSET S, Cardinality(s) = 0 PROVE it[s] \in Nat
    <3>1. s = {}
      BY <1>0, <2>1, FS_EmptySet
    <3> QED
      BY <1>1, <3>1
  <2> QED
    BY <2>1
<1>3. ASSUME NEW n \in Nat, n \in Done PROVE n + 1 \in Done
  <2>1. ASSUME NEW s \in SUBSET S, Cardinality(s) = n + 1 PROVE it[s] \in Nat
    <3>1. IsFiniteSet(s) /\ s # {}
      BY <1>0, <2>1, FS_EmptySet
    <3>2. Pick(s) \in s /\ Cardinality(s \ {Pick(s)}) = Cardinality(s) - 1
      BY <3>1, PickFacts
    <3>3. PICK x \in s : x = Pick(s)
      BY <3>2
    <3>4. s \ {x} \in SUBSET S /\ Cardinality(s \ {x}) = n
      BY <2>1, <3>2, <3>3
    <3>5. w[x] \in Nat
      OBVIOUS
    <3>6. it[s \ {x}] \in Nat
      BY <1>3, <3>4
    <3> QED
      BY <1>1, <3>1, <3>3, <3>5, <3>6
  <2> QED
    BY <2>1
<1> HIDE DEF Done
<1>4. \A n \in Nat : n \in Done
  BY <1>2, <1>3, Induction
<1>5. \A s \in SUBSET S : it[s] \in Nat
  BY <1>0, <1>4 DEF Done
<1> QED
  BY <1>5 DEF Sums

\* The sum does not depend on the order in which Pick takes the elements.
LEMMA SumAdds ==
  ASSUME NEW S, IsFiniteSet(S), NEW w \in [S -> Nat], NEW it, Sums(it, S, w),
         NEW t \in SUBSET S, NEW y \in t
  PROVE  it[t] = w[y] + it[t \ {y}]
<1> DEFINE Good(s) == \A x \in s : it[s] = w[x] + it[s \ {x}]
           Done == {n \in Nat : \A s \in SUBSET S : Cardinality(s) = n => Good(s)}
<1>0. \A s \in SUBSET S : IsFiniteSet(s) /\ Cardinality(s) \in Nat /\ it[s] \in Nat
  <2>1. it \in [SUBSET S -> Nat]
    BY SumsAreNatural
  <2> QED
    BY <2>1, FS_Subset, FS_CardinalityType
<1>1. /\ it[{}] = 0
      /\ \A s \in SUBSET S : s # {} => it[s] = w[Pick(s)] + it[s \ {Pick(s)}]
  BY DEF Sums
<1>2. 0 \in Done
  <2>1. \A s \in SUBSET S : Cardinality(s) = 0 => s = {}
    BY <1>0, FS_EmptySet
  <2> QED
    BY <2>1
<1>3. ASSUME NEW n \in Nat, n \in Done PROVE n + 1 \in Done
  <2>1. ASSUME NEW s \in SUBSET S, Cardinality(s) = n + 1 PROVE Good(s)
    <3> DEFINE p == Pick(s)
    <3>1. IsFiniteSet(s) /\ s # {} /\ p \in s
      BY <1>0, <2>1, FS_EmptySet DEF Pick
    <3>2. it[s] = w[p] + it[s \ {p}]
      BY <1>1, <3>1
    <3>0. \A x \in s : s \ {x} \in SUBSET S /\ Cardinality(s \ {x}) = n
      <4> TAKE x \in s
      <4>1. Cardinality(s \ {x}) = Cardinality(s) - 1
        BY <3>1, FS_RemoveElement
      <4> QED
        BY <2>1, <4>1
    <3>3. s \ {p} \in SUBSET S /\ Cardinality(s \ {p}) = n
      BY <3>0, <3>1
    <3>4. Good(s \ {p})
      BY <1>3, <3>3
    <3> HIDE DEF p
    <3>5. ASSUME NEW x \in s, x # p PROVE it[s] = w[x] + it[s \ {x}]
      <4> DEFINE r == (s \ {p}) \ {x}
      <4>1. it[s \ {p}] = w[x] + it[r]
        BY <3>4, <3>5
      <4>2. s \ {x} \in SUBSET S /\ Cardinality(s \ {x}) = n
        BY <3>0, <3>5
      <4>3. Good(s \ {x}) /\ p \in s \ {x} /\ r = (s \ {x}) \ {p}
        BY <1>3, <3>1, <3>5, <4>2
      <4>4. it[s \ {x}] = w[p] + it[r]
        BY <4>3
      <4>5. w[x] \in Nat /\ w[p] \in Nat /\ it[r] \in Nat
        BY <1>0, <3>1, <3>5
      <4> HIDE DEF r
      <4> QED
        BY <3>2, <4>1, <4>4, <4>5
    <3> QED
      BY <3>2, <3>5
  <2> HIDE DEF Good
  <2> QED
    BY <2>1
<1> HIDE DEF Done
<1>4. \A n \in Nat : n \in Done
  BY <1>2, <1>3, Induction
<1>5. Good(t)
  BY <1>0, <1>4 DEF Done
<1> QED
  BY <1>5

\* Summing from the lowest number up.
Below(S, k) == {i \in S : i < k}
Part(S, w, k) == IF k \in S THEN w[k] ELSE 0

LEMMA SumUpwards ==
  ASSUME NEW S, \A i \in S : i \in Nat, IsFiniteSet(S), NEW w \in [S -> Nat], NEW it,
         Sums(it, S, w)
  PROVE  \A k \in Nat : it[Below(S, k + 1)] = it[Below(S, k)] + Part(S, w, k)
<1> TAKE k \in Nat
<1> DEFINE low == Below(S, k)
           upto == Below(S, k + 1)
<1>0. ASSUME NEW t \in SUBSET S, NEW y \in t
      PROVE  it[t] = w[y] + it[t \ {y}]
  <2> HIDE DEF low, upto
  <2> QED
    BY SumAdds
<1>1. it[low] \in Nat
  <2>1. it \in [SUBSET S -> Nat]
    BY SumsAreNatural
  <2>2. low \in SUBSET S
    BY DEF Below
  <2> HIDE DEF low
  <2> QED
    BY <2>1, <2>2
<1>2. CASE k \in S
  <2>1. k \in upto /\ upto \in SUBSET S
    BY <1>2 DEF Below
  <2>2. upto \ {k} = low
    <3>1. \A i \in Nat : i < k <=> i < k + 1 /\ i # k
      OBVIOUS
    <3> QED
      BY <3>1 DEF Below
  <2> HIDE DEF upto, low
  <2>3. it[upto] = w[k] + it[upto \ {k}]
    BY <1>0, <2>1
  <2>4. w[k] \in Nat
    BY <1>2
  <2> QED
    BY <1>1, <1>2, <2>2, <2>3, <2>4 DEF low, upto, Part
<1>3. CASE k \notin S
  <2>1. upto = low
    <3>1. \A i \in Nat : i < k <=> i < k + 1 /\ i # k
      OBVIOUS
    <3> QED
      BY <1>3, <3>1 DEF Below
  <2> HIDE DEF upto, low
  <2>2. it[upto] = it[low] + 0
    BY <1>1, <2>1
  <2> QED
    BY <1>3, <2>2 DEF upto, low, Part
<1> QED
  BY <1>2, <1>3

---------------------------------------------------------------------------
(* Powers of two, quotients and bits.                                      *)

\* A set of one element more has twice as many subsets.
LEMMA TwoTimes ==
  ASSUME NEW n \in Nat
  PROVE  2^n \in Nat \ {0} /\ 2^(n + 1) = 2 * 2^n
<1> DEFINE A == 1..n
           B == SUBSET A
           C == {a \union {n + 1} : a \in B}
<1>1. IsFiniteSet(A) /\ Cardinality(A) = n
  BY FS_Interval
<1>2. IsFiniteSet(1..(n + 1)) /\ Cardinality(1..(n + 1)) = n + 1
  BY FS_Interval
<1>3. IsFiniteSet(B) /\ Cardinality(B) = 2^n
  BY <1>1, FS_SUBSET
<1>4. Cardinality(SUBSET (1..(n + 1))) = 2^(n + 1)
  BY <1>2, FS_SUBSET
<1>5. n + 1 \notin A /\ 1..(n + 1) = A \union {n + 1}
  OBVIOUS
<1> HIDE DEF A
<1>6. SUBSET (1..(n + 1)) = B \union C
  <2>1. ASSUME NEW s \in SUBSET (1..(n + 1)) PROVE s \in B \union C
    <3>1. CASE n + 1 \in s
      <4>1. s \ {n + 1} \in B /\ s = (s \ {n + 1}) \union {n + 1}
        BY <1>5, <2>1, <3>1
      <4> QED
        BY <4>1
    <3>2. CASE n + 1 \notin s
      BY <1>5, <2>1, <3>2
    <3> QED
      BY <3>1, <3>2
  <2>2. B \union C \subseteq SUBSET (1..(n + 1))
    BY <1>5
  <2> QED
    BY <2>1, <2>2
<1>7. B \cap C = {}
  BY <1>5
<1>8. IsFiniteSet(C) /\ Cardinality(C) = Cardinality(B)
  <2> DEFINE f == [a \in B |-> a \union {n + 1}]
  <2>1. f \in Bijection(B, C)
    <3>1. f \in [B -> C]
      OBVIOUS
    <3>2. ASSUME NEW a \in B, NEW b \in B, f[a] = f[b] PROVE a = b
      <4>1. a \union {n + 1} = b \union {n + 1} /\ n + 1 \notin a /\ n + 1 \notin b
        BY <1>5, <3>2
      <4> QED
        BY <4>1
    <3>3. ASSUME NEW c \in C PROVE \E a \in B : f[a] = c
      OBVIOUS
    <3>4. DOMAIN f = B
      OBVIOUS
    <3> HIDE DEF f, B, C
    <3> QED
      BY <3>1, <3>2, <3>3, <3>4 DEF Bijection, Injection, Surjection, IsInjective
  <2>2. ExistsBijection(B, C)
    BY <2>1, Zenon DEF ExistsBijection
  <2> QED
    BY <1>3, <2>2, FS_Bijection
<1>9. Cardinality(B \union C) = Cardinality(B) + Cardinality(C) - Cardinality(B \cap C)
  BY <1>3, <1>8, FS_Union
<1>10. Cardinality(B \cap C) = 0
  BY <1>7, FS_EmptySet
<1>11. {} \in B
  OBVIOUS
<1>12. 2^n \in Nat /\ 2^n # 0
  BY <1>3, <1>11, FS_CardinalityType, FS_EmptySet
<1> QED
  <2>1. PICK t \in Nat : t = 2^n
    BY <1>12
  <2>2. 2^(n + 1) = Cardinality(B \union C)
    BY <1>4, <1>6
  <2>3. 2^(n + 1) = t + t - 0
    BY <1>3, <1>8, <1>9, <1>10, <2>1, <2>2
  <2> QED
    BY <1>12, <2>1, <2>3

\* Exponents add up.
LEMMA TwoToTheSum ==
  ASSUME NEW m \in Nat, NEW n \in Nat
  PROVE  2^(m + n) = 2^m * 2^n
<1> DEFINE Done == {k \in Nat : 2^(m + k) = 2^m * 2^k}
<1>1. 0 \in Done
  BY TwoTimes
<1>2. ASSUME NEW k \in Nat, k \in Done PROVE k + 1 \in Done
  <2>1. PICK a \in Nat : a = 2^m
    BY TwoTimes
  <2>2. PICK b \in Nat : b = 2^k
    BY TwoTimes
  <2>3. 2^(k + 1) = 2 * b
    BY <2>2, TwoTimes
  <2>4. 2^(m + k) = a * b
    BY <1>2, <2>1, <2>2
  <2>5. 2^((m + k) + 1) = 2 * (a * b)
    BY <2>4, TwoTimes
  <2>6. m + (k + 1) = (m + k) + 1
    OBVIOUS
  <2>7. 2 * (a * b) = a * (2 * b)
    OBVIOUS
  <2>8. 2^(m + (k + 1)) = 2^m * 2^(k + 1)
    BY <2>1, <2>3, <2>5, <2>6, <2>7
  <2> QED
    BY <2>8
<1> HIDE DEF Done
<1>3. n \in Done
  BY <1>1, <1>2, Induction
<1> QED
  BY <1>3 DEF Done

\* Quotients and remainders, for any divisor.
LEMMA Division ==
  ASSUME NEW n \in Int, NEW p \in Int, p > 0
  PROVE  /\ n \div p \in Int /\ n % p \in Int /\ n % p >= 0 /\ n % p < p
         /\ n = p * (n \div p) + (n % p)
BY Z3

LEMMA DivisionUnique ==
  ASSUME NEW n \in Int, NEW p \in Int, p > 0, NEW q \in Int, NEW r \in Int,
         0 <= r, r < p, n = p * q + r
  PROVE  n \div p = q /\ n % p = r
BY Z3

LEMMA DivisionTwice ==
  ASSUME NEW n \in Nat, NEW p \in Int, p > 0, NEW q \in Int, q > 0
  PROVE  (n \div p) \div q = n \div (p * q)
BY Z3

LEMMA DivisionOfSum ==
  ASSUME NEW n \in Int, NEW p \in Int, p > 0, NEW q \in Int
  PROVE  (p * q + n) \div p = q + (n \div p)
BY Z3

LEMMA QuotientNatural ==
  ASSUME NEW n \in Int, n >= 0, NEW p \in Int, p > 0
  PROVE  n \div p \in Int /\ n \div p >= 0
BY Z3

\* Bit number i.
Bit(n, i) == (n \div 2^i) % 2

\* The remainder grows by the next bit.
LEMMA NextBit ==
  ASSUME NEW n \in Nat, NEW i \in Nat
  PROVE  /\ Bit(n, i) \in {0, 1}
         /\ n % 2^(i + 1) = (n % 2^i) + (IF Bit(n, i) = 1 THEN 2^i ELSE 0)
<1>1. PICK p \in Int : p = 2^i /\ p > 0 /\ 2^(i + 1) = 2 * p
  BY TwoTimes
<1>2. PICK q \in Int, r \in Int : n = p * q + r /\ 0 <= r /\ r < p /\ q = n \div p /\ r = n % p
  BY <1>1, Division
<1>3. PICK u \in Int, b \in Int : q = 2 * u + b /\ b = q % 2 /\ b \in {0, 1}
  BY Division
<1>4. Bit(n, i) = b
  BY <1>1, <1>2, <1>3 DEF Bit
<1>5. n = (2 * p) * u + (p * b + r)
  <2>1. p * (2 * u + b) + r = (2 * p) * u + (p * b + r)
    OBVIOUS
  <2>2. n = p * (2 * u + b) + r
    BY <1>2, <1>3
  <2> QED
    BY <2>1, <2>2, Zenon
<1>6. CASE b = 0
  <2>1. n = (2 * p) * u + r /\ 0 <= r /\ r < 2 * p
    BY <1>1, <1>2, <1>5, <1>6
  <2>2. n % (2 * p) = r
    BY <1>1, <2>1, DivisionUnique
  <2> QED
    BY <1>1, <1>2, <1>4, <1>6, <2>2
<1>7. CASE b = 1
  <2>1. n = (2 * p) * u + (p + r) /\ 0 <= p + r /\ p + r < 2 * p
    BY <1>1, <1>2, <1>5, <1>7
  <2>2. n % (2 * p) = p + r
    BY <1>1, <2>1, DivisionUnique
  <2> QED
    BY <1>1, <1>2, <1>4, <1>7, <2>2
<1> QED
  BY <1>3, <1>4, <1>6, <1>7

\* A shift to the right.
LEMMA BitOfQuotient ==
  ASSUME NEW n \in Nat, NEW b \in Nat, NEW i \in Nat
  PROVE  Bit(n \div 2^b, i) = Bit(n, b + i)
<1>1. (n \div 2^b) \div 2^i = n \div (2^b * 2^i)
  BY TwoTimes, DivisionTwice
<1> QED
  BY <1>1, TwoToTheSum DEF Bit

\* A number of k bits below another one.
Joined(n, k, m, j) == IF j < k THEN Bit(n, j) ELSE Bit(m, j - k)

LEMMA BitsOfJoined ==
  ASSUME NEW k \in Nat, NEW n \in Nat, n < 2^k, NEW m \in Nat
  PROVE  \A i \in Nat : Bit(n + 2^k * m, i) = Joined(n, k, m, i)
<1> SUFFICES ASSUME NEW i \in Nat PROVE Bit(n + 2^k * m, i) = Joined(n, k, m, i)
  OBVIOUS
<1>0. 2^k \in Nat /\ 2^k > 0 /\ 2^i \in Nat /\ 2^i > 0 /\ n \in Nat
  BY TwoTimes
<1>1. CASE i < k
  <2>1. PICK j \in Nat : k = i + (j + 1)
    <3>1. k - i - 1 \in Nat /\ k = i + ((k - i - 1) + 1)
      BY <1>1
    <3> QED
      BY <3>1
  <2>2. PICK h \in Nat : h = 2^j /\ 2^(j + 1) = 2 * h
    BY TwoTimes
  <2>3. 2^(i + (j + 1)) = 2^i * 2^(j + 1)
    BY TwoToTheSum
  <2>4. 2^k = 2^i * (2 * h)
    BY <2>1, <2>2, <2>3
  <2>5. PICK p \in Int : p = 2^i /\ p > 0
    BY <1>0
  <2>6. n + 2^k * m = p * (2 * (h * m)) + n
    BY <2>4, <2>5
  <2>7. 2 * (h * m) \in Int /\ h * m \in Int
    BY <2>2
  <2>8. (n + 2^k * m) \div p = 2 * (h * m) + (n \div p)
    BY <1>0, <2>5, <2>6, <2>7, DivisionOfSum
  <2>9. PICK q \in Int : q = n \div p
    BY <1>0, <2>5, Division
  <2>10. PICK g \in Int : g = h * m
    BY <2>7
  <2>11. (2 * g + q) % 2 = q % 2
    OBVIOUS
  <2> QED
    <3>1. Bit(n + 2^k * m, i) = Bit(n, i)
      BY <2>5, <2>8, <2>9, <2>10, <2>11 DEF Bit
    <3> QED
      BY <1>1, <3>1 DEF Joined
<1>2. CASE i >= k
  <2>1. i - k \in Nat /\ i = k + (i - k)
    BY <1>2
  <2>2. PICK p \in Int : p = 2^k /\ p > 0
    BY <1>0
  <2>3. n + p * m = p * m + n /\ 0 <= n /\ n < p /\ n + p * m \in Nat
    BY <1>0, <2>2
  <2>4. (n + p * m) \div p = m
    BY <1>0, <2>2, <2>3, DivisionUnique
  <2>5. Bit((n + p * m) \div 2^k, i - k) = Bit(n + p * m, k + (i - k))
    BY <2>1, <2>3, BitOfQuotient
  <2> QED
    <3>1. Bit(n + 2^k * m, i) = Bit(m, i - k)
      BY <2>1, <2>2, <2>4, <2>5
    <3> QED
      BY <1>2, <3>1 DEF Joined
<1> QED
  BY <1>0, <1>1, <1>2

\* A byte on top of k bytes.
LEMMA JoinedByte ==
  ASSUME NEW k \in Nat, NEW n \in Nat, n < 2^(8 * k), NEW b \in Nat, b < 256
  PROVE  /\ n + 2^(8 * k) * b \in Nat /\ n + 2^(8 * k) * b < 2^(8 * (k + 1))
         /\ \A j \in Nat : Bit(n + 2^(8 * k) * b, j) = Joined(n, 8 * k, b, j)
<1>1. PICK h \in Nat : h = 8 * k
  OBVIOUS
<1>2. PICK p \in Nat : p = 2^h
  BY TwoTimes
<1>3. 2^(h + 8) = 2^h * 2^8 /\ 2^8 = 256 /\ 8 * (k + 1) = h + 8
  <2>1. 2^(h + 8) = 2^h * 2^8
    BY TwoToTheSum
  <2>2. 2^8 = 256
    OBVIOUS
  <2>3. 8 * (k + 1) = h + 8
    BY <1>1
  <2> QED
    BY <2>1, <2>2, <2>3
<1>4. 2^(8 * (k + 1)) = p * 256 /\ 2^(8 * k) = p /\ n < p
  BY <1>1, <1>2, <1>3
<1>5. n + p * b \in Nat /\ n + p * b < p * 256
  <2>1. p * b <= p * 255 /\ p * b \in Nat
    OBVIOUS
  <2> QED
    BY <1>4, <2>1
<1>6. \A j \in Nat : Bit(n + 2^h * b, j) = Joined(n, h, b, j)
  <2>1. n < 2^h
    BY <1>2, <1>4
  <2> QED
    BY <2>1, BitsOfJoined, Zenon
<1> QED
  BY <1>1, <1>2, <1>4, <1>5, <1>6

---------------------------------------------------------------------------
(* Numbers as sums.                                                        *)

\* The fold of MapThenSumSet is such a sum.
LEMMA NumberIsSum ==
  ASSUME NEW S, \A i \in S : i \in Nat, IsFiniteSet(S)
  PROVE  \E it : Sums(it, S, [i \in S |-> 2^i]) /\ Number(S) = it[S]
<1> DEFINE w == [i \in S |-> 2^i]
           Fold(it) == it = [s \in SUBSET S |-> IF s = {} THEN 0
                                                ELSE 2^Pick(s) + it[s \ {Pick(s)}]]
<1>1. w \in [S -> Nat]
  BY TwoTimes
<1>2. ASSUME NEW it PROVE Fold(it) <=> Sums(it, S, w)
  <2>1. \A s \in SUBSET S : s # {} => w[Pick(s)] = 2^Pick(s)
    BY DEF Pick
  <2> HIDE DEF w
  <2> QED
    BY <2>1 DEF Sums
<1>3. \E it : Fold(it)
  BY <1>1, <1>2, SumsExist
<1>4. Number(S) = (CHOOSE it : Fold(it))[S]
  BY Zenon DEF Number, MapThenSumSet, MapThenFoldSet, Pick
<1> HIDE DEF Fold
<1>5. Fold(CHOOSE it : Fold(it))
  BY <1>3, Zenon
<1> QED
  BY <1>2, <1>4, <1>5

\* The number of the byte that has k bytes below it.
Ranked(base, bytes, order, k) ==
  IF order = "little" THEN base + k ELSE base + bytes - 1 - k

\* What that byte adds to the whole.
Piece(data, base, bytes, order, k) ==
  2^(8 * k) * ByteAt(data, Ranked(base, bytes, order, k))

\* And so is the fold of Whole.
LEMMA WholeIsSum ==
  ASSUME NEW data, NEW base, NEW bytes \in Nat, NEW order,
         NEW S, S = 0..(bytes - 1), NEW w \in [S -> Nat],
         \A k \in S : w[k] = Piece(data, base, bytes, order, k)
  PROVE  \E it : Sums(it, S, w) /\ Whole(data, base, bytes, order) = it[S]
<1> DEFINE v(k) == Piece(data, base, bytes, order, k)
           Fold(it) == it = [s \in SUBSET S |-> IF s = {} THEN 0
                                                ELSE v(Pick(s)) + it[s \ {Pick(s)}]]
<1>1. IsFiniteSet(S)
  BY FS_Interval
<1>2. ASSUME NEW it PROVE Fold(it) <=> Sums(it, S, w)
  <2>1. \A s \in SUBSET S : s # {} => w[Pick(s)] = v(Pick(s))
    BY DEF Pick
  <2> HIDE DEF v
  <2> QED
    BY <2>1 DEF Sums
<1>3. \E it : Fold(it)
  <2> HIDE DEF Fold
  <2>2. \E it : Sums(it, S, w)
    BY <1>1, SumsExist, Zenon
  <2> QED
    BY <1>2, <2>2
<1>4. Whole(data, base, bytes, order) = (CHOOSE it : Fold(it))[S]
  BY Zenon DEF Whole, Piece, Ranked, MapThenSumSet, MapThenFoldSet, Pick
<1> HIDE DEF Fold
<1>5. Fold(CHOOSE it : Fold(it))
  BY <1>3, Zenon
<1> QED
  BY <1>2, <1>4, <1>5

\* The ones among the lowest m bits of a number make up its remainder.
LEMMA NumberOfBits ==
  ASSUME NEW n \in Nat, NEW m \in Nat
  PROVE  Number({i \in 0..(m - 1) : Bit(n, i) = 1}) = n % 2^m
<1> DEFINE S == {i \in 0..(m - 1) : Bit(n, i) = 1}
           w == [i \in S |-> 2^i]
<1>1. IsFiniteSet(S) /\ \A i \in S : i \in Nat
  <2>1. IsFiniteSet(0..(m - 1)) /\ S \in SUBSET (0..(m - 1))
    BY FS_Interval
  <2>2. IsFiniteSet(S)
    BY <2>1, FS_Subset, Zenon
  <2> QED
    BY <2>1, <2>2
<1>2. w \in [S -> Nat]
  BY <1>1, TwoTimes
<1> HIDE DEF S
<1>3. PICK it : Sums(it, S, w) /\ Number(S) = it[S]
  BY <1>1, NumberIsSum
<1> DEFINE low(k) == Below(S, k)
           Done == {k \in Nat : k <= m => it[low(k)] = n % 2^k}
<1>4. \A i \in S : w[i] = 2^i
  OBVIOUS
<1> HIDE DEF w
<1>5. 0 \in Done
  <2>1. low(0) = {}
    BY <1>1 DEF Below
  <2>2. it[{}] = 0
    BY <1>3 DEF Sums
  <2>3. n % 1 = 0 /\ 2^0 = 1
    OBVIOUS
  <2> QED
    BY <2>1, <2>2, <2>3
<1>6. ASSUME NEW k \in Nat, k \in Done PROVE k + 1 \in Done
  <2> SUFFICES ASSUME k + 1 <= m PROVE it[low(k + 1)] = n % 2^(k + 1)
    OBVIOUS
  <2>1. it[low(k)] = n % 2^k
    BY <1>6
  <2>2. it[low(k + 1)] = it[low(k)] + Part(S, w, k)
    BY <1>1, <1>2, <1>3, SumUpwards
  <2>3. k \in S <=> Bit(n, k) = 1
    BY DEF S
  <2>4. n % 2^(k + 1) = (n % 2^k) + (IF Bit(n, k) = 1 THEN 2^k ELSE 0)
    BY NextBit
  <2> HIDE DEF low
  <2> QED
    BY <1>4, <2>1, <2>2, <2>3, <2>4 DEF Part
<1> HIDE DEF Done
<1>7. m \in Done
  BY <1>5, <1>6, Induction
<1>8. low(m) = S
  BY DEF S, Below
<1>9. it[S] = n % 2^m
  <2> HIDE DEF low
  <2> QED
    BY <1>7, <1>8 DEF Done
<1> QED
  BY <1>3, <1>9 DEF S

\* The elements of a sequence.
LEMMA Element ==
  ASSUME NEW S, NEW q \in Seq(S)
  PROVE  \A n \in 1..Len(q) : q[n] \in S
OBVIOUS

\* The bytes of the frame and their bits.
LEMMA ByteFacts ==
  ASSUME NEW data \in Seq(0..255), NEW k \in Nat, NEW i \in Nat
  PROVE  /\ ByteAt(data, k) \in 0..255
         /\ IsSet(data, k, i) <=> Bit(ByteAt(data, k), i) = 1
<1>1. Bit(0, i) = 0
  <2>1. PICK p \in Int : p = 2^i /\ p > 0
    BY TwoTimes
  <2>2. 0 \div p = 0
    BY <2>1, DivisionUnique
  <2> QED
    BY <2>1, <2>2 DEF Bit
<1>2. CASE k < Len(data)
  <2>1. ByteAt(data, k) = data[k + 1] /\ k + 1 \in 1..Len(data)
    BY <1>2 DEF ByteAt
  <2>2. data[k + 1] \in 0..255
    BY <2>1, Element
  <2> QED
    BY <1>2, <2>1, <2>2 DEF IsSet, Bit
<1>3. CASE ~(k < Len(data))
  <2>1. ByteAt(data, k) = 0
    BY <1>3 DEF ByteAt
  <2> QED
    BY <1>1, <1>3, <2>1 DEF IsSet
<1> QED
  BY <1>2, <1>3

\* The bits of the bytes make up the whole.  This is bit j of them.
BitOfBytes(data, base, bytes, order, j) ==
  Bit(ByteAt(data, Ranked(base, bytes, order, j \div 8)), j % 8)

LEMMA BitOfWhole ==
  ASSUME NEW data \in Seq(0..255), NEW base \in Nat, NEW bytes \in Nat, NEW order
  PROVE  /\ Whole(data, base, bytes, order) \in Nat
         /\ \A j \in 0..(8 * bytes - 1) :
              Bit(Whole(data, base, bytes, order), j)
                = BitOfBytes(data, base, bytes, order, j)
<1> DEFINE S == 0..(bytes - 1)
           byte(k) == ByteAt(data, Ranked(base, bytes, order, k))
           w == [k \in S |-> 2^(8 * k) * byte(k)]
<1>1. IsFiniteSet(S) /\ \A i \in S : i \in Nat
  BY FS_Interval
<1>2. ASSUME NEW k \in S
      PROVE  byte(k) \in Nat /\ byte(k) < 256 /\ w[k] = 2^(8 * k) * byte(k) /\ w[k] \in Nat
  <2>1. Ranked(base, bytes, order, k) \in Nat
    BY DEF Ranked
  <2>2. byte(k) \in 0..255
    BY <2>1, ByteFacts
  <2>3. 2^(8 * k) \in Nat
    <3>1. 8 * k \in Nat
      OBVIOUS
    <3> QED
      BY <3>1, TwoTimes
  <2>4. w[k] = 2^(8 * k) * byte(k)
    OBVIOUS
  <2> HIDE DEF byte, w
  <2>5. PICK p \in Nat : p = 2^(8 * k)
    BY <2>3
  <2>6. PICK b \in 0..255 : b = byte(k)
    BY <2>2
  <2>7. p * b \in Nat /\ b \in Nat /\ b < 256
    OBVIOUS
  <2> QED
    BY <2>4, <2>5, <2>6, <2>7
<1>3. w \in [S -> Nat]
  BY <1>2
<1>4. PICK it : Sums(it, S, w) /\ Whole(data, base, bytes, order) = it[S]
  <2>1. \A k \in S : w[k] = Piece(data, base, bytes, order, k)
    BY DEF Piece
  <2>2. S = 0..(bytes - 1)
    OBVIOUS
  <2> HIDE DEF w, S, byte
  <2>3. ASSUME NEW y \in [S -> Nat],
               \A k \in S : y[k] = Piece(data, base, bytes, order, k)
        PROVE  \E it : Sums(it, S, y) /\ Whole(data, base, bytes, order) = it[S]
    BY <2>2, <2>3, WholeIsSum, SMTT(30)
  <2> QED
    BY <1>3, <2>1, <2>3
<1> HIDE DEF w, byte, S
<1>5. \A k \in Nat : it[Below(S, k + 1)] = it[Below(S, k)] + Part(S, w, k)
  BY <1>1, <1>3, <1>4, SumUpwards
<1> DEFINE low(k) == Below(S, k)
           Ok(k, n) == /\ n \in Nat /\ n < 2^(8 * k)
                       /\ \A j \in Nat : j < 8 * k =>
                            Bit(n, j) = Bit(byte(j \div 8), j % 8)
           Done == {k \in Nat : k <= bytes => Ok(k, it[low(k)])}
<1>6. 0 \in Done
  <2>1. low(0) = {}
    BY <1>1 DEF Below
  <2>2. it[{}] = 0
    BY <1>4 DEF Sums
  <2>3. 2^(8 * 0) = 1
    OBVIOUS
  <2>4. Ok(0, 0)
    BY <2>3
  <2> HIDE DEF Ok, low
  <2> QED
    BY <2>1, <2>2, <2>4
<1>7. ASSUME NEW k \in Nat, k \in Done PROVE k + 1 \in Done
  <2>1. ASSUME k + 1 <= bytes PROVE Ok(k + 1, it[low(k + 1)])
    <3>1. Ok(k, it[low(k)]) /\ k \in S
      <4>1. k <= bytes /\ k \in S
        BY <2>1 DEF S
      <4> HIDE DEF Ok, low, S
      <4> QED
        BY <1>7, <4>1
    <3>2. it[low(k + 1)] = it[low(k)] + w[k]
      <4>1. it[low(k + 1)] = it[low(k)] + Part(S, w, k)
        BY <1>5
      <4> QED
        BY <3>1, <4>1 DEF Part
    <3> HIDE DEF low, S
    <3>3. PICK b \in Nat : b = byte(k) /\ b < 256
      BY <1>2, <3>1
    <3>4. PICK n \in Nat : n = it[low(k)] /\ Ok(k, n)
      BY <3>1
    <3>5. it[low(k + 1)] = n + 2^(8 * k) * b
      BY <1>2, <3>1, <3>2, <3>3, <3>4
    <3>6. /\ n + 2^(8 * k) * b \in Nat /\ n + 2^(8 * k) * b < 2^(8 * (k + 1))
          /\ \A j \in Nat : Bit(n + 2^(8 * k) * b, j) = Joined(n, 8 * k, b, j)
      BY <3>3, <3>4, JoinedByte
    <3>7. ASSUME NEW j \in Nat, j < 8 * (k + 1)
          PROVE  Bit(n + 2^(8 * k) * b, j) = Bit(byte(j \div 8), j % 8)
      <4>1. CASE j < 8 * k
        BY <3>4, <3>6, <4>1 DEF Joined
      <4>2. CASE j >= 8 * k
        <5>1. j \div 8 = k /\ j % 8 = j - 8 * k /\ ~(j < 8 * k)
          BY <3>7, <4>2
        <5>2. Bit(n + 2^(8 * k) * b, j) = Bit(b, j - 8 * k)
          BY <3>6, <5>1 DEF Joined
        <5> QED
          BY <3>3, <5>1, <5>2
      <4> QED
        BY <4>1, <4>2
    <3>8. Ok(k + 1, n + 2^(8 * k) * b)
      BY <3>6, <3>7
    <3> HIDE DEF Ok
    <3> QED
      BY <3>5, <3>8
  <2> HIDE DEF Ok
  <2> QED
    BY <2>1
<1> HIDE DEF Done
<1>8. bytes \in Done
  BY <1>6, <1>7, Induction
<1>9. low(bytes) = S
  BY DEF Below, S
<1>10. Ok(bytes, it[S])
  <2> HIDE DEF Ok, low
  <2> QED
    BY <1>8, <1>9 DEF Done
<1>11. \A j \in 0..(8 * bytes - 1) : j \in Nat /\ j < 8 * bytes
  OBVIOUS
<1> HIDE DEF low, S
<1> QED
  BY <1>4, <1>10, <1>11 DEF byte, BitOfBytes

---------------------------------------------------------------------------
(* The loops of extract_raw.                                               *)

\* Where the walk stands after n turns, at once.
Standing(start, n) ==
  [byte |-> (start \div 8) + (((7 - (start % 8)) + n) \div 8),
   bit |-> 7 - (((7 - (start % 8)) + n) % 8)]

\* One turn of the loop.
Onward(p) == IF p.bit = 0 THEN [byte |-> p.byte + 1, bit |-> 7]
           ELSE [p EXCEPT !.bit = @ - 1]

\* It begins where the loop begins, and goes on as the loop does.
LEMMA StandingFacts ==
  ASSUME NEW start \in Nat
  PROVE  /\ Standing(start, 0) = [byte |-> start \div 8, bit |-> start % 8]
         /\ \A n \in Nat : Standing(start, n + 1) = Onward(Standing(start, n))
<1>1. PICK t \in 0..7 : t = 7 - (start % 8)
  OBVIOUS
<1>2. Standing(start, 0) = [byte |-> start \div 8, bit |-> start % 8]
  <2>1. (t + 0) \div 8 = 0 /\ 7 - ((t + 0) % 8) = start % 8 /\ start \div 8 \in Nat
    BY <1>1
  <2> QED
    BY <1>1, <2>1 DEF Standing
<1>3. ASSUME NEW n \in Nat PROVE Standing(start, n + 1) = Onward(Standing(start, n))
  <2>1. PICK q \in Nat, r \in 0..7 : q = (t + n) \div 8 /\ r = (t + n) % 8
    OBVIOUS
  <2>2. PICK b \in Nat : b = start \div 8
    OBVIOUS
  <2>3. Standing(start, n) = [byte |-> b + q, bit |-> 7 - r]
    BY <1>1, <2>1, <2>2 DEF Standing
  <2>4. CASE r = 7
    <3>1. (t + (n + 1)) \div 8 = q + 1 /\ (t + (n + 1)) % 8 = 0
      BY <2>1, <2>4
    <3>2. Standing(start, n + 1) = [byte |-> b + (q + 1), bit |-> 7 - 0]
      BY <1>1, <2>2, <3>1 DEF Standing
    <3>3. Onward(Standing(start, n)) = [byte |-> (b + q) + 1, bit |-> 7]
      BY <2>3, <2>4 DEF Onward
    <3> QED
      BY <3>2, <3>3
  <2>5. CASE r # 7
    <3>1. (t + (n + 1)) \div 8 = q /\ (t + (n + 1)) % 8 = r + 1
      BY <2>1, <2>5
    <3>2. Standing(start, n + 1) = [byte |-> b + q, bit |-> 7 - (r + 1)]
      BY <1>1, <2>2, <3>1 DEF Standing
    <3>3. Onward(Standing(start, n)) = [byte |-> b + q, bit |-> (7 - r) - 1]
      BY <2>3, <2>5 DEF Onward
    <3> QED
      BY <3>2, <3>3
  <2> QED
    BY <2>4, <2>5
<1> QED
  BY <1>2, <1>3

\* So it is where the loop stands.
LEMMA WalkFacts ==
  ASSUME NEW s, s.start \in Nat, s.length \in Nat
  PROVE  \A n \in Nat : n <= s.length => Walk(s)[n] = Standing(s.start, n)
<1> DEFINE First == [byte |-> s.start \div 8, bit |-> s.start % 8]
           Rule(pos) == pos = [n \in 0..s.length |->
                                 IF n = 0 THEN First ELSE Onward(pos[n - 1])]
           Done == {n \in Nat : n <= s.length => Walk(s)[n] = Standing(s.start, n)}
<1>1. Walk(s) = CHOOSE pos : Rule(pos)
  BY DEF Walk, Onward
<1>2. \E pos : Rule(pos)
  <2> DEFINE f == [n \in 0..s.length |-> Standing(s.start, n)]
  <2>1. ASSUME NEW n \in 0..s.length
        PROVE  f[n] = IF n = 0 THEN First ELSE Onward(f[n - 1])
    <3>1. CASE n = 0
      BY <3>1, StandingFacts
    <3>2. CASE n # 0
      <4>1. n - 1 \in Nat /\ n - 1 \in 0..s.length /\ (n - 1) + 1 = n
        BY <3>2
      <4>2. Standing(s.start, (n - 1) + 1) = Onward(Standing(s.start, n - 1))
        BY <4>1, StandingFacts
      <4> QED
        BY <3>2, <4>1, <4>2
    <3> QED
      BY <3>1, <3>2
  <2>2. Rule(f)
    <3>1. f = [n \in 0..s.length |-> f[n]]
      OBVIOUS
    <3> HIDE DEF f, First
    <3> QED
      BY <2>1, <3>1
  <2> HIDE DEF f, Rule
  <2> QED
    BY <2>2
<1> HIDE DEF Rule
<1>3. Rule(Walk(s))
  BY <1>1, <1>2, Zenon
<1>4. 0 \in Done
  <2> DEFINE W == Walk(s)
  <2>1. Rule(W) /\ 0 \in 0..s.length
    BY <1>3
  <2> HIDE DEF W, First
  <2>2. W[0] = First
    BY <2>1 DEF Rule
  <2> QED
    BY <2>2, StandingFacts DEF W, First
<1>5. ASSUME NEW n \in Nat, n \in Done PROVE n + 1 \in Done
  <2> SUFFICES ASSUME n + 1 <= s.length PROVE Walk(s)[n + 1] = Standing(s.start, n + 1)
    OBVIOUS
  <2>1. Walk(s)[n] = Standing(s.start, n)
    BY <1>5
  <2>2. n + 1 \in 0..s.length /\ (n + 1) - 1 = n /\ n + 1 # 0
    OBVIOUS
  <2>3. Walk(s)[n + 1] = Onward(Walk(s)[n])
    <3> DEFINE W == Walk(s)
    <3> HIDE DEF First, W
    <3>1. Rule(W)
      BY <1>3 DEF W
    <3>2. W[n + 1] = Onward(W[n])
      BY <2>2, <3>1 DEF Rule
    <3> QED
      BY <3>2 DEF W
  <2> QED
    BY <2>1, <2>3, StandingFacts
<1> HIDE DEF Done
<1>6. \A n \in Nat : n \in Done
  BY <1>4, <1>5, Induction
<1> QED
  BY <1>6 DEF Done

\* The field before it is cut to the length of the signal.
Shifted(data, s) ==
  LET bytes == s.length \div 8 + 2
      below == IF s.order = "little" THEN s.start % 8
               ELSE 8 * bytes - (7 - (s.start % 8)) - s.length
  IN  Whole(data, s.start \div 8, bytes, s.order) \div 2^below

\* The bits above a number of bits that are shifted out.
LEMMA ShiftedBits ==
  ASSUME NEW data \in Seq(0..255), NEW base \in Nat, NEW bytes \in Nat, NEW order,
         NEW below \in Nat
  PROVE  /\ Whole(data, base, bytes, order) \div 2^below \in Nat
         /\ \A i \in Nat : below + i < 8 * bytes =>
              Bit(Whole(data, base, bytes, order) \div 2^below, i)
                = BitOfBytes(data, base, bytes, order, below + i)
<1>1. PICK w \in Nat :
        /\ w = Whole(data, base, bytes, order)
        /\ \A l \in 0..(8 * bytes - 1) : Bit(w, l) = BitOfBytes(data, base, bytes, order, l)
  BY BitOfWhole
<1>2. ASSUME NEW i \in Nat, below + i < 8 * bytes
      PROVE  Bit(w \div 2^below, i) = BitOfBytes(data, base, bytes, order, below + i)
  <2>1. Bit(w \div 2^below, i) = Bit(w, below + i)
    BY BitOfQuotient
  <2>2. below + i \in 0..(8 * bytes - 1)
    BY <1>2
  <2> QED
    BY <1>1, <2>1, <2>2
<1>3. w \div 2^below \in Nat
  <2>1. PICK p \in Int : p = 2^below /\ p > 0
    BY TwoTimes
  <2>2. w \div p \in Int /\ w \div p >= 0
    <3>1. w \in Int /\ w >= 0
      OBVIOUS
    <3> QED
      BY <2>1, <3>1, QuotientNatural, Zenon
  <2> QED
    BY <2>1, <2>2
<1> QED
  BY <1>1, <1>2, <1>3

\* The loop over a little-endian signal finds the bits of the field.
LEMMA OnesLittle ==
  ASSUME NEW data \in Seq(0..255), NEW s, s.start \in Nat, s.length \in Nat,
         s.order = "little"
  PROVE  /\ Shifted(data, s) \in Nat
         /\ Ones(data, s) = {i \in 0..(s.length - 1) : Bit(Shifted(data, s), i) = 1}
<1> DEFINE x == Shifted(data, s)
<1>1. PICK a \in Nat, len \in Nat : a = s.start /\ len = s.length
  OBVIOUS
<1>2. PICK below \in 0..7 : below = s.start % 8
  OBVIOUS
<1>3. x = Whole(data, s.start \div 8, s.length \div 8 + 2, s.order) \div 2^below
  BY <1>2 DEF Shifted
<1>4. PICK base \in Nat, bytes \in Nat : base = a \div 8 /\ bytes = len \div 8 + 2
  OBVIOUS
<1>5. base = s.start \div 8 /\ bytes = s.length \div 8 + 2
  BY <1>1, <1>4
<1>6. x = Whole(data, base, bytes, s.order) \div 2^below
  <2> HIDE DEF x
  <2> QED
    BY <1>3, <1>5
<1>7. x \in Nat
  <2> HIDE DEF x
  <2> QED
    BY <1>6, ShiftedBits
<1>8. ASSUME NEW i \in 0..(len - 1)
      PROVE  IsSet(data, (s.start + i) \div 8, (s.start + i) % 8) <=> Bit(x, i) = 1
  <2>1. PICK k \in Nat, e \in Nat : k = (a + i) \div 8 /\ e = (a + i) % 8
    OBVIOUS
  <2>2. IsSet(data, k, e) <=> Bit(ByteAt(data, k), e) = 1
    BY ByteFacts
  <2>3. below + i < 8 * (len \div 8 + 2) /\ i \in Nat
    <3>1. len <= 8 * (len \div 8) + 7 /\ below <= 7 /\ i < len
      OBVIOUS
    <3> QED
      BY <3>1
  <2>4. (a \div 8) + ((below + i) \div 8) = k /\ (below + i) % 8 = e
    <3>1. below = a % 8
      BY <1>1, <1>2
    <3> QED
      BY <2>1, <3>1
  <2>5. Ranked(base, bytes, s.order, (below + i) \div 8) = k
    BY <1>4, <2>4 DEF Ranked
  <2> HIDE DEF x
  <2>6. Bit(x, i) = BitOfBytes(data, base, bytes, s.order, below + i)
    BY <1>4, <1>6, <2>3, ShiftedBits
  <2>7. Bit(x, i) = Bit(ByteAt(data, k), e)
    BY <2>4, <2>5, <2>6 DEF BitOfBytes
  <2> QED
    BY <1>1, <2>1, <2>2, <2>7
<1>9. Ones(data, s)
        = {i \in 0..(s.length - 1) : IsSet(data, (s.start + i) \div 8, (s.start + i) % 8)}
  BY DEF Ones
<1> QED
  <2> HIDE DEF x
  <2>1. Ones(data, s) = {i \in 0..(s.length - 1) : Bit(x, i) = 1}
    BY <1>1, <1>8, <1>9
  <2> QED
    BY <1>7, <2>1 DEF x

\* The loop over a big-endian signal finds them, from the highest down.
LEMMA OnesBig ==
  ASSUME NEW data \in Seq(0..255), NEW s, s.start \in Nat, s.length \in Nat,
         s.order = "big"
  PROVE  /\ Shifted(data, s) \in Nat
         /\ Ones(data, s) = {i \in 0..(s.length - 1) : Bit(Shifted(data, s), i) = 1}
<1> DEFINE x == Shifted(data, s)
           p == Walk(s)
<1>1. PICK a \in Nat, len \in Nat : a = s.start /\ len = s.length
  OBVIOUS
<1>2. PICK t \in 0..7 : t = 7 - (s.start % 8)
  OBVIOUS
<1>3. PICK below \in Nat : below = 8 * (s.length \div 8 + 2) - t - s.length
  <2>1. 8 * (s.length \div 8 + 2) - t - s.length \in Nat
    BY <1>1
  <2> QED
    BY <2>1
<1>4. x = Whole(data, s.start \div 8, s.length \div 8 + 2, s.order) \div 2^below
  BY <1>2, <1>3 DEF Shifted
<1>5. PICK base \in Nat, bytes \in Nat : base = a \div 8 /\ bytes = len \div 8 + 2
  OBVIOUS
<1>6. base = s.start \div 8 /\ bytes = s.length \div 8 + 2
  BY <1>1, <1>5
<1>7. x = Whole(data, base, bytes, s.order) \div 2^below
  <2> HIDE DEF x
  <2> QED
    BY <1>4, <1>6
<1>8. x \in Nat
  <2> HIDE DEF x
  <2> QED
    BY <1>7, ShiftedBits
<1>9. ASSUME NEW i \in 0..(len - 1)
      PROVE  IsSet(data, p[i].byte, p[i].bit) <=> Bit(x, s.length - 1 - i) = 1
  <2>1. PICK k \in Nat, e \in Nat : k = (a \div 8) + ((t + i) \div 8) /\ e = 7 - ((t + i) % 8)
    OBVIOUS
  <2>2. p[i] = [byte |-> k, bit |-> e]
    <3>1. i \in Nat /\ i <= s.length
      BY <1>1
    <3>2. Walk(s)[i] = Standing(s.start, i)
      BY <3>1, WalkFacts
    <3> QED
      BY <1>1, <1>2, <2>1, <3>2 DEF Standing
  <2>3. IsSet(data, k, e) <=> Bit(ByteAt(data, k), e) = 1
    BY ByteFacts
  <2>4. PICK j \in Nat : j = len - 1 - i
    OBVIOUS
  <2>5. below + j = 8 * (len \div 8 + 2) - 1 - (t + i)
    <3>1. below = 8 * (len \div 8 + 2) - t - len
      BY <1>1, <1>3
    <3> QED
      BY <2>4, <3>1
  <2>6. below + j < 8 * bytes
    BY <1>5, <2>5
  <2>7. base + bytes - 1 - ((below + j) \div 8) = k /\ (below + j) % 8 = e
    BY <1>5, <2>1, <2>5
  <2>8. Ranked(base, bytes, s.order, (below + j) \div 8) = k
    BY <2>7 DEF Ranked
  <2> HIDE DEF x, p
  <2>9. Bit(x, j) = BitOfBytes(data, base, bytes, s.order, below + j)
    BY <1>7, <2>6, ShiftedBits
  <2>10. Bit(x, j) = Bit(ByteAt(data, k), e)
    BY <2>7, <2>8, <2>9 DEF BitOfBytes
  <2> QED
    BY <1>1, <2>2, <2>3, <2>4, <2>10
<1>10. Ones(data, s)
        = {s.length - 1 - i : i \in {i \in 0..(s.length - 1) : IsSet(data, p[i].byte, p[i].bit)}}
  BY DEF Ones
<1> HIDE DEF x, p
<1>11. ASSUME NEW j \in Ones(data, s) PROVE j \in 0..(s.length - 1) /\ Bit(x, j) = 1
  BY <1>1, <1>9, <1>10, <1>11
<1>12. ASSUME NEW j \in 0..(s.length - 1), Bit(x, j) = 1 PROVE j \in Ones(data, s)
  <2>1. PICK i \in 0..(len - 1) : i = len - 1 - j /\ j = len - 1 - i
    <3>1. j \in 0..(len - 1)
      BY <1>1
    <3>2. len - 1 - j \in 0..(len - 1) /\ j = len - 1 - (len - 1 - j)
      BY <3>1
    <3> QED
      BY <3>2
  <2>2. IsSet(data, p[i].byte, p[i].bit)
    BY <1>1, <1>9, <1>12, <2>1
  <2> QED
    BY <1>1, <1>10, <2>1, <2>2
<1> QED
  <2>1. Ones(data, s) = {i \in 0..(s.length - 1) : Bit(x, i) = 1}
    BY <1>11, <1>12
  <2> QED
    BY <1>8, <2>1 DEF x

\* extract_raw collects the bits of the field.
LEMMA OnesMakeField ==
  ASSUME NEW data \in Seq(0..255), NEW s, s.start \in Nat, s.length \in Nat,
         s.order \in {"little", "big"}
  PROVE  /\ \A i \in Ones(data, s) : i \in 0..(s.length - 1)
         /\ Number(Ones(data, s)) = Field(data, s)
         /\ Field(data, s) \in Nat /\ Field(data, s) < 2^s.length
<1>1. PICK x \in Nat : x = Shifted(data, s)
                       /\ Ones(data, s) = {i \in 0..(s.length - 1) : Bit(x, i) = 1}
  <2>1. CASE s.order = "little"
    BY <2>1, OnesLittle
  <2>2. CASE s.order = "big"
    BY <2>2, OnesBig
  <2> QED
    BY <2>1, <2>2
<1>2. PICK m \in Nat : m = s.length
  OBVIOUS
<1>3. Number(Ones(data, s)) = x % 2^m
  BY <1>1, <1>2, NumberOfBits
<1>4. Field(data, s) = x % 2^m
  BY <1>1, <1>2 DEF Field, Shifted
<1>5. x % 2^m \in Nat /\ x % 2^m < 2^m
  <2>1. PICK p \in Int : p = 2^m /\ p > 0
    BY TwoTimes
  <2>2. x % p \in Int /\ x % p >= 0 /\ x % p < p
    BY <2>1, Division
  <2> QED
    BY <2>1, <2>2
<1> QED
  BY <1>1, <1>2, <1>3, <1>4, <1>5

---------------------------------------------------------------------------
(* From the field to the number.                                           *)

\* Powers of two grow with the exponent.
LEMMA PowersGrow ==
  ASSUME NEW m \in Nat, NEW n \in Nat, m <= n
  PROVE  2^m <= 2^n
<1>1. PICK d \in Nat : n = m + d
  <2>1. n - m \in Nat /\ n = m + (n - m)
    OBVIOUS
  <2> QED
    BY <2>1
<1>2. PICK p \in Nat : p = 2^m
  BY TwoTimes
<1>3. PICK q \in Nat : q = 2^d /\ q > 0
  BY TwoTimes
<1>4. 2^n = p * q
  BY <1>1, <1>2, <1>3, TwoToTheSum
<1>5. p <= p * q
  BY <1>3
<1> QED
  BY <1>2, <1>4, <1>5

\* A signal that fits a word loses nothing in it.
LEMMA RawIsField ==
  ASSUME NEW data \in Seq(0..255), NEW s, s.start \in Nat, s.length \in Nat,
         s.order \in {"little", "big"}, s.length <= WordSize, WordSize \in Nat \ {0}
  PROVE  ExtractRaw(data, s) = {Field(data, s)} /\ Field(data, s) # Overflow
<1>1. PICK ones : ones = Ones(data, s) /\ \A i \in ones : i \in 0..(s.length - 1)
  BY OnesMakeField
<1>2. \A i \in ones : i % WordSize = i /\ i \in 0..(WordSize - 1)
  <2>1. PICK len \in Nat, w \in Nat : len = s.length /\ w = WordSize /\ len <= w /\ w > 0
    OBVIOUS
  <2>2. \A i \in 0..(len - 1) : i % w = i /\ i \in 0..(w - 1)
    BY <2>1
  <2> QED
    BY <1>1, <2>1, <2>2
<1>3. {i % WordSize : i \in ones} = ones /\ ones \subseteq 0..(WordSize - 1)
  BY <1>2
<1>4. ExtractRaw(data, s) = {Number(ones)}
  <2>1. ExtractRaw(data, s)
          = {Number({i % WordSize : i \in ones})}
              \union (IF ones \subseteq 0..(WordSize - 1) THEN {} ELSE {Overflow})
    BY <1>1 DEF ExtractRaw
  <2> QED
    BY <1>3, <2>1
<1>5. PICK n \in Nat, p \in Nat, q \in Nat :
        n = Field(data, s) /\ p = 2^s.length /\ q = 2^(WordSize + 1) /\ n < p /\ p <= q
  BY OnesMakeField, TwoTimes, PowersGrow
<1> QED
  BY <1>1, <1>4, <1>5, OnesMakeField DEF Overflow

\* Sign extension of a signal shorter than a word is the two's complement.
LEMMA ExtendedIsMeaning ==
  ASSUME NEW len \in Nat, 1 <= len, len < WordSize, WordSize \in Nat \ {0},
         NEW n \in Nat, n < 2^len, NEW v \in SignExtended(n, len)
  PROVE  \/ v = IF n >= 2^(len - 1) THEN n - 2^len ELSE n
         \/ len = WordSize - 1 /\ v = Overflow
<1>1. PICK k \in Nat : k = len - 1 /\ len = k + 1
  <2>1. len - 1 \in Nat /\ len = (len - 1) + 1
    OBVIOUS
  <2> QED
    BY <2>1
<1>2. PICK w \in Nat : w = WordSize - 1 /\ WordSize = w + 1
  <2>1. WordSize - 1 \in Nat /\ WordSize = (WordSize - 1) + 1
    OBVIOUS
  <2> QED
    BY <2>1
<1>3. PICK p \in Int : p = 2^k /\ p > 0 /\ 2^len = 2 * p
  BY <1>1, TwoTimes
<1>4. PICK h \in Int : h = 2^w /\ h > 0 /\ 2^WordSize = 2 * h
  BY <1>2, TwoTimes
<1>5. 2 * p <= h
  <2>1. len <= w
    BY <1>2
  <2> QED
    BY <1>3, <1>4, <2>1, PowersGrow
<1>6. (len - 1) % WordSize = k /\ len % WordSize = len
  BY <1>1
<1> DEFINE negative == (n \div p) % 2 = 1
<1>7. negative <=> n >= p
  <2>1. CASE n < p
    <3>1. n = p * 0 + n /\ 0 <= n
      OBVIOUS
    <3>2. n \div p = 0
      BY <1>3, <2>1, <3>1, DivisionUnique
    <3> QED
      BY <2>1, <3>2
  <2>2. CASE n >= p
    <3>1. n = p * 1 + (n - p) /\ 0 <= n - p /\ n - p < p /\ n - p \in Int
      BY <1>3, <2>2
    <3>2. n \div p = 1
      BY <1>3, <3>1, DivisionUnique
    <3>3. 1 % 2 = 1
      OBVIOUS
    <3> QED
      BY <2>2, <3>2, <3>3
  <2> QED
    BY <1>3, <2>1, <2>2
<1> DEFINE m == IF n >= p THEN n - 2 * p ELSE n
<1>8. AsSigned(m) = m
  <2>1. m \in Int /\ 0 <= m + h /\ m + h < 2 * h
    BY <1>3, <1>4, <1>5
  <2> HIDE DEF m
  <2>2. m + h = (2 * h) * 0 + (m + h)
    BY <2>1
  <2>3. (m + h) % (2 * h) = m + h
    BY <1>4, <2>1, <2>2, DivisionUnique
  <2> QED
    BY <1>2, <1>4, <2>1, <2>3 DEF AsSigned
<1>9. SignExtended(n, len)
        = {AsSigned(m)} \union
          (IF len \in 1..(IF n >= p THEN WordSize - 2 ELSE WordSize) THEN {} ELSE {Overflow})
  <2>1. SignExtended(n, len)
          = {AsSigned(IF negative THEN n - 2^len ELSE n)} \union
            (IF len \in 1..(IF negative THEN WordSize - 2 ELSE WordSize) THEN {}
             ELSE {Overflow})
    BY <1>3, <1>6 DEF SignExtended
  <2> HIDE DEF negative
  <2> QED
    BY <1>3, <1>7, <2>1
<1>10. v = m \/ (v = Overflow /\ len = WordSize - 1)
  <2> HIDE DEF m
  <2> QED
    BY <1>8, <1>9
<1> QED
  BY <1>1, <1>3, <1>10

\* decode_signal makes of the bits of the frame the integer that they mean.
LEMMA RawMeaning ==
  ASSUME NEW data \in Seq(0..255), NEW s, s.start \in Nat, s.length \in Nat,
         s.order \in {"little", "big"}, s.signed \in BOOLEAN, WordSize \in Nat \ {0},
         s.length \in IF s.signed THEN 1..(WordSize - 1) ELSE 0..WordSize,
         NEW v \in RawValue(data, s)
  PROVE  \/ v = Meaning(data, s)
         \/ s.signed /\ s.length = WordSize - 1 /\ v = Overflow
<1>1. PICK n \in Nat : n = Field(data, s) /\ n < 2^s.length
  BY OnesMakeField
<1>2. s.length <= WordSize
  OBVIOUS
<1>3. ExtractRaw(data, s) = {n} /\ n # Overflow
  BY <1>1, <1>2, RawIsField
<1>4. v \in IF s.signed THEN SignExtended(n, s.length) ELSE {n}
  BY <1>3 DEF RawValue
<1>5. CASE s.signed
  <2>1. PICK len \in Nat : len = s.length /\ 1 <= len /\ len < WordSize
    BY <1>5
  <2>2. v \in SignExtended(n, len)
    BY <1>4, <1>5, <2>1
  <2>3. \/ v = IF n >= 2^(len - 1) THEN n - 2^len ELSE n
        \/ len = WordSize - 1 /\ v = Overflow
    BY <1>1, <2>1, <2>2, ExtendedIsMeaning
  <2> QED
    BY <1>1, <1>5, <2>1, <2>3 DEF Meaning
<1>6. CASE ~s.signed
  BY <1>1, <1>4, <1>6 DEF Meaning
<1> QED
  BY <1>5, <1>6

\* The unit of a number above 2^MantissaBits is small beside it.
LEMMA UnitFacts ==
  ASSUME NEW m \in Nat, m <= 2^WordSize, WordSize \in Nat \ {0},
         MantissaBits \in Nat \ {0}, NEW p \in Nat, p = 2^MantissaBits
  PROVE  /\ Unit(m) \in Nat /\ Unit(m) >= 1
         /\ Unit(m) = 1 \/ Unit(m) * p <= 2 * m
<1> DEFINE K == {k \in 0..WordSize : m < 2^(MantissaBits + k)}
<1>1. p >= 2
  <2>1. PICK b \in Nat : b = MantissaBits - 1 /\ MantissaBits = b + 1
    <3>1. MantissaBits - 1 \in Nat /\ MantissaBits = (MantissaBits - 1) + 1
      OBVIOUS
    <3> QED
      BY <3>1
  <2>2. PICK a \in Nat : a = 2^b /\ a >= 1
    BY TwoTimes
  <2>3. 2^MantissaBits = 2 * a
    BY <2>1, <2>2, TwoTimes
  <2> QED
    BY <2>2, <2>3
<1>2. WordSize \in K
  <2>1. PICK w \in Nat : w = 2^WordSize /\ w >= 1
    BY TwoTimes
  <2>2. 2^(MantissaBits + WordSize) = p * w
    BY <2>1, TwoToTheSum
  <2>3. p * w > w
    BY <1>1, <2>1
  <2>4. m < 2^(MantissaBits + WordSize)
    BY <2>1, <2>2, <2>3
  <2> QED
    BY <2>4
<1>3. K \in SUBSET Nat
  OBVIOUS
<1> HIDE DEF K
<1>4. PICK k \in K : Min(K) = k /\ \A j \in K : k <= j
  <2>1. \E x \in K : \A y \in K : x <= y
    BY <1>2, <1>3, LeastNatural
  <2> QED
    BY <2>1 DEF Min
<1>5. k \in Nat /\ k <= WordSize
  BY <1>4 DEF K
<1>6. PICK u \in Nat : u = 2^k /\ u >= 1
  BY <1>5, TwoTimes
<1>7. Unit(m) = u
  BY <1>4, <1>6 DEF Unit, K
<1>8. ASSUME k # 0 PROVE u * p <= 2 * m
  <2>1. PICK j \in Nat : j = k - 1 /\ k = j + 1
    <3>1. k - 1 \in Nat /\ k = (k - 1) + 1
      BY <1>5, <1>8
    <3> QED
      BY <3>1
  <2>2. j \notin K
    BY <1>4, <1>5, <2>1
  <2>3. j \in 0..WordSize
    BY <1>5, <2>1
  <2>4. PICK h \in Nat : h = 2^j
    BY TwoTimes
  <2>5. 2^(MantissaBits + j) = p * h
    BY <2>4, TwoToTheSum
  <2>6. ~(m < p * h)
    BY <2>2, <2>3, <2>5 DEF K
  <2>7. u = 2 * h
    BY <1>6, <2>1, <2>4, TwoTimes
  <2>8. u * p = 2 * (p * h) /\ p * h \in Nat
    BY <1>1, <2>4, <2>7
  <2> QED
    BY <2>6, <2>8
<1>9. k = 0 => u = 1
  BY <1>6
<1> QED
  BY <1>1, <1>7, <1>6, <1>8, <1>9

\* The nearest multiple is at most half a unit away.
LEMMA NearestClose ==
  ASSUME NEW m \in Nat, NEW u \in Nat, u >= 1, NEW p \in Nat, u = 1 \/ u * p <= 2 * m
  PROVE  Nearest(m, u) \in Int /\ Size(Nearest(m, u) - m) * p <= m
<1>1. PICK q \in Int, r \in Int : /\ q = m \div u /\ r = m % u
                                /\ r >= 0 /\ r < u /\ m = u * q + r
  BY Division
<1>2. PICK t \in Int : t = u * q
  OBVIOUS
<1>3. u * (q + 1) = t + u
  BY <1>2
<1>4. \/ Nearest(m, u) = t + u /\ 2 * r >= u
      \/ Nearest(m, u) = t /\ 2 * r <= u
  <2>1. q \in Int /\ q + 1 \in Int
    OBVIOUS
  <2>2. Nearest(m, u) = u * (IF 2 * r > u \/ (2 * r = u /\ q % 2 = 1)
                             THEN q + 1 ELSE q)
    BY <1>1, Zenon DEF Nearest
  <2>3. CASE 2 * r > u \/ (2 * r = u /\ q % 2 = 1)
    <3>1. Nearest(m, u) = u * (q + 1)
      BY <2>2, <2>3, Zenon
    <3>2. 2 * r >= u
      BY <1>1, <2>3
    <3> QED
      BY <1>3, <3>1, <3>2
  <2>4. CASE ~(2 * r > u \/ (2 * r = u /\ q % 2 = 1))
    <3>1. Nearest(m, u) = u * q
      BY <2>2, <2>4, Zenon
    <3>2. 2 * r <= u
      BY <1>1, <2>4
    <3> QED
      BY <1>2, <3>1, <3>2
  <2> QED
    BY <2>3, <2>4
<1>5. PICK x \in Nat : x = Size(Nearest(m, u) - m) /\ 2 * x <= u
  <2>1. m = t + r
    BY <1>1, <1>2
  <2>2. PICK e \in Int : e = Nearest(m, u) - m /\ 2 * e <= u /\ -u <= 2 * e
    <3>1. CASE Nearest(m, u) = t + u /\ 2 * r >= u
      <4>1. Nearest(m, u) - m = u - r
        BY <2>1, <3>1
      <4> QED
        BY <1>1, <3>1, <4>1
    <3>2. CASE Nearest(m, u) = t /\ 2 * r <= u
      <4>1. Nearest(m, u) - m = -r
        BY <2>1, <3>2
      <4> QED
        BY <1>1, <3>2, <4>1
    <3> QED
      BY <1>4, <3>1, <3>2
  <2>3. Size(e) \in Nat /\ 2 * Size(e) <= u
    BY <2>2 DEF Size
  <2> QED
    BY <2>2, <2>3
<1>6. x * p <= m
  <2>1. CASE u = 1
    <3>1. x = 0
      BY <1>5, <2>1
    <3> QED
      BY <3>1
  <2>2. CASE u * p <= 2 * m
    <3>1. (2 * x) * p <= u * p
      BY <1>5
    <3>2. (2 * x) * p = 2 * (x * p) /\ x * p \in Nat /\ u * p \in Nat
      OBVIOUS
    <3> QED
      BY <2>2, <3>1, <3>2
  <2> QED
    BY <2>1, <2>2
<1> QED
  BY <1>2, <1>4, <1>5, <1>6

\* An integer as a double is off by one part in 2^MantissaBits at most.
LEMMA DoubleClose ==
  ASSUME NEW n \in Int, Size(n) <= 2^WordSize, WordSize \in Nat \ {0},
         MantissaBits \in Nat \ {0}
  PROVE  Size(AsDouble(n) - n) * 2^MantissaBits <= Size(n)
<1>1. PICK m \in Nat : m = Size(n) /\ m <= 2^WordSize
  <2>1. Size(n) \in Nat
    BY DEF Size
  <2> QED
    BY <2>1
<1>2. PICK p \in Nat : p = 2^MantissaBits
  BY TwoTimes
<1>3. PICK u \in Nat : u = Unit(m) /\ u >= 1 /\ (u = 1 \/ u * p <= 2 * m)
  <2>1. /\ Unit(m) \in Nat /\ Unit(m) >= 1
        /\ Unit(m) = 1 \/ Unit(m) * p <= 2 * m
    BY <1>1, <1>2, UnitFacts, Zenon
  <2> QED
    BY <2>1, Zenon
<1>4. PICK d \in Int : d = Nearest(m, u) /\ Size(d - m) * p <= m
  <2>1. Nearest(m, u) \in Int /\ Size(Nearest(m, u) - m) * p <= m
    BY <1>3, NearestClose, Zenon
  <2> QED
    BY <2>1, Zenon
<1>5. AsDouble(n) = IF n < 0 THEN -d ELSE d
  <2>1. d = Nearest(Size(n), Unit(Size(n)))
    <3>1. m = Size(n) /\ u = Unit(m) /\ d = Nearest(m, u)
      BY <1>1, <1>3, <1>4, Zenon
    <3> QED
      BY <3>1
  <2> QED
    BY <2>1, Zenon DEF AsDouble
<1>6. Size(AsDouble(n) - n) = Size(d - m)
  <2>1. CASE n < 0
    <3>1. AsDouble(n) - n = m - d /\ m - d \in Int
      BY <1>1, <1>5, <2>1 DEF Size
    <3>2. Size(m - d) = Size(d - m)
      BY DEF Size
    <3> QED
      BY <3>1, <3>2
  <2>2. CASE ~(n < 0)
    BY <1>1, <1>5, <2>2 DEF Size
  <2> QED
    BY <2>1, <2>2
<1>7. Size(AsDouble(n) - n) * p <= Size(n)
  BY <1>1, <1>4, <1>6, Zenon
<1> QED
  BY <1>2, <1>7

\* A meaning fits a word, its sign apart.
LEMMA MeaningFits ==
  ASSUME NEW data \in Seq(0..255), NEW s, s.start \in Nat, s.length \in Nat,
         s.order \in {"little", "big"}, s.signed \in BOOLEAN, WordSize \in Nat \ {0},
         s.length <= WordSize
  PROVE  /\ Meaning(data, s) \in Int /\ Size(Meaning(data, s)) <= 2^WordSize
         /\ Meaning(data, s) # Overflow
<1>1. PICK n \in Nat : n = Field(data, s) /\ n < 2^s.length
  BY OnesMakeField
<1>2. PICK p \in Nat : p = 2^s.length
  BY TwoTimes
<1>3. PICK w \in Nat : w = 2^WordSize /\ w >= 1 /\ p <= w /\ Overflow = 2 * w
  <2>1. 2^WordSize \in Nat \ {0} /\ 2^(WordSize + 1) = 2 * 2^WordSize
    BY TwoTimes
  <2>2. p <= 2^WordSize
    BY <1>2, PowersGrow
  <2> QED
    BY <2>1, <2>2 DEF Overflow
<1>4. Meaning(data, s) = n \/ Meaning(data, s) = n - p
  BY <1>1, <1>2 DEF Meaning
<1> QED
  BY <1>1, <1>2, <1>3, <1>4 DEF Size

\* decode_signal returns it as a double.
LEMMA SignalMeaning ==
  ASSUME NEW data \in Seq(0..255), NEW s, s.start \in Nat, s.length \in Nat,
         s.order \in {"little", "big"}, s.signed \in BOOLEAN, WordSize \in Nat \ {0},
         MantissaBits \in Nat \ {0},
         s.length \in IF s.signed THEN 1..(WordSize - 1) ELSE 0..WordSize,
         NEW v \in DecodeSignal(data, s)
  PROVE  \/ Size(v - Meaning(data, s)) * 2^MantissaBits <= Size(Meaning(data, s))
         \/ s.signed /\ s.length = WordSize - 1 /\ v = Overflow
<1>1. PICK raw \in RawValue(data, s) :
        v = IF raw = Overflow THEN Overflow ELSE AsDouble(raw)
  BY DEF DecodeSignal
<1>2. \/ raw = Meaning(data, s)
      \/ s.signed /\ s.length = WordSize - 1 /\ raw = Overflow
  BY RawMeaning
<1>3. CASE raw = Overflow /\ s.signed /\ s.length = WordSize - 1
  BY <1>1, <1>3
<1>4. CASE raw = Meaning(data, s)
  <2>1. s.length <= WordSize
    OBVIOUS
  <2>2. raw \in Int /\ Size(raw) <= 2^WordSize /\ raw # Overflow
    BY <1>4, <2>1, MeaningFits
  <2>3. v = AsDouble(raw)
    BY <1>1, <2>2
  <2>4. Size(v - raw) * 2^MantissaBits <= Size(raw)
    BY <2>2, <2>3, DoubleClose
  <2> QED
    BY <1>4, <2>4
<1> QED
  BY <1>2, <1>3, <1>4

---------------------------------------------------------------------------
(* decode() of a parsed text.                                              *)

\* What decode() was asked for and what it returned.
Answered ==
  asked # NoCall =>
    /\ parsed = "ok" /\ asked.data \in Payloads
    /\ asked.id \in DOMAIN db =>
         \A i \in DOMAIN db[asked.id] :
           values[db[asked.id][i].name]
             \in ValueOf(db[asked.id][i].name, asked.data, db[asked.id])

\* decode() answers for every signal of the message.
LEMMA DecodeAnswers ==
  ASSUME NEW id \in Ids, NEW data \in Payloads, Decode(id, data)
  PROVE  Answered'
<1>1. /\ parsed' = "ok" /\ asked' = [id |-> id, data |-> data] /\ db' = db
      /\ asked'.id = id /\ asked'.data = data
  BY DEF Decode
<1>2. ASSUME id \in DOMAIN db, NEW i \in DOMAIN db[id]
      PROVE  values'[db[id][i].name] \in ValueOf(db[id][i].name, data, db[id])
  <2>1. PICK q : q = db[id]
    OBVIOUS
  <2> DEFINE names == {s.name : s \in Range(q)}
  <2>2. q[i].name \in names
    BY <1>2, <2>1 DEF Range
  <2>3. \A n \in names : values'[n] \in ValueOf(n, data, q)
    BY <1>2, <2>1 DEF Decode
  <2> HIDE DEF names
  <2> QED
    BY <2>1, <2>2, <2>3
<1>3. id \in DOMAIN db => \A i \in DOMAIN db'[asked'.id] :
        (values[db[asked.id][i].name]
           \in ValueOf(db[asked.id][i].name, asked.data, db[asked.id]))'
  <2>1. db'[asked'.id] = db[id] /\ asked'.data = data
    BY <1>1
  <2> QED
    BY <1>2, <2>1
<1> QED
  BY <1>1, <1>3 DEF Answered

\* Nothing changes the answer, and while the text is read there is none.
LEMMA AnsweredNext == Answered /\ [DbcNext]_dbcVars => Answered'
<1> SUFFICES ASSUME Answered, [DbcNext]_dbcVars PROVE Answered'
  OBVIOUS
<1>1. ASSUME parsed = "reading", UNCHANGED <<asked, values>> PROVE Answered'
  <2>1. asked' = NoCall
    BY <1>1 DEF Answered
  <2>2. NoCall' = NoCall
    BY DEF NoCall
  <2> QED
    BY <2>1, <2>2 DEF Answered
<1>2. ASSUME UNCHANGED dbcVars PROVE Answered'
  BY <1>2 DEF dbcVars, Answered
<1>3. ASSUME OtherLine \/ MessageLine \/ SignalLine \/ SignalLineFails \/ EndOfText
      PROVE  parsed = "reading" /\ UNCHANGED <<asked, values>>
  BY <1>3 DEF OtherLine, MessageLine, SignalLine, SignalLineFails, EndOfText, Reading
<1>4. ASSUME NEW id \in Ids, NEW data \in Payloads, Decode(id, data) PROVE Answered'
  BY <1>4, DecodeAnswers
<1> QED
  BY <1>1, <1>2, <1>3, <1>4 DEF DbcNext

\* The signals of a message are those of lines of the text.
LEMMA SignalFacts ==
  ASSUME DbcInv, parsed = "ok", NEW id \in DOMAIN db, NEW i \in DOMAIN db[id]
  PROVE  /\ \A j \in DOMAIN db[id] : j \in Nat
         /\ db[id][i].start \in Nat /\ db[id][i].length \in Nat
         /\ db[id][i].order \in {"little", "big"} /\ db[id][i].signed \in BOOLEAN
<1>0. DOMAIN text = 1..Len(text) /\ Len(text) \in Nat /\ DbcTypes /\ IsText(text)
  BY DbcTextFacts DEF DbcInv, DbcTypes
<1>1. PICK b \in Ended :
        \E e \in b..Len(text) : IsBlock(text, db[id], b, e) /\ EndsBlock(text, e)
  BY DEF DbcInv, Describes
<1>2. PICK e \in b..Len(text) : IsBlock(text, db[id], b, e)
  BY <1>1
<1>3. b \in Nat /\ b >= 1
  BY <1>0 DEF DbcTypes, Ended, Started
<1> DEFINE q == db[id]
<1>4. /\ DOMAIN q = 1..(e - b)
      /\ \A j \in 1..(e - b) : text[b + j].kind = "signal" /\ q[j] = text[b + j].signal
  BY <1>2 DEF IsBlock
<1> HIDE DEF q
<1>5. PICK k \in DOMAIN text : k = b + i /\ i \in 1..(e - b)
  <2>1. i \in 1..(e - b)
    BY <1>4 DEF q
  <2>2. b + i \in 1..Len(text)
    BY <1>0, <1>3, <2>1
  <2> QED
    BY <1>0, <2>1, <2>2
<1>6. text[k].kind = "signal" /\ q[i] = text[k].signal
  BY <1>4, <1>5
<1>7. q[i] \in [name : {text[k].signal.name}, start : Nat, length : Nat,
               order : {"little", "big"}, signed : BOOLEAN]
  BY <1>0, <1>6 DEF IsText
<1> QED
  BY <1>3, <1>4, <1>7 DEF q

\* The last signal of a name is the one whose value decode() returns.
LEMMA LastOfName ==
  ASSUME NEW q, NEW i \in DOMAIN q, NEW data, \A j \in DOMAIN q : j \in Nat,
         \A j \in DOMAIN q : ~(j > i /\ q[j].name = q[i].name)
  PROVE  ValueOf(q[i].name, data, q) = DecodeSignal(data, q[i])
<1> DEFINE D == {j \in DOMAIN q : q[j].name = q[i].name}
<1>1. i \in D /\ \A j \in D : j \in Nat /\ i >= j
  OBVIOUS
<1>2. ValueOf(q[i].name, data, q) = DecodeSignal(data, q[Max(D)])
  BY DEF ValueOf
<1> HIDE DEF D
<1>3. Max(D) = i
  <2>1. Max(D) \in D /\ \A j \in D : Max(D) >= j
    BY <1>1 DEF Max
  <2> QED
    BY <1>1, <2>1
<1> QED
  BY <1>2, <1>3

\* What is asked of a parsed text is answered by what the frame means.
LEMMA AnswersMeanFrames == DbcInv /\ Answered => SignalsDecoded
<1> SUFFICES ASSUME DbcInv, Answered PROVE SignalsDecoded
  OBVIOUS
<1>1. ASSUME asked # NoCall, asked.id \in DOMAIN db, NEW i \in DOMAIN db[asked.id],
             NEW s, s = db[asked.id][i],
             s.length \in IF s.signed THEN 1..(WordSize - 1) ELSE 0..WordSize,
             \A j \in DOMAIN db[asked.id] : ~(j > i /\ db[asked.id][j].name = s.name)
      PROVE  \/ s.signed /\ s.length = WordSize - 1 /\ values[s.name] = Overflow
             \/ Size(values[s.name] - Meaning(asked.data, s)) * 2^MantissaBits
                  <= Size(Meaning(asked.data, s))
  <2>1. /\ parsed = "ok" /\ asked.data \in Seq(0..255) /\ WordSize \in Nat \ {0}
        /\ MantissaBits \in Nat \ {0}
        /\ values[s.name] \in ValueOf(s.name, asked.data, db[asked.id])
    BY <1>1, DbcAssumption DEF Answered
  <2>2. PICK q : q = db[asked.id]
    OBVIOUS
  <2>3. /\ s.start \in Nat /\ s.length \in Nat /\ s.order \in {"little", "big"}
        /\ s.signed \in BOOLEAN /\ \A j \in DOMAIN q : j \in Nat
    BY <1>1, <2>1, <2>2, SignalFacts
  <2>4. ValueOf(s.name, asked.data, q) = DecodeSignal(asked.data, s)
    BY <1>1, <2>2, <2>3, LastOfName
  <2>5. PICK v : v = values[s.name] /\ v \in DecodeSignal(asked.data, s)
    BY <2>1, <2>2, <2>4
  <2>6. \/ Size(v - Meaning(asked.data, s)) * 2^MantissaBits
             <= Size(Meaning(asked.data, s))
        \/ s.signed /\ s.length = WordSize - 1 /\ v = Overflow
    BY <1>1, <2>1, <2>3, <2>5, SignalMeaning
  <2> QED
    BY <2>5, <2>6
<1>2. BlocksParsed
  BY DbcInvMeans
<1> QED
  BY <1>1, <1>2 DEF SignalsDecoded

\* Whatever the lines of the text and the bytes of the frame: parse() gives a message
\* the signals of its block, and decode() returns for each of them the number that
\* its bits stand for, to the precision of a double, but for the lengths at which its
\* shifts overflow.
THEOREM DbcDecoded == DbcSpec => []SignalsDecoded
<1>1. DbcInit => Answered
  BY DEF DbcInit, Answered
<1> QED
  BY <1>1, DbcInitInv, DbcNextInv, AnsweredNext, AnswersMeanFrames, PTL DEF DbcSpec

---------------------------------------------------------------------------
(* The components together.                                                *)

\* A step of Sequential is a step of one component and a stutter of the others.
LEMMA OneAtATime ==
  [Next]_vars => /\ [LimiterNext]_limiterVars /\ [E2ENext]_e2eVars
                 /\ [CrcNext]_crcVars /\ [RecorderNext]_recorderVars
                 /\ [DbcNext]_dbcVars
<1> SUFFICES ASSUME [Next]_vars
             PROVE  /\ [LimiterNext]_limiterVars /\ [E2ENext]_e2eVars
                    /\ [CrcNext]_crcVars /\ [RecorderNext]_recorderVars
                    /\ [DbcNext]_dbcVars
  OBVIOUS
<1>1. CASE UNCHANGED <<limiterVars, e2eVars, crcVars, recorderVars, dbcVars>>
  BY <1>1
<1>2. CASE LimiterNext /\ UNCHANGED <<e2eVars, crcVars, recorderVars, dbcVars>>
  BY <1>2
<1>3. CASE E2ENext /\ UNCHANGED <<limiterVars, crcVars, recorderVars, dbcVars>>
  BY <1>3
<1>4. CASE CrcNext /\ UNCHANGED <<limiterVars, e2eVars, recorderVars, dbcVars>>
  BY <1>4
<1>5. CASE RecorderNext /\ UNCHANGED <<limiterVars, e2eVars, crcVars, dbcVars>>
  BY <1>5
<1>6. CASE DbcNext /\ UNCHANGED <<limiterVars, e2eVars, crcVars, recorderVars>>
  BY <1>6
<1> QED
  BY <1>1, <1>2, <1>3, <1>4, <1>5, <1>6 DEF Next, vars

LEMMA InitOfEach ==
  Init => LimiterInit /\ E2EInit /\ CrcInit /\ RecorderInit /\ DbcInit
BY DEF Init

\* What the components promise, the behaviours of Sequential keep.
THEOREM SequentialKeeps ==
  Spec => /\ []AtMostTwiceTheLimit /\ RefusalJustified
          /\ []TypeOK /\ []DisorderDetected /\ []AlarmJustified
          /\ []DamageDetected /\ []ReplayFaithful /\ []FrameSurvives
          /\ []SignalsDecoded
<1>1. Spec => LimiterSpec /\ E2ESpec /\ CrcSpec /\ RecorderSpec /\ DbcSpec
  BY InitOfEach, OneAtATime, PTL
     DEF Spec, LimiterSpec, E2ESpec, CrcSpec, RecorderSpec, DbcSpec
<1>2. LimiterSpec => []AtMostTwiceTheLimit /\ RefusalJustified
  BY LimiterTwice, LimiterRefusal
<1>3. E2ESpec => []TypeOK /\ []DisorderDetected /\ []AlarmJustified
  BY E2ETypeOK, E2EDisorderDetected, E2EAlarmJustified
<1>4. CrcSpec => []DamageDetected
  BY CrcDamageDetected
<1>5. RecorderSpec => []ReplayFaithful
  BY RecorderFaithful
<1>6. DbcSpec => []SignalsDecoded
  BY DbcDecoded
<1>7. Spec => []FrameSurvives
  BY FramesSurvive
<1> QED
  BY <1>1, <1>2, <1>3, <1>4, <1>5, <1>6, <1>7
=============================================================================
