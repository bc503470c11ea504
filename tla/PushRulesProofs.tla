--------------------------- MODULE PushRulesProofs ---------------------------
(***************************************************************************)
(* What the operators of PushRules return, for the proofs about the modules *)
(* that push to bounded queues.                                            *)
(***************************************************************************)
EXTENDS PushRules, TLAPS

\* What the front of a queue and the rest of it are.
LEMMA TailFacts ==
  ASSUME NEW S, NEW q \in Seq(S), q # <<>>
  PROVE  /\ Len(q) \in Nat \ {0}
         /\ Head(q) = q[1]
         /\ Head(q) \in S
         /\ Tail(q) \in Seq(S)
         /\ Len(Tail(q)) = Len(q) - 1
         /\ \A i \in 1..(Len(q) - 1) : Tail(q)[i] = q[i + 1]
  OBVIOUS

\* A pushed frame goes to the back; an eviction moves the others up by one.
LEMMA EnqueueFacts ==
  ASSUME NEW S, NEW q \in Seq(S), NEW f \in S, NEW p \in Policies,
         NEW c \in Nat \ {0}
  PROVE  LET e == Enqueue(p, q, c, f)
         IN  /\ e \in Seq(S)
             /\ \/ /\ p = "DropOldest"
                   /\ Len(q) >= c
                   /\ q # <<>>
                   /\ Len(e) = Len(q)
                   /\ \A i \in 1..(Len(q) - 1) : e[i] = q[i + 1]
                \/ /\ p = "DropOldest" => Len(q) < c
                   /\ Len(e) = Len(q) + 1
                   /\ \A i \in 1..Len(q) : e[i] = q[i]
             /\ Len(e) > 0
             /\ e[Len(e)] = f
<1>1. CASE p = "DropOldest" /\ Len(q) >= c
  <2>1. q # <<>>
    BY <1>1
  <2>2. Enqueue(p, q, c, f) = Append(Tail(q), f)
    BY <1>1 DEF Enqueue, IsFull
  <2>. DEFINE r == Tail(q)
  <2>3. /\ r \in Seq(S)
        /\ Len(q) \in Nat \ {0}
        /\ Len(r) = Len(q) - 1
        /\ \A i \in 1..(Len(q) - 1) : r[i] = q[i + 1]
    BY <2>1, TailFacts
  <2>. HIDE DEF r
  <2>4. /\ Append(r, f) \in Seq(S)
        /\ Len(Append(r, f)) = Len(q)
        /\ \A i \in 1..(Len(q) - 1) : Append(r, f)[i] = q[i + 1]
        /\ Append(r, f)[Len(q)] = f
    BY <2>3
  <2>. QED
    BY <1>1, <2>1, <2>2, <2>3, <2>4 DEF r
<1>2. CASE ~(p = "DropOldest" /\ Len(q) >= c)
  <2>1. Enqueue(p, q, c, f) = Append(q, f)
    BY <1>2 DEF Enqueue, IsFull
  <2>. QED
    BY <1>2, <2>1
<1>. QED
  BY <1>1, <1>2

\* The limiter's count stays within the limit.
LEMMA CountAfterType ==
  ASSUME NEW limit \in Nat, NEW count \in 0..limit, NEW expired \in BOOLEAN
  PROVE  CountAfter(limit, count, expired) \in 0..limit
BY DEF CountAfter, Admits, CountInWindow

=============================================================================
