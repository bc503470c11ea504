---------------------------- MODULE AdapterProofs ----------------------------
(***************************************************************************)
(* TypeOK and LossFollowsPolicy of Adapter, and what StreamEnds owes to    *)
(* safety, for queues of every depth and any number of frames.             *)
(*                                                                         *)
(* The argument is about Pipeline, the messages between the producer and   *)
(* the caller in their order.  A step leaves it as it is (a message moves  *)
(* on), puts a new message at its end (Produce), or takes one message out  *)
(* of it.  Whatever is taken out, the rest stays in order and keeps its    *)
(* numbers; while the caller reads, messages are taken out only of a full  *)
(* queue, so that Depth of them remain, and the newest only under          *)
(* DropNewest.  That no more messages are on their way than were numbered  *)
(* is not a matter of counting: message number n is the n-th at most.      *)
(***************************************************************************)
EXTENDS Adapter, PushRulesProofs, SequenceTheorems

---------------------------------------------------------------------------
(* Sequences.                                                              *)

LEMMA OneElement ==
  ASSUME NEW S, NEW x \in S
  PROVE  <<x>> \in Seq(S) /\ Len(<<x>>) = 1 /\ <<x>>[1] = x
OBVIOUS

LEMMA EmptyIsSeq == ASSUME NEW S PROVE <<>> \in Seq(S)
OBVIOUS

\* A queue is its first element and the rest.
LEMMA HeadThenTail ==
  ASSUME NEW S, NEW q \in Seq(S), q # <<>>
  PROVE  q = <<Head(q)>> \o Tail(q)
<1>1. /\ Head(q) \in S /\ Tail(q) \in Seq(S) /\ Len(q) \in Nat \ {0}
      /\ Len(Tail(q)) = Len(q) - 1 /\ Head(q) = q[1]
      /\ \A i \in 1..(Len(q) - 1) : Tail(q)[i] = q[i + 1]
  BY TailFacts
<1> DEFINE h == <<Head(q)>>  t == Tail(q)  s == h \o t
<1>2. h \in Seq(S) /\ Len(h) = 1 /\ h[1] = q[1]
  BY <1>1, OneElement
<1> HIDE DEF h, t
<1>3. t \in Seq(S) /\ Len(t) = Len(q) - 1
      /\ \A i \in 1..(Len(q) - 1) : t[i] = q[i + 1]
  BY <1>1 DEF t
<1>4. /\ s \in Seq(S) /\ Len(s) = Len(h) + Len(t)
      /\ \A i \in 1..(Len(h) + Len(t)) :
           s[i] = IF i <= Len(h) THEN h[i] ELSE t[i - Len(h)]
  <2>1. h \in Seq(S) /\ t \in Seq(S)
    BY <1>2, <1>3
  <2> QED
    BY <2>1, ConcatProperties
<1>5. Len(s) = Len(q)
  BY <1>1, <1>2, <1>3, <1>4
<1> HIDE DEF s
<1>6. ASSUME NEW i \in 1..Len(q) PROVE s[i] = q[i]
  <2>1. CASE i = 1
    BY <1>1, <1>2, <1>3, <1>4, <2>1
  <2>2. CASE i > 1
    <3>1. s[i] = t[i - 1] /\ i - 1 \in 1..(Len(q) - 1)
      BY <1>1, <1>2, <1>3, <1>4, <2>2
    <3>2. (i - 1) + 1 = i
      BY <2>2
    <3> QED
      BY <1>3, <3>1, <3>2
  <2> QED
    BY <1>1, <2>1, <2>2
<1>7. s = q
  BY <1>4, <1>5, <1>6, SeqEqual
<1> QED
  BY <1>7 DEF s, h, t

---------------------------------------------------------------------------
(* Messages in order.                                                      *)

\* The messages of p are those that the producer gave these numbers, in order,
\* each at its number's place or before it.
Numbered(p, frames) ==
  \A i \in 1..Len(p) :
    /\ p[i].seq < Len(frames) /\ i - 1 <= p[i].seq
    /\ p[i].frame = frames[p[i].seq + 1]

Rising(p) == \A i, j \in 1..Len(p) : i < j => p[i].seq < p[j].seq

\* Messages have numbers.
Messages == [seq : Nat, frame : Nat]

LEMMA SeqOfMessage ==
  ASSUME NEW p \in Seq(Messages), NEW i \in 1..Len(p)
  PROVE  p[i].seq \in Nat /\ p[i].frame \in Nat
<1>1. p[i] \in Messages
  BY ElementOfSeq
<1> QED
  BY <1>1 DEF Messages

\* No more messages than numbers.
LEMMA NoMoreThanNumbered ==
  ASSUME NEW p \in Seq(Messages), NEW frames \in Seq(Nat), Numbered(p, frames)
  PROVE  Len(p) <= Len(frames)
<1>1. Len(p) \in Nat /\ Len(frames) \in Nat
  OBVIOUS
<1>2. CASE Len(p) = 0
  BY <1>1, <1>2
<1>3. CASE Len(p) # 0
  <2>1. Len(p) \in 1..Len(p)
    BY <1>1, <1>3
  <2>2. p[Len(p)].seq \in Nat
    BY <2>1, SeqOfMessage
  <2> QED
    BY <1>1, <2>1, <2>2 DEF Numbered
<1> QED
  BY <1>2, <1>3

\* Taking a message out of a sequence moves those behind it up by one.
LEMMA WithoutOne ==
  ASSUME NEW S, NEW a \in Seq(S), NEW x \in S, NEW b \in Seq(S)
  PROVE  /\ (a \o <<x>>) \o b \in Seq(S) /\ a \o b \in Seq(S)
         /\ Len(a \o b) = Len(a) + Len(b)
         /\ Len((a \o <<x>>) \o b) = Len(a) + Len(b) + 1
         /\ \A i \in 1..Len(a \o b) :
              (a \o b)[i] = ((a \o <<x>>) \o b)[IF i <= Len(a) THEN i ELSE i + 1]
<1> DEFINE c == <<x>>  ac == a \o c
<1>1. c \in Seq(S) /\ Len(c) = 1
  BY OneElement
<1> HIDE DEF c
<1>2. /\ ac \in Seq(S) /\ Len(ac) = Len(a) + 1
      /\ \A i \in 1..Len(a) : ac[i] = a[i]
  <2>1. Len(a) \in Nat
    OBVIOUS
  <2>2. /\ ac \in Seq(S) /\ Len(ac) = Len(a) + Len(c)
        /\ \A i \in 1..(Len(a) + Len(c)) :
             ac[i] = IF i <= Len(a) THEN a[i] ELSE c[i - Len(a)]
    BY <1>1, ConcatProperties
  <2> HIDE DEF ac
  <2> QED
    BY <1>1, <2>1, <2>2
<1> HIDE DEF ac
<1>3. Len(a) \in Nat /\ Len(b) \in Nat
  OBVIOUS
<1>4. ac \o b \in Seq(S) /\ Len(ac \o b) = Len(a) + Len(b) + 1
  BY <1>2, <1>3
<1>5. a \o b \in Seq(S) /\ Len(a \o b) = Len(a) + Len(b)
  OBVIOUS
<1>6. ASSUME NEW i \in 1..Len(a \o b)
      PROVE  (a \o b)[i] = (ac \o b)[IF i <= Len(a) THEN i ELSE i + 1]
  <2>1. CASE i <= Len(a)
    BY <1>2, <1>3, <1>5, <2>1
  <2>2. CASE i > Len(a)
    <3>1. i \in Nat /\ i + 1 > Len(ac) /\ i + 1 <= Len(ac) + Len(b)
      BY <1>2, <1>3, <1>5, <2>2
    <3>2. (a \o b)[i] = b[i - Len(a)]
      BY <1>3, <1>5, <2>2
    <3>3. (ac \o b)[i + 1] = b[(i + 1) - Len(ac)]
      BY <1>2, <1>3, <3>1
    <3>4. (i + 1) - Len(ac) = i - Len(a)
      BY <1>2, <1>3, <3>1
    <3> QED
      BY <1>3, <2>2, <3>2, <3>3, <3>4
  <2>3. i \in Nat /\ Len(a) \in Nat
    BY <1>3, <1>5
  <2>4. i <= Len(a) \/ i > Len(a)
    BY <2>3
  <2> QED
    BY <2>1, <2>2, <2>4
<1> QED
  BY <1>4, <1>5, <1>6 DEF ac, c

LEMMA TakenOut ==
  ASSUME NEW a \in Seq(Messages), NEW x \in Messages, NEW b \in Seq(Messages),
         NEW frames \in Seq(Nat),
         Numbered((a \o <<x>>) \o b, frames), Rising((a \o <<x>>) \o b)
  PROVE  Numbered(a \o b, frames) /\ Rising(a \o b)
<1> DEFINE p == (a \o <<x>>) \o b
           r == a \o b
           k(i) == IF i <= Len(a) THEN i ELSE i + 1
<1>1. /\ p \in Seq(Messages) /\ r \in Seq(Messages)
      /\ Len(r) = Len(a) + Len(b) /\ Len(p) = Len(a) + Len(b) + 1
      /\ \A i \in 1..Len(r) : r[i] = p[k(i)]
  BY WithoutOne
<1>2. Len(a) \in Nat /\ Len(b) \in Nat
  OBVIOUS
<1>3. Numbered(p, frames) /\ Rising(p)
  OBVIOUS
<1> HIDE DEF p, r
<1>4. \A i \in 1..Len(r) : k(i) \in 1..Len(p) /\ i <= k(i)
  BY <1>1, <1>2
<1>5. \A i, j \in 1..Len(r) : i < j => k(i) < k(j)
  BY <1>1, <1>2
<1> HIDE DEF k
<1>6. Numbered(r, frames)
  <2> SUFFICES ASSUME NEW i \in 1..Len(r)
               PROVE  /\ r[i].seq < Len(frames) /\ i - 1 <= r[i].seq
                      /\ r[i].frame = frames[r[i].seq + 1]
    BY DEF Numbered
  <2>1. /\ p[k(i)].seq < Len(frames) /\ k(i) - 1 <= p[k(i)].seq
        /\ p[k(i)].frame = frames[p[k(i)].seq + 1]
    BY <1>3, <1>4 DEF Numbered
  <2>2. p[k(i)].seq \in Nat
    BY <1>1, <1>4, SeqOfMessage
  <2>3. k(i) \in Nat /\ i \in Nat /\ i <= k(i)
    BY <1>1, <1>4
  <2>4. r[i] = p[k(i)]
    BY <1>1
  <2> QED
    BY <2>1, <2>2, <2>3, <2>4
<1>7. Rising(r)
  BY <1>1, <1>3, <1>4, <1>5 DEF Rising
<1> QED
  BY <1>6, <1>7 DEF r

LEMMA LessThanNext == \A k \in Nat, n \in Nat : k < n => k < n + 1
  OBVIOUS

LEMMA PutAtTheEnd ==
  ASSUME NEW a \in Seq(Messages), NEW frames \in Seq(Nat), NEW f \in Nat,
         NEW x \in Messages, x.seq = Len(frames), x.frame = f,
         Numbered(a, frames), Rising(a)
  PROVE  /\ Numbered(a \o <<x>>, Append(frames, f)) /\ Rising(a \o <<x>>)
<1> DEFINE r == a \o <<x>>
           g == Append(frames, f)
<1>1. r = Append(a, x)
  BY AppendIsConcat
<1>2. Len(a) \in Nat /\ Len(frames) \in Nat
  OBVIOUS
<1>3. /\ r \in Seq(Messages) /\ Len(r) = Len(a) + 1 /\ r[Len(a) + 1] = x
      /\ \A i \in 1..Len(a) : r[i] = a[i]
  BY <1>1, AppendProperties
<1>4. /\ g \in Seq(Nat) /\ Len(g) = Len(frames) + 1 /\ g[Len(frames) + 1] = f
      /\ \A i \in 1..Len(frames) : g[i] = frames[i]
  BY AppendProperties
<1> HIDE DEF r, g
<1>5. Len(a) <= Len(frames)
  BY NoMoreThanNumbered
<1>6. Numbered(r, g)
  <2> SUFFICES ASSUME NEW i \in 1..Len(r)
               PROVE  /\ r[i].seq < Len(g) /\ i - 1 <= r[i].seq
                      /\ r[i].frame = g[r[i].seq + 1]
    BY DEF Numbered
  <2>1. CASE i \in 1..Len(a)
    <3>1. r[i] = a[i] /\ a[i].seq \in Nat
      BY <1>3, <2>1, SeqOfMessage
    <3>2. /\ a[i].seq < Len(frames) /\ i - 1 <= a[i].seq
          /\ a[i].frame = frames[a[i].seq + 1]
      BY <2>1 DEF Numbered
    <3>3. a[i].seq + 1 \in 1..Len(frames)
      BY <1>2, <3>1, <3>2
    <3>4. g[a[i].seq + 1] = frames[a[i].seq + 1]
      BY <1>4, <3>3
    <3>5. Len(g) = Len(frames) + 1
      BY <1>4
    <3>6. a[i].seq < Len(g)
      BY <1>2, <3>1, <3>2, <3>5, LessThanNext
    <3> QED
      BY <3>1, <3>2, <3>4, <3>6
  <2>2. CASE i = Len(a) + 1
    <3>1. r[i] = x /\ r[i].seq = Len(frames) /\ r[i].frame = f
      BY <1>3, <2>2
    <3>2. Len(frames) < Len(g) /\ i - 1 <= Len(frames)
      BY <1>2, <1>4, <1>5, <2>2
    <3>3. g[Len(frames) + 1] = f
      BY <1>4
    <3> QED
      BY <3>1, <3>2, <3>3
  <2> QED
    BY <1>2, <1>3, <2>1, <2>2
<1>7. Rising(r)
  <2> SUFFICES ASSUME NEW i \in 1..Len(r), NEW j \in 1..Len(r), i < j
               PROVE  r[i].seq < r[j].seq
    BY DEF Rising
  <2>1. i \in 1..Len(a) /\ r[i] = a[i]
    BY <1>2, <1>3
  <2>2. CASE j \in 1..Len(a)
    BY <1>3, <2>1, <2>2 DEF Rising
  <2>3. CASE j = Len(a) + 1
    BY <1>3, <2>1, <2>3 DEF Numbered
  <2> QED
    BY <1>2, <1>3, <2>2, <2>3
<1> QED
  BY <1>6, <1>7 DEF r, g

---------------------------------------------------------------------------
(* The inductive invariant.                                                *)

ProducerStates ==
  {"unborn", "subscribing", "recv", "check", "final", "listen", "waiting", "push",
   "parked", "closing", "done"}

ForwarderStates ==
  {"unborn", "pop", "check", "final", "listen", "parked", "send", "done"}

QueueTypes ==
  /\ inner \in Seq(1..MaxFrames) /\ Len(inner) <= 2 * Depth
  /\ queue \in Seq(Message) /\ Len(queue) <= Depth
  /\ channel \in Seq(Message) /\ Len(channel) <= 1
  /\ got \in Seq(Message)

FlagTypes ==
  /\ policy \in Policies
  /\ bus \in {"open", "exchanged", "stored", "done"}
  /\ innerClosed \in BOOLEAN /\ innerPermit \in BOOLEAN
  /\ closed \in BOOLEAN
  /\ pushPermit \in BOOLEAN /\ popPermit \in BOOLEAN
  /\ caller \in {"reads", "dropped", "end"}

\* A task holds a message between the step that takes one and the one that puts
\* it on, and at no other time.
TaskTypes ==
  /\ ppc \in ProducerStates /\ fpc \in ForwarderStates
  /\ ~Joined => fpc = "unborn"
  /\ IF ppc \in {"push", "parked"} THEN produced \in Message ELSE produced = NoMsg
  /\ IF fpc = "send" THEN held \in Message ELSE held = NoMsg

\* Every frame has one number, and there are no more numbers than frames.
Counts ==
  /\ arrived \in 0..MaxFrames
  /\ numbered \in Seq(1..MaxFrames)
  /\ seq = Len(numbered) /\ seq + Len(inner) <= arrived

\* What the sequence numbers tell.
InOrder == Numbered(Pipeline, numbered) /\ Rising(Pipeline)

Enough(rule, p, n) ==
  /\ Len(p) >= (IF rule = "Block" \/ n <= Depth THEN n ELSE Depth)
  /\ rule = "DropOldest" /\ n > 0 => p[Len(p)].seq = n - 1

NoUndueLoss == caller = "reads" => Enough(policy, Pipeline, seq)

AdapterInv == QueueTypes /\ FlagTypes /\ TaskTypes /\ Counts /\ InOrder /\ NoUndueLoss

---------------------------------------------------------------------------
(* Types.                                                                  *)

LEMMA MessageFacts ==
  /\ Message \subseteq Messages
  /\ NoMsg \notin Message
  /\ \A s \in 0..(MaxFrames - 1), f \in 1..MaxFrames :
       [seq |-> s, frame |-> f] \in Message
<1>1. MaxFrames \in Nat /\ NoMsg \notin Messages
  BY AdapterAssumption DEF Messages
<1>2. Message \subseteq Messages
  BY <1>1 DEF Message, Messages
<1>3. \A s \in 0..(MaxFrames - 1), f \in 1..MaxFrames :
        [seq |-> s, frame |-> f] \in Message
  BY DEF Message
<1> QED
  BY <1>1, <1>2, <1>3

LEMMA AdapterInvTypeOK == AdapterInv => TypeOK
<1> SUFFICES ASSUME AdapterInv PROVE TypeOK
  OBVIOUS
<1> USE DEF AdapterInv
<1>1. seq \in 0..MaxFrames
  <2>1. Len(inner) \in Nat /\ Len(numbered) \in Nat /\ MaxFrames \in Nat
    BY AdapterAssumption DEF QueueTypes, Counts
  <2> QED
    BY <2>1 DEF Counts
<1>2. produced \in Message \union {NoMsg} /\ held \in Message \union {NoMsg}
  BY DEF TaskTypes
<1> QED
  BY <1>1, <1>2
     DEF TypeOK, QueueTypes, FlagTypes, TaskTypes, Counts, ProducerStates,
         ForwarderStates

\* The parts of the pipeline.
FrontPart == (got \o channel) \o Maybe(held)

LEMMA PipelineParts ==
  ASSUME AdapterInv
  PROVE  /\ got \in Seq(Messages) /\ channel \in Seq(Messages)
         /\ Maybe(held) \in Seq(Messages) /\ queue \in Seq(Messages)
         /\ Maybe(produced) \in Seq(Messages)
         /\ FrontPart \in Seq(Messages) /\ Pipeline = (FrontPart \o queue) \o Maybe(produced)
         /\ Pipeline \in Seq(Messages) /\ numbered \in Seq(Nat)
<1> USE DEF AdapterInv
<1>1. Message \subseteq Messages
  BY MessageFacts
<1>2. got \in Seq(Messages) /\ channel \in Seq(Messages) /\ queue \in Seq(Messages)
  BY <1>1, SeqMonotonic DEF QueueTypes
<1>3. Maybe(held) \in Seq(Messages)
  BY <1>1, OneElement, EmptyIsSeq DEF TaskTypes, Maybe
<1>4. Maybe(produced) \in Seq(Messages)
  BY <1>1, OneElement, EmptyIsSeq DEF TaskTypes, Maybe
<1>5. got \o channel \in Seq(Messages)
  BY <1>2, ConcatProperties
<1>6. FrontPart \in Seq(Messages)
  BY <1>3, <1>5, ConcatProperties DEF FrontPart
<1>7. FrontPart \o queue \in Seq(Messages)
  BY <1>2, <1>6, ConcatProperties
<1>8. Pipeline = (FrontPart \o queue) \o Maybe(produced)
  BY DEF Pipeline, FrontPart
<1>9. Pipeline \in Seq(Messages)
  BY <1>4, <1>7, <1>8, ConcatProperties
<1>10. numbered \in Seq(Nat)
  <2>1. 1..MaxFrames \subseteq Nat
    OBVIOUS
  <2> QED
    BY <2>1, SeqMonotonic DEF Counts
<1> QED
  BY <1>2, <1>3, <1>4, <1>6, <1>8, <1>9, <1>10

LEMMA AdapterInitInv == Init => AdapterInv
<1> SUFFICES ASSUME Init PROVE AdapterInv
  OBVIOUS
<1>1. Pipeline = <<>>
  <2>1. Maybe(held) = <<>> /\ Maybe(produced) = <<>>
    BY DEF Init, Maybe
  <2>2. <<>> \o <<>> = <<>>
    BY EmptyIsSeq, ConcatEmptySeq
  <2> QED
    BY <2>1, <2>2 DEF Init, Pipeline
<1>2. Len(<<>>) = 0
  OBVIOUS
<1>3. Depth \in Nat /\ Depth > 0 /\ MaxFrames \in Nat
  BY AdapterAssumption
<1>4. QueueTypes /\ Counts
  BY <1>2, <1>3, EmptyIsSeq DEF Init, QueueTypes, Counts
<1>5. FlagTypes /\ TaskTypes
  BY DEF Init, FlagTypes, TaskTypes, ProducerStates, ForwarderStates
<1>6. InOrder
  BY <1>1, <1>2 DEF InOrder, Numbered, Rising
<1>7. NoUndueLoss
  BY <1>1, <1>2, <1>3 DEF Init, NoUndueLoss, Enough
<1> QED
  BY <1>4, <1>5, <1>6, <1>7 DEF AdapterInv

---------------------------------------------------------------------------
(* The steps.                                                              *)

\* The pipeline does not change: neither do its order and its losses.
LEMMA PipelineStays ==
  ASSUME AdapterInv, Pipeline' = Pipeline,
         UNCHANGED <<policy, seq, numbered>>, caller' = "reads" => caller = "reads"
  PROVE  (InOrder /\ NoUndueLoss)'
BY DEF AdapterInv, InOrder, NoUndueLoss, Enough

\* What a step that leaves the queues of messages alone leaves of the pipeline.
LEMMA SamePipeline ==
  ASSUME UNCHANGED <<got, channel, held, queue, produced>>
  PROVE  Pipeline' = Pipeline
BY DEF Pipeline, Maybe

LEMMA SubscribeInv == AdapterInv /\ (SubscribeCheck \/ SubscribeJoin) => AdapterInv'
<1> SUFFICES ASSUME AdapterInv, SubscribeCheck \/ SubscribeJoin PROVE AdapterInv'
  OBVIOUS
<1> USE DEF AdapterInv
<1>1. UNCHANGED <<policy, bus, innerVars, seq, queueVars, produced, held, channel,
                  callerVars, numbered>>
  BY DEF SubscribeCheck, SubscribeJoin
<1>2. /\ QueueTypes' /\ FlagTypes' /\ Counts'
  BY <1>1 DEF QueueTypes, FlagTypes, Counts, innerVars, queueVars, callerVars
<1>3. TaskTypes'
  BY DEF SubscribeCheck, SubscribeJoin, TaskTypes, ProducerStates, ForwarderStates,
         Joined
<1>4. (InOrder /\ NoUndueLoss)'
  BY <1>1, SamePipeline, PipelineStays DEF queueVars, callerVars
<1> QED
  BY <1>2, <1>3, <1>4

LEMMA CloseInv == AdapterInv /\ (CloseExchange \/ CloseStep) => AdapterInv'
<1> SUFFICES ASSUME AdapterInv, CloseExchange \/ CloseSub \/ WakeProducer
             PROVE  AdapterInv'
  BY DEF CloseStep
<1> USE DEF AdapterInv
<1>1. UNCHANGED <<policy, inner, arrived, seq, queueVars, produced, fpc, held, channel,
                  callerVars, numbered>>
  BY DEF CloseExchange, CloseSub, WakeProducer, innerVars
<1>2. QueueTypes' /\ Counts'
  BY <1>1 DEF QueueTypes, Counts, queueVars, callerVars
<1>3. FlagTypes'
  BY DEF CloseExchange, CloseSub, WakeProducer, Joined, FlagTypes, innerVars,
         queueVars, callerVars
<1>4. TaskTypes'
  BY DEF CloseExchange, CloseSub, WakeProducer, Joined, TaskTypes, ProducerStates,
         ForwarderStates
<1>5. (InOrder /\ NoUndueLoss)'
  BY <1>1, SamePipeline, PipelineStays DEF queueVars, callerVars
<1> QED
  BY <1>2, <1>3, <1>4, <1>5

LEMMA FrameArrivesInv == AdapterInv /\ FrameArrives => AdapterInv'
<1> SUFFICES ASSUME AdapterInv, FrameArrives PROVE AdapterInv'
  OBVIOUS
<1> USE DEF AdapterInv
<1>1. /\ Depth \in Nat /\ Depth > 0 /\ MaxFrames \in Nat
      /\ arrived \in Nat /\ arrived < MaxFrames /\ Len(inner) \in Nat
      /\ inner \in Seq(1..MaxFrames) /\ Len(inner) <= 2 * Depth
  BY AdapterAssumption DEF FrameArrives, QueueTypes, Counts
<1>2. /\ inner' \in Seq(1..MaxFrames) /\ Len(inner') <= 2 * Depth
      /\ Len(inner') <= Len(inner) + 1
  <2>1. CASE Accepts("DropNewest", inner, 2 * Depth)
    <3>1. Len(inner) < 2 * Depth
      BY <1>1, <2>1 DEF Accepts, IsFull
    <3>2. inner' = Append(inner, arrived + 1)
      BY <2>1 DEF FrameArrives, Enqueue
    <3>3. arrived + 1 \in 1..MaxFrames
      BY <1>1
    <3>4. inner' \in Seq(1..MaxFrames) /\ Len(inner') = Len(inner) + 1
      BY <1>1, <3>2, <3>3, AppendProperties
    <3> QED
      BY <1>1, <3>1, <3>4
  <2>2. CASE ~Accepts("DropNewest", inner, 2 * Depth)
    <3>1. inner' = inner
      BY <2>2 DEF FrameArrives
    <3> QED
      BY <1>1, <3>1
  <2> QED
    BY <2>1, <2>2
<1>3. QueueTypes' /\ FlagTypes' /\ TaskTypes'
  <2>1. QueueTypes' /\ FlagTypes'
    BY <1>2 DEF FrameArrives, NotifyInner, QueueTypes, FlagTypes, queueVars, callerVars
  <2>2. UNCHANGED <<fpc, produced, held>>
    BY DEF FrameArrives
  <2>3. ppc' = ppc \/ (ppc = "waiting" /\ ppc' = "recv")
    BY DEF FrameArrives, NotifyInner
  <2>4. TaskTypes'
    BY <2>2, <2>3 DEF TaskTypes, ProducerStates, Joined
  <2> QED
    BY <2>1, <2>4
<1>4. Counts'
  <2>1. arrived' = arrived + 1 /\ seq' = seq /\ numbered' = numbered
    BY DEF FrameArrives
  <2>2. Len(numbered) \in Nat /\ Len(inner') \in Nat
    BY <1>2 DEF Counts
  <2> QED
    BY <1>1, <1>2, <2>1, <2>2 DEF Counts
<1>5. (InOrder /\ NoUndueLoss)'
  BY SamePipeline, PipelineStays DEF FrameArrives, queueVars, callerVars
<1> QED
  BY <1>3, <1>4, <1>5

LEMMA ProduceInv == AdapterInv /\ Produce => AdapterInv'
<1> SUFFICES ASSUME AdapterInv, Produce PROVE AdapterInv'
  OBVIOUS
<1> USE DEF AdapterInv
<1>1. /\ ppc \in {"recv", "final"} /\ inner # <<>> /\ inner' = Tail(inner)
      /\ produced' = [seq |-> seq, frame |-> Head(inner)]
      /\ numbered' = Append(numbered, Head(inner))
      /\ seq' = seq + 1 /\ ppc' = "push"
      /\ UNCHANGED <<policy, bus, innerClosed, innerPermit, arrived, queueVars, fpc,
                     held, channel, callerVars>>
  BY DEF Produce, CountSeq
<1>2. /\ Depth \in Nat /\ MaxFrames \in Nat /\ arrived \in Nat
      /\ arrived <= MaxFrames /\ seq = Len(numbered) /\ seq \in Nat
      /\ seq + Len(inner) <= arrived
      /\ inner \in Seq(1..MaxFrames) /\ numbered \in Seq(1..MaxFrames)
      /\ Len(inner) <= 2 * Depth
  BY AdapterAssumption DEF QueueTypes, Counts
<1>3. /\ Len(inner) \in Nat \ {0} /\ Head(inner) \in 1..MaxFrames
      /\ Tail(inner) \in Seq(1..MaxFrames) /\ Len(Tail(inner)) = Len(inner) - 1
  BY <1>1, <1>2, TailFacts
<1>4. numbered' \in Seq(1..MaxFrames) /\ Len(numbered') = Len(numbered) + 1
  BY <1>1, <1>2, <1>3, AppendProperties
<1>5. QueueTypes'
  BY <1>1, <1>2, <1>3 DEF QueueTypes, queueVars, callerVars
<1>6. FlagTypes'
  BY <1>1 DEF FlagTypes, queueVars, callerVars
<1>7. Counts'
  BY <1>1, <1>2, <1>3, <1>4 DEF Counts
<1>8. produced' \in Message
  <2>1. seq \in 0..(MaxFrames - 1)
    BY <1>2, <1>3
  <2> QED
    BY <1>1, <1>3, <2>1, MessageFacts
<1>9. TaskTypes'
  BY <1>1, <1>8 DEF TaskTypes, Joined, ProducerStates
<1> DEFINE p == Pipeline
           x == produced'
<1>10. p \in Seq(Messages) /\ numbered \in Seq(Nat) /\ x \in Messages
  BY <1>8, PipelineParts, MessageFacts
<1>11. Pipeline' = p \o <<x>>
  <2>1. Maybe(produced) = <<>>
    BY <1>1 DEF TaskTypes, Joined, Maybe
  <2>2. Maybe(produced') = <<produced'>>
    BY <1>8, MessageFacts DEF Maybe
  <2>3. FrontPart' = FrontPart /\ queue' = queue
    BY <1>1 DEF FrontPart, Maybe, queueVars, callerVars
  <2>4. FrontPart \o queue \in Seq(Messages)
    BY PipelineParts, ConcatProperties
  <2>5. p = FrontPart \o queue
    BY <2>1, <2>4, PipelineParts, ConcatEmptySeq
  <2>6. Pipeline' = (FrontPart' \o queue') \o Maybe(produced')
    BY DEF Pipeline, FrontPart
  <2> QED
    BY <2>2, <2>3, <2>5, <2>6
<1>12. x.seq = seq /\ x.frame = Head(inner) /\ Head(inner) \in Nat
  BY <1>1, <1>3
<1> HIDE DEF p, x
<1>13. Numbered(p, numbered) /\ Rising(p)
  BY DEF InOrder, p
<1>14. InOrder'
  BY <1>1, <1>2, <1>10, <1>11, <1>12, <1>13, PutAtTheEnd DEF InOrder
<1>15. NoUndueLoss'
  <2>1. Len(Pipeline') = Len(p) + 1 /\ Pipeline'[Len(p) + 1] = x /\ Len(p) \in Nat
    BY <1>10, <1>11, AppendProperties, AppendIsConcat
  <2> SUFFICES ASSUME caller = "reads" PROVE Enough(policy, Pipeline', seq + 1)
    BY <1>1 DEF NoUndueLoss, callerVars
  <2>2. Len(p) >= (IF policy = "Block" \/ seq <= Depth THEN seq ELSE Depth)
    BY DEF NoUndueLoss, Enough, p
  <2> DEFINE m == Len(p)
             r == Pipeline'
  <2>3. m \in Nat /\ Len(r) = m + 1 /\ r[m + 1] = x
    BY <2>1
  <2>4. x.seq = seq /\ seq \in Nat /\ Depth \in Nat
    BY <1>2, <1>12, AdapterAssumption
  <2>5. m >= (IF policy = "Block" \/ seq <= Depth THEN seq ELSE Depth)
    BY <2>2
  <2> HIDE DEF m, r
  <2>6. Len(r) >= (IF policy = "Block" \/ seq + 1 <= Depth THEN seq + 1 ELSE Depth)
    BY <2>3, <2>4, <2>5
  <2>7. r[Len(r)].seq = (seq + 1) - 1
    BY <2>3, <2>4
  <2>8. Enough(policy, r, seq + 1)
    BY <2>6, <2>7 DEF Enough
  <2> QED
    BY <2>8 DEF r
<1> QED
  BY <1>5, <1>6, <1>7, <1>9, <1>14, <1>15

\* The producer's message goes into the queue, and out of the producer's hands.
LEMMA PushInv == AdapterInv /\ Push => AdapterInv'
<1> SUFFICES ASSUME AdapterInv, Push PROVE AdapterInv'
  OBVIOUS
<1> USE DEF AdapterInv
<1>1. /\ ppc = "push" /\ ppc' = "recv" /\ produced' = NoMsg
      /\ UNCHANGED <<policy, bus, innerVars, seq, closed, popPermit, held, channel,
                     callerVars, numbered>>
  BY DEF Push, PushDone
<1>2. Depth \in Nat \ {0} /\ seq \in Nat /\ seq = Len(numbered)
  BY AdapterAssumption DEF Counts
<1>3. /\ produced \in Message /\ produced \in Messages /\ produced # NoMsg
  BY <1>1, MessageFacts DEF TaskTypes
<1>4. Counts'
  BY <1>1 DEF Counts, innerVars
<1>5. /\ FrontPart' = FrontPart /\ Maybe(produced) = <<produced>> /\ Maybe(produced') = <<>>
  BY <1>1, <1>3 DEF FrontPart, Maybe, callerVars
<1> DEFINE a == FrontPart  q == queue  x == produced  p == Pipeline
<1>6. /\ a \in Seq(Messages) /\ q \in Seq(Messages) /\ numbered \in Seq(Nat)
      /\ p \in Seq(Messages) /\ p = (a \o q) \o <<x>> /\ a \o q \in Seq(Messages)
      /\ <<x>> \in Seq(Messages) /\ Len(a) \in Nat /\ Len(q) \in Nat
  BY <1>3, <1>5, PipelineParts, ConcatProperties, OneElement
<1>7. Pipeline' = (a \o queue') \o <<>>
  BY <1>5 DEF Pipeline, FrontPart
<1>8. q \in Seq(Message) /\ Len(q) <= Depth
  BY DEF QueueTypes
<1>9. Numbered(p, numbered) /\ Rising(p) /\ (caller = "reads" => Enough(policy, p, seq))
  BY DEF InOrder, NoUndueLoss
<1>10. caller' = caller /\ numbered' = numbered /\ seq' = seq /\ policy' = policy
  BY <1>1 DEF callerVars
<1>11. Len(p) = Len(a) + Len(q) + 1
  BY <1>6, ConcatProperties, OneElement
<1> HIDE DEF a, q, x, p
<1>12. CASE /\ HasRoom \/ policy = "DropOldest"
            /\ queue' = Enqueue(policy, queue, Depth, produced)
            /\ NotifyPush
  <2>1. FlagTypes' /\ TaskTypes'
    <3>1. pushPermit' \in BOOLEAN
      BY <1>12 DEF NotifyPush
    <3>2. fpc' = IF fpc = "parked" THEN "pop" ELSE fpc
      BY <1>12 DEF NotifyPush
    <3> QED
      BY <1>1, <3>1, <3>2
         DEF FlagTypes, TaskTypes, Joined, ProducerStates, ForwarderStates, innerVars,
             callerVars
  <2>2. CASE ~IsFull(queue, Depth)
    <3>1. queue' = Append(q, x)
      BY <1>12, <2>2 DEF Enqueue, q, x
    <3>2. Len(q) < Depth
      BY <1>2, <1>6, <2>2 DEF IsFull, q
    <3>3. queue' \in Seq(Message) /\ Len(queue') <= Depth
      <4>1. x \in Message
        BY <1>3 DEF x
      <4>2. queue' \in Seq(Message) /\ Len(queue') = Len(q) + 1
        BY <1>8, <3>1, <4>1, AppendProperties
      <4> QED
        BY <1>2, <1>6, <3>2, <4>2
    <3>4. QueueTypes'
      BY <1>1, <3>3 DEF QueueTypes, innerVars, callerVars
    <3>5. Pipeline' = p
      <4>1. queue' = q \o <<x>> /\ queue' \in Seq(Messages)
        BY <1>3, <1>6, <3>1, AppendIsConcat, AppendProperties DEF x
      <4>2. a \o queue' = p
        BY <1>6, <4>1, ConcatAssociative
      <4>3. a \o queue' \in Seq(Messages)
        BY <1>6, <4>1, ConcatProperties
      <4> QED
        BY <1>7, <4>2, <4>3, ConcatEmptySeq
    <3>6. (InOrder /\ NoUndueLoss)'
      BY <1>10, <3>5, PipelineStays DEF p
    <3> QED
      BY <1>4, <2>1, <3>4, <3>6
  <2>3. CASE IsFull(queue, Depth)
    <3>1. policy = "DropOldest"
      BY <1>12, <2>3 DEF HasRoom
    <3>2. Len(q) = Depth /\ q # <<>>
      BY <1>2, <1>6, <1>8, <2>3 DEF IsFull, q
    <3> DEFINE h == Head(q)  t == Tail(q)
    <3>3. queue' = Append(t, x)
      BY <1>12, <2>3, <3>1 DEF Enqueue, q, x
    <3>4. /\ h \in Messages /\ t \in Seq(Messages) /\ Len(t) = Len(q) - 1
          /\ q = <<h>> \o t
      BY <1>6, <3>2, TailFacts, HeadThenTail
    <3>5. t \in Seq(Message)
      BY <1>8, <3>2, TailFacts
    <3> HIDE DEF h, t
    <3>6. queue' \in Seq(Message) /\ Len(queue') = Len(q)
      <4>1. x \in Message
        BY <1>3 DEF x
      <4>2. Len(queue') = Len(t) + 1 /\ queue' \in Seq(Message)
        BY <3>3, <3>5, <4>1, AppendProperties
      <4> QED
        BY <1>6, <3>4, <4>2
    <3>7. QueueTypes'
      BY <1>1, <1>2, <3>2, <3>6 DEF QueueTypes, innerVars, callerVars
    <3> DEFINE b == t \o <<x>>
    <3>8. queue' = b /\ b \in Seq(Messages)
      BY <1>3, <3>3, <3>4, AppendIsConcat, AppendProperties DEF x
    <3>9. Pipeline' = a \o b
      BY <1>6, <1>7, <3>8, ConcatProperties, ConcatEmptySeq
    <3>10. p = (a \o <<h>>) \o b
      <4>1. <<h>> \in Seq(Messages) /\ a \o <<h>> \in Seq(Messages)
        BY <1>6, <3>4, OneElement, ConcatProperties
      <4>2. a \o q = (a \o <<h>>) \o t
        BY <1>6, <3>4, <4>1, ConcatAssociative
      <4>3. ((a \o <<h>>) \o t) \o <<x>> = (a \o <<h>>) \o b
        BY <1>6, <3>4, <4>1, ConcatAssociative
      <4> QED
        BY <1>6, <4>2, <4>3
    <3> HIDE DEF b
    <3>11. Numbered(Pipeline', numbered) /\ Rising(Pipeline')
      <4>1. /\ Numbered((a \o <<h>>) \o b, numbered)
            /\ Rising((a \o <<h>>) \o b)
        BY <1>9, <3>10
      <4>2. /\ a \in Seq(Messages) /\ h \in Messages /\ b \in Seq(Messages)
            /\ numbered \in Seq(Nat)
        BY <1>6, <3>4, <3>8
      <4>3. Numbered(a \o b, numbered) /\ Rising(a \o b)
        BY <4>1, <4>2, TakenOut
      <4> QED
        BY <3>9, <4>3
    <3>12. InOrder'
      BY <1>10, <3>11 DEF InOrder
    <3>13. /\ Len(Pipeline') = Len(p) - 1 /\ Len(p) \in Nat
           /\ Len(Pipeline') = Len(a) + Len(q)
      <4>1. Len(b) = Len(q)
        BY <3>6, <3>8
      <4>2. Len(a \o b) = Len(a) + Len(b)
        BY <1>6, <3>8, ConcatProperties
      <4> QED
        BY <1>6, <1>11, <3>9, <4>1, <4>2
    <3>14. Pipeline'[Len(Pipeline')] = p[Len(p)]
      <4>1. Len(a \o b) = Len(a) + Len(b) /\ Len(b) = Len(q) /\ Len(q) > 0
        BY <1>2, <1>6, <3>2, <3>6, <3>8, ConcatProperties
      <4>2. Len(Pipeline') \in 1..Len(a \o b) /\ Len(Pipeline') > Len(a)
        BY <1>6, <3>9, <3>13, <4>1
      <4>3. /\ a \in Seq(Messages) /\ h \in Messages /\ b \in Seq(Messages)
        BY <1>6, <3>4, <3>8
      <4>4. \A i \in 1..Len(a \o b) :
              (a \o b)[i] = ((a \o <<h>>) \o b)[IF i <= Len(a) THEN i ELSE i + 1]
        BY <4>3, WithoutOne
      <4> DEFINE n == Len(Pipeline')
      <4>5. n \in 1..Len(a \o b) /\ ~(n <= Len(a)) /\ n + 1 = Len(p)
        BY <1>6, <3>13, <4>2
      <4> HIDE DEF n
      <4>6. (a \o b)[n] = p[n + 1]
        BY <3>10, <4>4, <4>5
      <4> QED
        BY <3>9, <4>5, <4>6 DEF n
    <3>15. NoUndueLoss'
      <4> SUFFICES ASSUME caller = "reads" PROVE Enough(policy, Pipeline', seq)
        BY <1>10 DEF NoUndueLoss
      <4>1. Len(p) <= seq
        BY <1>2, <1>6, <1>9, NoMoreThanNumbered
      <4>2. Len(Pipeline') >= Depth /\ ~(seq <= Depth)
        BY <1>2, <1>6, <1>11, <3>2, <3>13, <4>1
      <4>3. seq > 0 => p[Len(p)].seq = seq - 1
        BY <1>9, <3>1 DEF Enough
      <4> QED
        BY <3>1, <3>14, <4>2, <4>3 DEF Enough
    <3> QED
      BY <1>4, <2>1, <3>7, <3>12, <3>15
  <2> QED
    BY <2>2, <2>3
<1>13. CASE /\ policy = "DropNewest" /\ ~HasRoom
            /\ UNCHANGED <<queue, pushPermit, fpc>>
  <2>1. QueueTypes' /\ FlagTypes' /\ TaskTypes'
    BY <1>1, <1>13
       DEF QueueTypes, FlagTypes, TaskTypes, Joined, ProducerStates, innerVars, callerVars
  <2>2. Pipeline' = (a \o q) \o <<>>
    BY <1>7, <1>13 DEF q
  <2>3. p = ((a \o q) \o <<x>>) \o <<>>
    BY <1>6, ConcatEmptySeq
  <2>4. Numbered(Pipeline', numbered) /\ Rising(Pipeline')
    <3> DEFINE b == a \o q  e == <<>>
    <3>1. b \in Seq(Messages) /\ x \in Messages /\ e \in Seq(Messages)
      BY <1>3, <1>6, EmptyIsSeq DEF x
    <3>2. Numbered((b \o <<x>>) \o e, numbered) /\ Rising((b \o <<x>>) \o e)
      BY <1>9, <2>3
    <3>3. Pipeline' = b \o e
      BY <2>2
    <3> HIDE DEF b, e
    <3>4. Numbered(b \o e, numbered) /\ Rising(b \o e)
      BY <1>6, <3>1, <3>2, TakenOut
    <3> QED
      BY <3>3, <3>4
  <2>5. InOrder'
    BY <1>10, <2>4 DEF InOrder
  <2>6. Len(Pipeline') = Len(a) + Len(q)
    BY <1>6, <2>2, ConcatEmptySeq, ConcatProperties
  <2>7. NoUndueLoss'
    <3> SUFFICES ASSUME caller = "reads" PROVE Enough(policy, Pipeline', seq)
      BY <1>10 DEF NoUndueLoss
    <3>1. Len(p) <= seq
      BY <1>2, <1>6, <1>9, NoMoreThanNumbered
    <3>2. Len(q) >= Depth
      BY <1>13 DEF HasRoom, IsFull, q
    <3> QED
      BY <1>2, <1>6, <1>11, <1>13, <2>6, <3>1, <3>2 DEF Enough
  <2> QED
    BY <1>4, <2>1, <2>5, <2>7
<1> QED
  BY <1>12, <1>13 DEF Push

LEMMA ProducerTaskInv ==
  AdapterInv /\ (\/ FindNothing \/ CheckInner \/ ListenInner
                 \/ WaitForRoom \/ ProducerEnds \/ WakeForwarder) => AdapterInv'
<1> SUFFICES ASSUME AdapterInv,
                    \/ FindNothing \/ CheckInner \/ ListenInner
                    \/ WaitForRoom \/ ProducerEnds \/ WakeForwarder
             PROVE  AdapterInv'
  OBVIOUS
<1> USE DEF AdapterInv
<1>1. UNCHANGED <<policy, inner, arrived, seq, queue, produced, held, channel,
                  callerVars, numbered>>
  BY DEF FindNothing, CheckInner, ListenInner, WaitForRoom, ProducerEnds,
         WakeForwarder, queueVars, innerVars
<1>2. QueueTypes' /\ Counts'
  BY <1>1 DEF QueueTypes, Counts, callerVars
<1>3. FlagTypes'
  BY DEF FindNothing, CheckInner, ListenInner, WaitForRoom, ProducerEnds,
         WakeForwarder, FlagTypes, queueVars, innerVars, callerVars
<1>4. TaskTypes'
  BY DEF FindNothing, CheckInner, ListenInner, WaitForRoom, ProducerEnds,
         WakeForwarder, TaskTypes, ProducerStates, ForwarderStates, Joined
<1>5. (InOrder /\ NoUndueLoss)'
  BY <1>1, SamePipeline, PipelineStays DEF callerVars
<1> QED
  BY <1>2, <1>3, <1>4, <1>5

\* A message goes from the queue into the forwarder's hands.
LEMMA TakeFrontStep ==
  ASSUME AdapterInv, TakeFront, held = NoMsg,
         UNCHANGED <<got, channel, produced>>
  PROVE  /\ queue' \in Seq(Message) /\ Len(queue') <= Depth
         /\ held' \in Message /\ Pipeline' = Pipeline
<1> USE DEF AdapterInv
<1>1. queue \in Seq(Message) /\ Len(queue) <= Depth /\ Depth \in Nat
  BY AdapterAssumption DEF QueueTypes
<1>2. queue # <<>> /\ queue' = Tail(queue) /\ held' = Head(queue)
  BY DEF TakeFront
<1>3. /\ Head(queue) \in Message /\ Tail(queue) \in Seq(Message)
      /\ Len(Tail(queue)) = Len(queue) - 1 /\ Len(queue) \in Nat
  BY <1>1, <1>2, TailFacts
<1>4. queue = <<Head(queue)>> \o Tail(queue)
  BY <1>1, <1>2, HeadThenTail
<1> DEFINE x == got \o channel  h == Head(queue)  t == Tail(queue)
<1>5. /\ x \in Seq(Messages) /\ <<h>> \in Seq(Messages) /\ t \in Seq(Messages)
  BY <1>3, PipelineParts, MessageFacts, OneElement, SeqMonotonic, ConcatProperties
<1>6. Maybe(held) = <<>> /\ Maybe(held') = <<h>>
  BY <1>2, <1>3, MessageFacts DEF Maybe
<1>7. Pipeline = ((x \o <<>>) \o queue) \o Maybe(produced)
  BY <1>6 DEF Pipeline
<1>8. Pipeline' = ((x \o <<h>>) \o t) \o Maybe(produced)
  BY <1>2, <1>6 DEF Pipeline, Maybe
<1>9. queue = <<h>> \o t
  BY <1>4
<1> HIDE DEF x, h, t
<1>10. x \o <<>> = x
  BY <1>5, ConcatEmptySeq
<1>11. (x \o <<h>>) \o t = x \o queue
  BY <1>5, <1>9, ConcatAssociative
<1>12. Pipeline' = Pipeline
  BY <1>7, <1>8, <1>10, <1>11
<1> QED
  BY <1>1, <1>2, <1>3, <1>12

LEMMA PopInv == AdapterInv /\ (Pop \/ FinalPop) => AdapterInv'
<1> SUFFICES ASSUME AdapterInv, Pop \/ FinalPop PROVE AdapterInv'
  OBVIOUS
<1> USE DEF AdapterInv
<1>1. /\ fpc \in {"pop", "final"}
      /\ UNCHANGED <<policy, bus, innerVars, seq, closed, pushPermit, produced, channel,
                     callerVars, numbered>>
  BY DEF Pop, FinalPop
<1>2. held = NoMsg
  BY <1>1 DEF TaskTypes
<1>3. Counts'
  BY <1>1 DEF Counts, innerVars
<1>4. /\ popPermit' \in BOOLEAN
      /\ ppc' = ppc \/ (ppc = "parked" /\ ppc' = "push")
  BY DEF Pop, FinalPop, NotifyPop, FlagTypes
<1>5. FlagTypes'
  BY <1>1, <1>4 DEF FlagTypes, innerVars, callerVars
<1>6. UNCHANGED <<got, channel, produced, policy, seq, numbered, caller>>
  BY <1>1 DEF callerVars
<1>7. CASE TakeFront
  <2>1. /\ queue' \in Seq(Message) /\ Len(queue') <= Depth
        /\ held' \in Message /\ Pipeline' = Pipeline
    BY <1>2, <1>6, <1>7, TakeFrontStep
  <2>2. QueueTypes'
    BY <1>1, <2>1 DEF QueueTypes, innerVars, callerVars
  <2>3. TaskTypes'
    BY <1>1, <1>4, <1>7, <2>1 DEF TakeFront, TaskTypes, Joined, ProducerStates, ForwarderStates
  <2>4. (InOrder /\ NoUndueLoss)'
    BY <1>6, <2>1, PipelineStays
  <2> QED
    BY <1>3, <1>5, <2>2, <2>3, <2>4
<1>8. CASE UNCHANGED <<queue, held>> /\ fpc' \in {"check", "done"}
  <2>1. QueueTypes'
    BY <1>1, <1>8 DEF QueueTypes, innerVars, callerVars
  <2>2. TaskTypes'
    BY <1>1, <1>2, <1>4, <1>8 DEF TaskTypes, Joined, ProducerStates, ForwarderStates
  <2>3. (InOrder /\ NoUndueLoss)'
    BY <1>6, <1>8, SamePipeline, PipelineStays
  <2> QED
    BY <1>3, <1>5, <2>1, <2>2, <2>3
<1> QED
  BY <1>7, <1>8 DEF Pop, FinalPop

LEMMA ForwarderTaskInv == AdapterInv /\ (CheckClosed \/ Listen) => AdapterInv'
<1> SUFFICES ASSUME AdapterInv, CheckClosed \/ Listen PROVE AdapterInv'
  OBVIOUS
<1> USE DEF AdapterInv
<1>1. UNCHANGED <<policy, bus, innerVars, seq, queue, ppc, produced, held, channel,
                  callerVars, numbered>>
  BY DEF CheckClosed, Listen, queueVars
<1>2. QueueTypes' /\ Counts'
  BY <1>1 DEF QueueTypes, Counts, innerVars, callerVars
<1>3. FlagTypes'
  BY DEF CheckClosed, Listen, FlagTypes, queueVars, innerVars, callerVars
<1>4. TaskTypes'
  BY DEF CheckClosed, Listen, TaskTypes, Joined, ProducerStates, ForwarderStates
<1>5. (InOrder /\ NoUndueLoss)'
  BY <1>1, SamePipeline, PipelineStays DEF callerVars
<1> QED
  BY <1>2, <1>3, <1>4, <1>5

\* The same pipeline, cut behind its first and behind its second part.
LEMMA Regroup ==
  ASSUME NEW a \in Seq(Messages), NEW b \in Seq(Messages), NEW c \in Seq(Messages)
  PROVE  (a \o b) \o c = a \o (b \o c)
BY ConcatAssociative

\* The forwarder's message goes into the mpsc channel, or nowhere.
LEMMA ForwardInv == AdapterInv /\ Forward => AdapterInv'
<1> SUFFICES ASSUME AdapterInv, Forward PROVE AdapterInv'
  OBVIOUS
<1> USE DEF AdapterInv
<1>1. /\ fpc = "send" /\ held' = NoMsg
      /\ UNCHANGED <<policy, bus, innerVars, seq, queueVars, ppc, produced, callerVars,
                     numbered>>
  BY DEF Forward
<1>2. held \in Message /\ held \in Messages /\ held # NoMsg
  BY <1>1, MessageFacts DEF TaskTypes
<1>3. FlagTypes' /\ Counts'
  BY <1>1 DEF FlagTypes, Counts, innerVars, queueVars, callerVars
<1>4. UNCHANGED <<got, queue, produced, policy, seq, numbered, caller>>
  BY <1>1 DEF callerVars, queueVars
<1>5. Maybe(held) = <<held>> /\ Maybe(held') = <<>> /\ Maybe(produced') = Maybe(produced)
  BY <1>1, <1>2 DEF Maybe
<1> DEFINE x == got \o channel  m == held  r == queue \o Maybe(produced)
<1>6. /\ got \in Seq(Messages) /\ channel \in Seq(Messages) /\ x \in Seq(Messages)
      /\ <<m>> \in Seq(Messages) /\ r \in Seq(Messages) /\ queue \in Seq(Messages)
      /\ Maybe(produced) \in Seq(Messages) /\ m \in Messages
      /\ numbered \in Seq(Nat) /\ x \o <<m>> \in Seq(Messages)
  BY <1>2, PipelineParts, OneElement, ConcatProperties
<1>7. Pipeline = ((x \o <<m>>) \o queue) \o Maybe(produced)
  BY <1>5 DEF Pipeline
<1>8. Pipeline = (x \o <<m>>) \o r
  <2> DEFINE y == x \o <<m>>  mp == Maybe(produced)
  <2>1. y \in Seq(Messages) /\ queue \in Seq(Messages) /\ mp \in Seq(Messages)
    BY <1>6
  <2>2. Pipeline = (y \o queue) \o mp
    BY <1>7
  <2> HIDE DEF y, mp
  <2>3. (y \o queue) \o mp = y \o (queue \o mp)
    BY <2>1, Regroup
  <2>4. Pipeline = y \o (queue \o mp)
    BY <2>2, <2>3
  <2> QED
    BY <2>4 DEF y, mp
<1>9. CASE caller = "dropped" /\ fpc' = "done" /\ UNCHANGED channel
  <2>1. QueueTypes'
    BY <1>1, <1>4, <1>9 DEF QueueTypes, innerVars
  <2>2. TaskTypes'
    BY <1>1, <1>9 DEF TaskTypes, Joined, ForwarderStates
  <2>3. Pipeline' = ((x \o <<>>) \o queue) \o Maybe(produced)
    BY <1>4, <1>5, <1>9 DEF Pipeline
  <2>4. Numbered(Pipeline, numbered) /\ Rising(Pipeline)
    BY DEF InOrder
  <2>5. Pipeline' = x \o r
    <3> DEFINE mp == Maybe(produced)
    <3>1. /\ x \in Seq(Messages) /\ queue \in Seq(Messages)
          /\ mp \in Seq(Messages)
      BY <1>6
    <3>2. Pipeline' = ((x \o <<>>) \o queue) \o mp
      BY <2>3
    <3> HIDE DEF x, mp
    <3>3. x \o <<>> = x
      BY <3>1, ConcatEmptySeq
    <3>4. (x \o queue) \o mp = x \o (queue \o mp)
      BY <3>1, Regroup
    <3>5. Pipeline' = x \o (queue \o mp)
      BY <3>2, <3>3, <3>4
    <3> QED
      BY <3>5 DEF mp
  <2> HIDE DEF x, m
  <2> HIDE DEF r
  <2>6. Numbered((x \o <<m>>) \o r, numbered) /\ Rising((x \o <<m>>) \o r)
    BY <1>8, <2>4
  <2>7. Numbered(x \o r, numbered) /\ Rising(x \o r)
    BY <1>6, <2>6, TakenOut
  <2>8. InOrder'
    BY <1>4, <2>5, <2>7 DEF InOrder
  <2>9. NoUndueLoss'
    BY <1>4, <1>9 DEF NoUndueLoss
  <2> QED
    BY <1>3, <2>1, <2>2, <2>8, <2>9
<1>10. CASE channel = <<>> /\ channel' = <<held>> /\ fpc' = "pop"
  <2>1. channel' \in Seq(Message) /\ Len(channel') = 1
    BY <1>2, <1>10, OneElement
  <2>2. QueueTypes'
    BY <1>1, <1>4, <2>1 DEF QueueTypes, innerVars
  <2>3. TaskTypes'
    BY <1>1, <1>10 DEF TaskTypes, Joined, ForwarderStates
  <2>4. Pipeline' = (((got \o <<m>>) \o <<>>) \o queue) \o Maybe(produced)
    BY <1>4, <1>5, <1>10 DEF Pipeline
  <2>5. x = got
    BY <1>6, <1>10, ConcatEmptySeq
  <2>6. (got \o <<m>>) \o <<>> = got \o <<m>>
    BY <1>6, <2>5, ConcatEmptySeq
  <2>7. Pipeline' = Pipeline
    BY <1>7, <2>4, <2>5, <2>6
  <2>8. (InOrder /\ NoUndueLoss)'
    BY <1>4, <2>7, PipelineStays
  <2> QED
    BY <1>3, <2>2, <2>3, <2>8
<1> QED
  BY <1>9, <1>10 DEF Forward

\* The caller takes the message out of the channel, or drops both.
LEMMA CallerInv == AdapterInv /\ (CallerRecv \/ CallerDrops) => AdapterInv'
<1> SUFFICES ASSUME AdapterInv, CallerRecv \/ CallerDrops PROVE AdapterInv'
  OBVIOUS
<1> USE DEF AdapterInv
<1>1. /\ caller = "reads"
      /\ UNCHANGED <<policy, bus, innerVars, seq, queueVars, ppc, produced, fpc, held,
                     numbered>>
  BY DEF CallerRecv, CallerDrops
<1>2. caller' \in {"reads", "end", "dropped"}
  BY <1>1 DEF CallerRecv, CallerDrops
<1>3. Counts' /\ FlagTypes' /\ TaskTypes'
  BY <1>1, <1>2 DEF FlagTypes, Counts, TaskTypes, Joined, innerVars, queueVars
<1>4. channel \in Seq(Message) /\ Len(channel) <= 1 /\ got \in Seq(Message)
  BY DEF QueueTypes
<1> DEFINE hd == Maybe(held)  r == (hd \o queue) \o Maybe(produced)
<1>5. /\ got \in Seq(Messages) /\ channel \in Seq(Messages) /\ hd \in Seq(Messages)
      /\ queue \in Seq(Messages) /\ Maybe(produced) \in Seq(Messages)
      /\ hd \o queue \in Seq(Messages) /\ r \in Seq(Messages)
      /\ numbered \in Seq(Nat) /\ got \o channel \in Seq(Messages)
  BY PipelineParts, ConcatProperties
<1>6. Pipeline = (((got \o channel) \o hd) \o queue) \o Maybe(produced)
  BY DEF Pipeline
<1>7. Pipeline' = (((got' \o channel') \o hd) \o queue) \o Maybe(produced)
  BY <1>1 DEF Pipeline, Maybe, queueVars
<1>8. channel # <<>> => channel = <<Head(channel)>> /\ Head(channel) \in Message
  <2> SUFFICES ASSUME channel # <<>>
               PROVE  channel = <<Head(channel)>> /\ Head(channel) \in Message
    OBVIOUS
  <2> DEFINE h == Head(channel)
  <2>1. Len(channel) = 1 /\ h \in Message /\ h = channel[1]
    <3>1. /\ Head(channel) \in Message /\ Len(Tail(channel)) = Len(channel) - 1
          /\ Tail(channel) \in Seq(Message)
      BY <1>4, TailFacts
    <3>2. Len(Tail(channel)) \in Nat /\ Len(channel) \in Nat
      BY <1>4, <3>1
    <3>3. Len(channel) = 1
      BY <1>4, <3>1, <3>2
    <3>4. Head(channel) = channel[1]
      BY <1>4
    <3> QED
      BY <3>1, <3>3, <3>4
  <2> HIDE DEF h
  <2>2. <<h>> \in Seq(Message) /\ Len(<<h>>) = 1 /\ <<h>>[1] = h
    BY <2>1, OneElement
  <2>3. channel = <<h>>
    BY <1>4, <2>1, <2>2, SeqEqual
  <2> QED
    BY <2>1, <2>3 DEF h
<1> HIDE DEF hd
<1>9. CASE /\ channel # <<>> /\ got' = Append(got, Head(channel)) /\ channel' = <<>>
           /\ UNCHANGED caller
  <2> DEFINE h == Head(channel)
  <2>1. h \in Message /\ h \in Messages /\ channel = <<h>>
    BY <1>8, <1>9, MessageFacts
  <2>2. got' = got \o channel /\ got' \in Seq(Message)
    BY <1>4, <1>9, <2>1, AppendIsConcat, AppendProperties
  <2>3. QueueTypes'
    <3>1. Len(<<>>) = 0 /\ <<>> \in Seq(Message)
      OBVIOUS
    <3> QED
      BY <1>1, <1>9, <2>2, <3>1 DEF QueueTypes, innerVars, queueVars
  <2>4. got' \o channel' = got \o channel
    BY <1>5, <1>9, <2>2, ConcatEmptySeq
  <2>5. Pipeline' = Pipeline
    BY <1>6, <1>7, <2>4
  <2>6. (InOrder /\ NoUndueLoss)'
    BY <1>1, <2>5, PipelineStays
  <2> QED
    BY <1>3, <2>3, <2>6
<1>10. CASE UNCHANGED <<got, channel>>
  <2>1. QueueTypes'
    BY <1>1, <1>10 DEF QueueTypes, innerVars, queueVars
  <2>2. (InOrder /\ NoUndueLoss)'
    BY <1>1, <1>10, SamePipeline, PipelineStays DEF queueVars
  <2> QED
    BY <1>3, <2>1, <2>2
<1>11. CASE CallerDrops
  <2>1. caller' = "dropped" /\ channel' = <<>> /\ got' = got
    BY <1>11 DEF CallerDrops
  <2>2. QueueTypes'
    <3>1. Len(<<>>) = 0 /\ <<>> \in Seq(Message)
      OBVIOUS
    <3> QED
      BY <1>1, <2>1, <3>1 DEF QueueTypes, innerVars, queueVars
  <2>3. NoUndueLoss'
    BY <2>1 DEF NoUndueLoss
  <2>4. CASE channel = <<>>
    <3>1. (InOrder /\ NoUndueLoss)'
      BY <1>1, <2>1, <2>4, SamePipeline, PipelineStays DEF queueVars
    <3> QED
      BY <1>3, <2>2, <3>1
  <2>5. CASE channel # <<>>
    <3> DEFINE h == Head(channel)
    <3>1. h \in Messages /\ channel = <<h>> /\ <<h>> \in Seq(Messages)
      BY <1>8, <2>5, MessageFacts, OneElement
    <3> HIDE DEF h
    <3> DEFINE mp == Maybe(produced)
    <3>2. Pipeline = (got \o <<h>>) \o r
      <4>1. Pipeline = (((got \o <<h>>) \o hd) \o queue) \o mp
        BY <1>6, <3>1
      <4> DEFINE g == got \o <<h>>
      <4>2. /\ g \in Seq(Messages) /\ hd \in Seq(Messages)
            /\ queue \in Seq(Messages) /\ mp \in Seq(Messages)
        BY <1>5, <3>1, ConcatProperties
      <4>3. Pipeline = ((g \o hd) \o queue) \o mp
        BY <4>1
      <4> HIDE DEF g, mp
      <4>4. (g \o hd) \o queue = g \o (hd \o queue)
        BY <4>2, Regroup
      <4> DEFINE k == hd \o queue
      <4>5. k \in Seq(Messages) /\ Pipeline = (g \o k) \o mp
        BY <1>5, <4>3, <4>4
      <4> HIDE DEF k
      <4>6. (g \o k) \o mp = g \o (k \o mp)
        BY <4>2, <4>5, Regroup
      <4> QED
        BY <4>5, <4>6 DEF g, k, mp
    <3>3. Pipeline' = got \o r
      <4>1. Pipeline' = (((got \o <<>>) \o hd) \o queue) \o mp
        BY <1>7, <2>1
      <4>2. /\ got \in Seq(Messages) /\ hd \in Seq(Messages)
            /\ queue \in Seq(Messages) /\ mp \in Seq(Messages)
        BY <1>5
      <4> HIDE DEF mp
      <4>3. got \o <<>> = got
        BY <4>2, ConcatEmptySeq
      <4>4. Pipeline' = ((got \o hd) \o queue) \o mp
        BY <4>1, <4>3
      <4>5. (got \o hd) \o queue = got \o (hd \o queue)
        BY <4>2, Regroup
      <4> DEFINE k == hd \o queue
      <4>6. k \in Seq(Messages) /\ Pipeline' = (got \o k) \o mp
        BY <1>5, <4>4, <4>5
      <4> HIDE DEF k
      <4>7. (got \o k) \o mp = got \o (k \o mp)
        BY <4>2, <4>6, Regroup
      <4> QED
        BY <4>6, <4>7 DEF k, mp
    <3> HIDE DEF r
    <3>4. Numbered((got \o <<h>>) \o r, numbered) /\ Rising((got \o <<h>>) \o r)
      BY <3>2 DEF InOrder
    <3>5. Numbered(got \o r, numbered) /\ Rising(got \o r)
      BY <1>5, <3>1, <3>4, TakenOut
    <3>6. InOrder'
      BY <1>1, <3>3, <3>5 DEF InOrder
    <3> QED
      BY <1>3, <2>2, <2>3, <3>6
  <2> QED
    BY <2>4, <2>5
<1> QED
  BY <1>9, <1>10, <1>11 DEF CallerRecv

LEMMA AdapterNextInv == AdapterInv /\ [Next]_vars => AdapterInv'
<1> SUFFICES ASSUME AdapterInv, [Next]_vars PROVE AdapterInv'
  OBVIOUS
<1>1. CASE UNCHANGED vars
  <2> USE DEF AdapterInv
  <2>1. UNCHANGED <<policy, bus, innerVars, seq, queueVars, ppc, produced, fpc, held,
                    channel, callerVars, numbered>>
    BY <1>1 DEF vars
  <2>2. QueueTypes' /\ FlagTypes' /\ TaskTypes' /\ Counts'
    BY <2>1 DEF QueueTypes, FlagTypes, TaskTypes, Counts, Joined, innerVars,
                queueVars, callerVars
  <2>3. (InOrder /\ NoUndueLoss)'
    BY <2>1, SamePipeline, PipelineStays DEF queueVars, callerVars
  <2> QED
    BY <2>2, <2>3
<1> QED
  BY <1>1, SubscribeInv, CloseInv, FrameArrivesInv, ProduceInv, PushInv,
     ProducerTaskInv, PopInv, ForwarderTaskInv, ForwardInv, CallerInv
     DEF Next, ProducerStep, ForwarderStep

LEMMA AdapterAlways == Spec => []AdapterInv
BY AdapterInitInv, AdapterNextInv, PTL DEF Spec

\* The queues stay within their depth and the tasks hold a message exactly between
\* taking it and putting it on, for every depth and policy.
THEOREM AdapterTypeOK == Spec => []TypeOK
BY AdapterAlways, AdapterInvTypeOK, PTL

\* What the sequence numbers tell the caller of the adapter: for every depth and
\* policy, and wherever the two tasks, the bus and the caller stand.
THEOREM AdapterLoss == Spec => []LossFollowsPolicy
<1>1. AdapterInv => LossFollowsPolicy
  <2> SUFFICES ASSUME AdapterInv PROVE LossFollowsPolicy
    OBVIOUS
  <2> USE DEF AdapterInv
  <2>1. Pipeline \in Seq(Messages) /\ Len(Pipeline) \in Nat
    BY PipelineParts
  <2>2. \A i \in 1..Len(Pipeline) : Pipeline[i].frame = numbered[Pipeline[i].seq + 1]
    BY DEF InOrder, Numbered
  <2>3. \A i \in 1..(Len(Pipeline) - 1) : Pipeline[i].seq < Pipeline[i + 1].seq
    <3> TAKE i \in 1..(Len(Pipeline) - 1)
    <3>1. i \in 1..Len(Pipeline) /\ i + 1 \in 1..Len(Pipeline) /\ i < i + 1
      BY <2>1
    <3> QED
      BY <3>1 DEF InOrder, Rising
  <2>4. caller = "reads" => Enough(policy, Pipeline, seq)
    BY DEF NoUndueLoss
  <2> QED
    BY <2>2, <2>3, <2>4 DEF LossFollowsPolicy, Enough, Last
<1> QED
  BY <1>1, AdapterAlways, PTL

---------------------------------------------------------------------------
(* What StreamEnds owes to safety: where the two tasks and the caller may  *)
(* come to rest.                                                           *)

ProducerRests == ppc \in {"waiting", "parked", "done"}

ForwarderRests ==
  fpc \in {"parked", "done"} \/ (fpc = "send" /\ caller # "dropped" /\ channel # <<>>)

CallerRests == caller = "reads" => channel = <<>> /\ fpc # "done"

\* A task that waits has nothing it could go on with: the subscription holds no
\* frame, the queue is full for the one task, and empty for the other.
NoIdleWait ==
  /\ ppc = "waiting" => inner = <<>>
  /\ ppc = "parked" => ~HasRoom
  /\ fpc = "parked" => queue = <<>>

\* The two tasks never wait for each other: one for room in a queue that the other
\* has found empty.
NeverBothWait == ~(ppc = "parked" /\ fpc = "parked")

\* Once close() is through, tasks and caller come to rest in five states only: the
\* stream has ended, the close has not reached the subscription, the producer or
\* the forwarder has missed it, or a Block push waits for a forwarder that is gone.
RestsOnlyAtEnd ==
  bus = "done" /\ Joined /\ ProducerRests /\ ForwarderRests /\ CallerRests =>
    Ended \/ NeverClosed \/ CloseUnheard \/ MissedClose \/ AbandonedPush

\* Who waits, waits for what is not there.  A frame or a message that comes between
\* the look at a queue and the await leaves a permit; a pop without a notification
\* comes only after the producer has closed the queue, and the producer only ends
\* when the bus has closed its subscription.
WaitsFor ==
  /\ NoIdleWait
  /\ ppc \in {"check", "listen"} /\ inner # <<>> => innerPermit
  /\ fpc \in {"check", "listen"} /\ queue # <<>> => pushPermit
  /\ ppc \in {"final", "closing", "done"} => innerClosed
  /\ innerClosed => Joined /\ bus \in {"stored", "done"}
  /\ fpc = "final" => closed
  /\ closed => ppc \in {"closing", "done"}

\* Tasks are born together, and the caller sees the end when the forwarder is done.
Born == (fpc = "unborn" <=> ~Joined) /\ (caller = "end" => fpc = "done")

LEMMA WaitsForAlways == Spec => [](WaitsFor /\ Born)
<1> DEFINE Inv == WaitsFor /\ Born
<1>1. Init => Inv
  BY DEF Init, WaitsFor, NoIdleWait, Born, Joined
<1>2. TypeOK /\ Inv /\ [Next]_vars => Inv'
  <2> SUFFICES ASSUME TypeOK, WaitsFor, Born, [Next]_vars PROVE Inv'
    OBVIOUS
  <2> USE DEF TypeOK, WaitsFor, NoIdleWait, Born, HasRoom, Joined, innerVars
  <2> HIDE DEF Inv
  <2>1. CASE SubscribeCheck \/ SubscribeJoin
    BY <2>1 DEF Inv, SubscribeCheck, SubscribeJoin, queueVars, callerVars
  <2>2. CASE CloseExchange \/ CloseSub \/ WakeProducer
    BY <2>2 DEF Inv, CloseExchange, CloseSub, WakeProducer, queueVars, callerVars
  <2>13. CASE FrameArrives
    <3>1. /\ UNCHANGED <<bus, innerClosed, queueVars, fpc, caller>>
          /\ Joined /\ ~innerClosed
      BY <2>13 DEF FrameArrives, callerVars
    <3>2. \/ ppc # "waiting" /\ ppc' = ppc /\ innerPermit'
          \/ ppc = "waiting" /\ ppc' = "recv"
          \/ UNCHANGED <<inner, innerPermit, ppc>>
      BY <2>13 DEF FrameArrives, NotifyInner
    <3> QED
      BY <3>1, <3>2 DEF Inv, queueVars
  <2>14. CASE Produce
    BY <2>14 DEF Inv, Produce, queueVars, callerVars
  <2>15. CASE FindNothing \/ CheckInner \/ ListenInner
    BY <2>15 DEF Inv, FindNothing, CheckInner, ListenInner, queueVars, callerVars
  <2>3. CASE Push
    BY <2>3 DEF Inv, Push, PushDone, NotifyPush, callerVars
  <2>4. CASE WaitForRoom
    BY <2>4 DEF Inv, WaitForRoom, callerVars
  <2>5. CASE ProducerEnds
    BY <2>5 DEF Inv, ProducerEnds, callerVars
  <2>6. CASE WakeForwarder
    BY <2>6 DEF Inv, WakeForwarder, queueVars, callerVars
  <2>7. CASE Pop
    BY <2>7 DEF Inv, Pop, TakeFront, NotifyPop, callerVars
  <2>8. CASE CheckClosed \/ Listen
    BY <2>8 DEF Inv, CheckClosed, Listen, queueVars, callerVars
  <2>9. CASE FinalPop
    BY <2>9 DEF Inv, FinalPop, TakeFront, callerVars
  <2>10. CASE Forward
    BY <2>10 DEF Inv, Forward, queueVars, callerVars
  <2>11. CASE CallerRecv \/ CallerDrops
    BY <2>11 DEF Inv, CallerRecv, CallerDrops, queueVars
  <2>12. CASE UNCHANGED vars
    BY <2>12 DEF Inv, vars, queueVars, callerVars
  <2> QED
    BY <2>1, <2>2, <2>3, <2>4, <2>5, <2>6, <2>7, <2>8, <2>9, <2>10, <2>11, <2>12,
       <2>13, <2>14, <2>15 DEF Next, CloseStep, ProducerStep, ForwarderStep
<1> QED
  BY <1>1, <1>2, AdapterTypeOK, PTL DEF Spec

\* After close() nothing but the four exceptions of StreamEnds can keep tasks and
\* caller waiting, for every depth and policy and however full the queues were; at
\* no time does a task wait for what is there, and producer and forwarder never
\* wait for each other.
THEOREM AdapterRests == Spec => [](NoIdleWait /\ NeverBothWait /\ RestsOnlyAtEnd)
<1>1. TypeOK /\ WaitsFor /\ Born => NoIdleWait /\ NeverBothWait /\ RestsOnlyAtEnd
  <2> SUFFICES ASSUME TypeOK, WaitsFor, Born
               PROVE  NoIdleWait /\ NeverBothWait /\ RestsOnlyAtEnd
    OBVIOUS
  <2>1. NoIdleWait
    BY DEF WaitsFor
  <2>2. NeverBothWait
    <3> SUFFICES ASSUME ppc = "parked", fpc = "parked" PROVE FALSE
      BY DEF NeverBothWait
    <3>1. Len(queue) = 0 /\ Depth \in Nat /\ Depth > 0
      BY <2>1, AdapterAssumption DEF NoIdleWait
    <3>2. ~HasRoom
      BY <2>1 DEF NoIdleWait
    <3> QED
      BY <3>1, <3>2 DEF HasRoom, IsFull
  <2>3. RestsOnlyAtEnd
    <3> SUFFICES ASSUME bus = "done", Joined, ProducerRests, ForwarderRests, CallerRests
                 PROVE  Ended \/ NeverClosed \/ CloseUnheard \/ MissedClose \/ AbandonedPush
      BY DEF RestsOnlyAtEnd
    <3>1. CASE ppc = "waiting"
      BY <3>1 DEF NeverClosed, CloseUnheard
    <3>2. CASE ppc # "waiting"
      <4>1. ppc \in {"parked", "done"}
        BY <3>2 DEF ProducerRests
      <4>2. CASE fpc = "parked"
        BY <2>2, <4>1, <4>2 DEF NeverBothWait, MissedClose
      <4>3. CASE fpc = "done"
        BY <4>1, <4>3 DEF CallerRests, Ended, AbandonedPush
      <4>4. CASE fpc = "send" /\ caller # "dropped" /\ channel # <<>>
        BY <4>4 DEF CallerRests, TypeOK, Born
      <4> QED
        BY <4>2, <4>3, <4>4 DEF ForwarderRests
    <3> QED
      BY <3>1, <3>2
  <2> QED
    BY <2>1, <2>2, <2>3
<1> QED
  BY <1>1, AdapterTypeOK, WaitsForAlways, PTL
=============================================================================
