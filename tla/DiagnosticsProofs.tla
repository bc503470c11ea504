-------------------------- MODULE DiagnosticsProofs --------------------------
(***************************************************************************)
(* TypeOK and InStep of Diagnostics, for every set of calls and whatever   *)
(* the bounds.  The argument: what is on its way between client and ECU is *)
(* in the order of the requests, and belongs to the call that waits or to  *)
(* requests that the client no longer waits for.  So the final answer to   *)
(* the call that waits is the last thing on its way.                       *)
(***************************************************************************)
EXTENDS Diagnostics, TLAPS

---------------------------------------------------------------------------
(* Sequences and services.                                                 *)

\* The front of a queue and the rest of it.
LEMMA TailFacts ==
  ASSUME NEW S, NEW q \in Seq(S), q # <<>>
  PROVE  /\ Len(q) \in Nat \ {0}
         /\ Head(q) = q[1] /\ Head(q) \in S
         /\ Tail(q) \in Seq(S)
         /\ Len(Tail(q)) = Len(q) - 1
         /\ \A i \in 1..(Len(q) - 1) : Tail(q)[i] = q[i + 1]
OBVIOUS

\* A queue with one more element at the end.
LEMMA AppendFacts ==
  ASSUME NEW S, NEW q \in Seq(S), NEW x \in S
  PROVE  /\ Append(q, x) \in Seq(S)
         /\ Len(q) \in Nat
         /\ Len(Append(q, x)) = Len(q) + 1
         /\ \A i \in 1..Len(q) : Append(q, x)[i] = q[i]
         /\ Append(q, x)[Len(q) + 1] = x
OBVIOUS

\* What the assumption says of the bounds.
LEMMA Bounds == MaxCalls \in Nat /\ MaxPending \in Nat
BY DiagnosticsAssumption

\* What the assumption says of a call.
LEMMA CallType ==
  ASSUME NEW c \in Calls
  PROVE  /\ c.service \in UdsServices \union ObdServices
         /\ c.arg \in Nat
BY DiagnosticsAssumption

\* The service identifiers leave room for the bit of an answer, and none is that
\* of a negative answer.
LEMMA SidValues ==
  ASSUME NEW s \in UdsServices \union ObdServices
  PROVE  /\ s \in DOMAIN Sid
         /\ Sid[s] \in 1..62 /\ Sid[s] \in Nat
<1>1. s \in {"session", "reset", "read", "seed", "key", "write", "tester", "pid",
             "supported", "vin"}
      BY DEF UdsServices, ObdServices
<1>2. DOMAIN Sid = {"session", "reset", "read", "seed", "key", "write", "tester",
                    "pid", "supported", "vin"}
      BY DEF Sid
<1>3. /\ Sid["session"] = 16 /\ Sid["reset"] = 17 /\ Sid["read"] = 34
      /\ Sid["seed"] = 39 /\ Sid["key"] = 39 /\ Sid["write"] = 46
      /\ Sid["tester"] = 62 /\ Sid["pid"] = 1 /\ Sid["supported"] = 1
      /\ Sid["vin"] = 9
      BY DEF Sid
<1> QED BY <1>1, <1>2, <1>3

---------------------------------------------------------------------------
(* The inductive invariant.                                                *)

\* Requests whose answer may still come.
Open == abandoned \union (IF pc = "waiting" THEN {Len(asked)} ELSE {})

Types ==
  /\ TypeOK
  /\ Len(asked) <= MaxCalls
  /\ pc = "waiting" => pend <= MaxPending /\ Len(asked) > 0

\* Whatever is on its way belongs to an open request.
Accounted ==
  /\ \A i \in 1..Len(inbox) : inbox[i].about \in Open
  /\ ecu # 0 => ecu \in Open
  /\ \A k \in 1..Len(outbox) : outbox[k] \in Open

\* There is no answer to a request not made.
Asked ==
  /\ \A i \in 1..Len(inbox) : inbox[i].about <= Len(asked)
  /\ ecu <= Len(asked)
  /\ \A k \in 1..Len(outbox) : outbox[k] <= Len(asked)

\* Answers, the request in work, requests: in the order in which they were made.
\* Nothing to a request comes behind its final answer.
Behind(m, n) == m.about <= n /\ (Final(m) => m.about # n)

InOrder ==
  /\ \A i, j \in 1..Len(inbox) : i < j => Behind(inbox[i], inbox[j].about)
  /\ \A i \in 1..Len(inbox) : ecu # 0 => Behind(inbox[i], ecu)
  /\ \A i \in 1..Len(inbox), k \in 1..Len(outbox) : inbox[i].about < outbox[k]
  /\ \A k \in 1..Len(outbox) : ecu < outbox[k]
  /\ \A k, l \in 1..Len(outbox) : k < l => outbox[k] < outbox[l]

\* An answer is negative, as a pending one is, or has the identifiers of its
\* request.
Truthful(m) ==
  /\ m.nrc = PendingNrc => m.first = NegativeSid
  /\ \/ m.first = NegativeSid
     \/ /\ m.first = Sid[asked[m.about].service] + 64
        /\ m.echo = Echo(asked[m.about])

AllTruthful == \A i \in 1..Len(inbox) : Truthful(inbox[i])

IInv == Types /\ Accounted /\ Asked /\ InOrder /\ AllTruthful

\* The request that an answer is about.
LEMMA AnswerAbout ==
  ASSUME NEW m \in Answers
  PROVE  m.about \in 1..MaxCalls /\ m.about \in Nat
<1> DEFINE F == {NegativeSid} \union {Sid[s] + 64 : s \in DOMAIN Sid}
           N == {0, 49, PendingNrc}
           D == {0, 1, 4}
           A == 1..MaxCalls
<1>1. m \in [first : F, echo : Nat, nrc : N, data : D, about : A]
      BY DEF Answers
<1> HIDE DEF F, N, D, A
<1>2. m.about \in A
      BY <1>1
<1> QED BY <1>2, Bounds DEF A

\* What the steps use of the types.
LEMMA TypeFacts ==
  ASSUME Types
  PROVE  /\ asked \in Seq(Calls) /\ Len(asked) \in 0..MaxCalls
         /\ inbox \in Seq(Answers) /\ outbox \in Seq(1..MaxCalls)
         /\ ecu \in 0..MaxCalls /\ abandoned \in SUBSET (1..MaxCalls)
         /\ \A i \in 1..Len(inbox) : inbox[i] \in Answers /\ inbox[i].about \in Nat
         /\ \A k \in 1..Len(outbox) : outbox[k] \in 1..MaxCalls
<1>1. /\ asked \in Seq(Calls) /\ Len(asked) \in 0..MaxCalls
      /\ inbox \in Seq(Answers) /\ outbox \in Seq(1..MaxCalls)
      /\ ecu \in 0..MaxCalls /\ abandoned \in SUBSET (1..MaxCalls)
      BY Bounds DEF Types, TypeOK
<1>2. \A i \in 1..Len(inbox) : inbox[i] \in Answers
      BY <1>1
<1>3. \A k \in 1..Len(outbox) : outbox[k] \in 1..MaxCalls
  <2> DEFINE S == 1..MaxCalls
  <2>1. outbox \in Seq(S)
        BY <1>1
  <2> HIDE DEF S
  <2>2. \A k \in 1..Len(outbox) : outbox[k] \in S
        BY <2>1
  <2> QED BY <2>2 DEF S
<1> QED BY <1>1, <1>2, <1>3, AnswerAbout

\* A record whose fields are of the right types is an answer.
LEMMA AnswerRecord ==
  ASSUME NEW first \in {NegativeSid} \union {Sid[s] + 64 : s \in DOMAIN Sid},
         NEW echo \in Nat, NEW nrc \in {0, 49, PendingNrc}, NEW data \in {0, 1, 4},
         NEW n \in 1..MaxCalls
  PROVE  [first |-> first, echo |-> echo, nrc |-> nrc, data |-> data, about |-> n]
           \in Answers
<1> DEFINE F == {NegativeSid} \union {Sid[s] + 64 : s \in DOMAIN Sid}
           N == {0, 49, PendingNrc}
           D == {0, 1, 4}
           A == 1..MaxCalls
<1>1. first \in F /\ nrc \in N /\ data \in D /\ n \in A
      OBVIOUS
<1>2. Answers = [first : F, echo : Nat, nrc : N, data : D, about : A]
      BY DEF Answers
<1> HIDE DEF F, N, D, A
<1> QED BY <1>1, <1>2

\* The call that a request was made for.
LEMMA CallFacts ==
  ASSUME NEW n \in 1..Len(asked), asked \in Seq(Calls)
  PROVE  /\ asked[n] \in Calls
         /\ asked[n].service \in UdsServices \union ObdServices
         /\ asked[n].service \in DOMAIN Sid /\ Sid[asked[n].service] \in 1..62
         /\ Sid[asked[n].service] \in Nat
         /\ asked[n].arg \in Nat /\ Echo(asked[n]) \in Nat
<1>1. asked[n] \in Calls
      OBVIOUS
<1>2. /\ asked[n].service \in UdsServices \union ObdServices
      /\ asked[n].arg \in Nat
      BY <1>1, CallType
<1>3. /\ asked[n].service \in DOMAIN Sid /\ Sid[asked[n].service] \in 1..62
      /\ Sid[asked[n].service] \in Nat
      BY <1>2, SidValues
<1>4. Echo(asked[n]) \in Nat
      BY <1>2 DEF Echo
<1> QED BY <1>1, <1>2, <1>3, <1>4

\* A negative answer of the ECU.
LEMMA NegativeFacts ==
  ASSUME NEW n \in 1..Len(asked), Len(asked) <= MaxCalls, asked \in Seq(Calls),
         NEW nrc \in {49, PendingNrc}
  PROVE  /\ Negative(n, nrc) \in Answers
         /\ Negative(n, nrc).about = n /\ Negative(n, nrc).nrc = nrc
         /\ Truthful(Negative(n, nrc))
<1>1. Sid[asked[n].service] \in Nat
      BY CallFacts
<1>2. NegativeSid \in {NegativeSid} \union {Sid[s] + 64 : s \in DOMAIN Sid}
      OBVIOUS
<1>3. n \in 1..MaxCalls /\ nrc \in {0, 49, PendingNrc} /\ 0 \in {0, 1, 4}
      BY Bounds
<1>4. Negative(n, nrc) \in Answers
      BY <1>1, <1>2, <1>3, AnswerRecord DEF Negative
<1>5. /\ Negative(n, nrc).about = n /\ Negative(n, nrc).nrc = nrc
      /\ Negative(n, nrc).first = NegativeSid
      BY DEF Negative
<1> QED BY <1>4, <1>5 DEF Truthful

\* A positive answer of the ECU.
LEMMA PositiveFacts ==
  ASSUME NEW n \in 1..Len(asked), Len(asked) <= MaxCalls, asked \in Seq(Calls),
         NEW data \in {0, 1, 4}
  PROVE  /\ Positive(n, data) \in Answers
         /\ Positive(n, data).about = n /\ Final(Positive(n, data))
         /\ Truthful(Positive(n, data))
<1>1. /\ asked[n].service \in DOMAIN Sid /\ Echo(asked[n]) \in Nat
      BY CallFacts
<1>2. Sid[asked[n].service] + 64
        \in {NegativeSid} \union {Sid[s] + 64 : s \in DOMAIN Sid}
      BY <1>1, Zenon
<1>3. n \in 1..MaxCalls /\ 0 \in {0, 49, PendingNrc}
      BY Bounds
<1>4. Positive(n, data) \in Answers
      BY <1>1, <1>2, <1>3, AnswerRecord DEF Positive
<1>5. /\ Positive(n, data).about = n /\ Positive(n, data).nrc = 0
      /\ Positive(n, data).first = Sid[asked[n].service] + 64
      /\ Positive(n, data).echo = Echo(asked[n])
      BY DEF Positive
<1> QED BY <1>4, <1>5 DEF Truthful, Final, PendingNrc

---------------------------------------------------------------------------
(* The ECU's steps.                                                        *)

\* A request reaches the ECU, or gets lost.
LEMMA EcuTakesIInv == IInv /\ EcuTakes => IInv'
<1> SUFFICES ASSUME IInv, EcuTakes PROVE IInv'
    OBVIOUS
<1>1. /\ asked \in Seq(Calls) /\ Len(asked) \in 0..MaxCalls
      /\ inbox \in Seq(Answers) /\ outbox \in Seq(1..MaxCalls)
      /\ outbox # <<>> /\ ecu = 0 /\ ecu' \in {0, Head(outbox)}
      /\ outbox' = Tail(outbox)
      /\ UNCHANGED <<kind, pc, pend, asked, inbox, outcome, about, abandoned>>
      BY TypeFacts DEF IInv, EcuTakes
<1>2. /\ Len(outbox) \in Nat \ {0} /\ Head(outbox) = outbox[1]
      /\ Head(outbox) \in 1..MaxCalls
      /\ outbox' \in Seq(1..MaxCalls) /\ Len(outbox') = Len(outbox) - 1
      /\ \A k \in 1..(Len(outbox) - 1) : outbox'[k] = outbox[k + 1]
      BY <1>1, TailFacts
<1>3. Types'
  <2>1. ecu' \in 0..MaxCalls
        BY <1>1, <1>2, Bounds
  <2> QED BY <1>1, <1>2, <2>1 DEF IInv, Types, TypeOK
<1>4. Accounted'
      BY <1>1, <1>2 DEF IInv, Accounted, Open
<1>5. Asked'
      BY <1>1, <1>2 DEF IInv, Asked
<1>6. \A i \in 1..Len(inbox) : inbox[i].about \in Nat
      BY TypeFacts DEF IInv
<1>7. InOrder'
      BY <1>1, <1>2, <1>6 DEF IInv, InOrder, Behind, Final
<1>8. AllTruthful'
      BY <1>1 DEF IInv, AllTruthful, Truthful
<1> QED BY <1>3, <1>4, <1>5, <1>7, <1>8 DEF IInv
\* An answer joins the end of the inbox: it is about the request in work, and
\* what the ECU has in work afterwards is the same, after a pending answer, or
\* nothing.
LEMMA AnswerJoins ==
  ASSUME IInv, NEW m \in Answers, ecu # 0, m.about = ecu, Truthful(m),
         ecu' \in {0, ecu}, Final(m) => ecu' = 0,
         inbox' = Append(inbox, m),
         UNCHANGED <<kind, pc, pend, asked, outbox, outcome, about, abandoned>>
  PROVE  IInv'
<1>1. /\ asked \in Seq(Calls) /\ Len(asked) \in 0..MaxCalls
      /\ inbox \in Seq(Answers) /\ outbox \in Seq(1..MaxCalls)
      /\ ecu \in 0..MaxCalls /\ ecu' \in 0..MaxCalls
      /\ \A i \in 1..Len(inbox) : inbox[i].about \in Nat
      /\ \A k \in 1..Len(outbox) : outbox[k] \in 1..MaxCalls
      BY TypeFacts, Bounds DEF IInv
<1>2. /\ inbox' \in Seq(Answers) /\ Len(inbox) \in Nat
      /\ Len(inbox') = Len(inbox) + 1
      /\ \A i \in 1..Len(inbox) : inbox'[i] = inbox[i]
      /\ inbox'[Len(inbox) + 1] = m
      BY <1>1, AppendFacts
<1>3. Types'
      BY <1>1, <1>2 DEF IInv, Types, TypeOK
<1>4. Accounted'
      BY <1>1, <1>2 DEF IInv, Accounted, Open
<1>5. Asked'
      BY <1>1, <1>2 DEF IInv, Asked
<1>6. InOrder'
  <2>1. \A i, j \in 1..Len(inbox') : i < j => Behind(inbox'[i], inbox'[j].about)
        BY <1>1, <1>2 DEF IInv, InOrder, Behind
  <2>2. \A i \in 1..Len(inbox') : ecu' # 0 => Behind(inbox'[i], ecu')
        BY <1>1, <1>2 DEF IInv, InOrder, Behind
  <2>3. \A i \in 1..Len(inbox'), k \in 1..Len(outbox') : inbox'[i].about < outbox'[k]
        BY <1>1, <1>2 DEF IInv, InOrder
  <2>4. /\ \A k \in 1..Len(outbox') : ecu' < outbox'[k]
        /\ \A k, l \in 1..Len(outbox') : k < l => outbox'[k] < outbox'[l]
        BY <1>1 DEF IInv, InOrder
  <2> QED BY <2>1, <2>2, <2>3, <2>4 DEF InOrder, Behind, Final
<1>7. AllTruthful'
      BY <1>1, <1>2 DEF IInv, AllTruthful, Truthful
<1> QED BY <1>3, <1>4, <1>5, <1>6, <1>7 DEF IInv

\* The ECU asks for patience.
LEMMA EcuPendingIInv == IInv /\ EcuPending => IInv'
<1> SUFFICES ASSUME IInv, EcuPending PROVE IInv'
    OBVIOUS
<1> DEFINE m == Negative(ecu, PendingNrc)
<1>1. ecu # 0 /\ ecu' = ecu /\ inbox' = Append(inbox, m)
      /\ UNCHANGED <<kind, pc, pend, asked, outbox, outcome, about, abandoned>>
      BY DEF EcuPending
<1>2. ecu \in 1..Len(asked) /\ Len(asked) <= MaxCalls /\ asked \in Seq(Calls)
      BY <1>1, TypeFacts, Bounds DEF IInv, Asked
<1>3. m \in Answers /\ m.about = ecu /\ Truthful(m) /\ m.nrc = PendingNrc
      BY <1>2, NegativeFacts
<1> HIDE DEF m
<1>4. ~Final(m)
      BY <1>3 DEF Final
<1> QED BY <1>1, <1>3, <1>4, AnswerJoins

\* The ECU answers, or the answer gets lost.
LEMMA EcuAnswersIInv == IInv /\ EcuAnswers => IInv'
<1> SUFFICES ASSUME IInv, EcuAnswers PROVE IInv'
    OBVIOUS
<1>1. ecu # 0 /\ ecu' = 0
      /\ UNCHANGED <<kind, pc, pend, asked, outbox, outcome, about, abandoned>>
      BY DEF EcuAnswers
<1>2. ecu \in 1..Len(asked) /\ Len(asked) <= MaxCalls /\ asked \in Seq(Calls)
      BY <1>1, TypeFacts, Bounds DEF IInv, Asked
<1>3. CASE inbox' = inbox
  <2>1. /\ outbox \in Seq(1..MaxCalls) /\ 0 \in 0..MaxCalls
        /\ \A k \in 1..Len(outbox) : outbox[k] \in 1..MaxCalls
        BY TypeFacts, Bounds DEF IInv
  <2>2. Types' /\ Accounted' /\ Asked' /\ AllTruthful'
        BY <1>1, <1>2, <1>3, <2>1
           DEF IInv, Types, TypeOK, Accounted, Open, Asked, AllTruthful, Truthful
  <2>3. InOrder'
        BY <1>1, <1>3, <2>1 DEF IInv, InOrder, Behind, Final
  <2> QED BY <2>2, <2>3 DEF IInv
<1>4. CASE inbox' = Append(inbox, Negative(ecu, 49))
  <2>1. /\ Negative(ecu, 49) \in Answers /\ Negative(ecu, 49).about = ecu
        /\ Truthful(Negative(ecu, 49))
        BY <1>2, NegativeFacts
  <2> QED BY <1>1, <1>4, <2>1, AnswerJoins
<1>5. ASSUME NEW data \in {0, 1, 4}, inbox' = Append(inbox, Positive(ecu, data))
      PROVE  IInv'
  <2>1. /\ Positive(ecu, data) \in Answers /\ Positive(ecu, data).about = ecu
        /\ Truthful(Positive(ecu, data))
        BY <1>2, PositiveFacts
  <2> QED BY <1>1, <1>5, <2>1, AnswerJoins
<1> QED BY <1>3, <1>4, <1>5 DEF EcuAnswers
---------------------------------------------------------------------------
(* The client's steps.                                                     *)

\* The initial states.
LEMMA InitIInv == Init => IInv
<1> SUFFICES ASSUME Init PROVE IInv
    OBVIOUS
<1>1. /\ inbox = <<>> /\ outbox = <<>> /\ asked = <<>> /\ ecu = 0
      /\ Len(inbox) = 0 /\ Len(outbox) = 0 /\ Len(asked) = 0
      BY DEF Init
<1>2. Types
      BY <1>1, Bounds DEF Init, Types, TypeOK
<1>3. Accounted /\ Asked /\ InOrder /\ AllTruthful
      BY <1>1 DEF Accounted, Asked, InOrder, AllTruthful
<1> QED BY <1>2, <1>3 DEF IInv

\* A request is made: it is the youngest, and open.
LEMMA CallIInv ==
  ASSUME IInv, NEW c \in Calls, Call(c)
  PROVE  IInv'
<1> DEFINE n == Len(asked) + 1
<1>1. /\ asked \in Seq(Calls) /\ Len(asked) \in 0..MaxCalls
      /\ inbox \in Seq(Answers) /\ outbox \in Seq(1..MaxCalls)
      /\ ecu \in 0..MaxCalls /\ abandoned \in SUBSET (1..MaxCalls)
      /\ \A i \in 1..Len(inbox) : inbox[i].about \in Nat
      /\ \A k \in 1..Len(outbox) : outbox[k] \in 1..MaxCalls
      BY TypeFacts, Bounds DEF IInv
<1>2. /\ asked' \in Seq(Calls) /\ Len(asked) \in Nat /\ Len(asked') = n
      /\ \A i \in 1..Len(asked) : asked'[i] = asked[i]
      BY <1>1, AppendFacts DEF Call
<1>3. /\ pc = "idle" /\ Len(asked) < MaxCalls /\ outbox' = Append(outbox, n)
      /\ pend' = 0
      /\ UNCHANGED <<kind, ecu, inbox>>
      BY <1>2 DEF Call
<1>4. \/ pc' = "idle" /\ abandoned' = abandoned \union {n} /\ outcome' = "Ok" /\ about' = 0
      \/ pc' = "waiting" /\ UNCHANGED <<outcome, about, abandoned>>
      BY <1>2 DEF Call, Return
<1>5. n \in 1..MaxCalls
      BY <1>1, <1>3, Bounds
<1>6. /\ outbox' \in Seq(1..MaxCalls) /\ Len(outbox) \in Nat
      /\ Len(outbox') = Len(outbox) + 1
      /\ \A k \in 1..Len(outbox) : outbox'[k] = outbox[k]
      /\ outbox'[Len(outbox) + 1] = n
      BY <1>1, <1>3, <1>5, AppendFacts
<1>7. Types'
  <2>1. pend' \in 0..(MaxPending + 1) /\ pend' <= MaxPending
        BY <1>3, Bounds
  <2>2. abandoned' \in SUBSET (1..MaxCalls)
        BY <1>1, <1>4, <1>5
  <2>3. /\ kind \in {"uds", "obd"} /\ about \in 0..MaxCalls
        /\ outcome \in {"none", "Rejected", "Ok", "OkBlank", "Negative", "Unexpected",
                       "TooMany", "Timeout"}
        BY DEF IInv, Types, TypeOK
  <2>4. /\ pc' \in {"idle", "waiting"} /\ about' \in 0..MaxCalls
        /\ outcome' \in {"none", "Rejected", "Ok", "OkBlank", "Negative", "Unexpected",
                        "TooMany", "Timeout"}
        BY <1>4, <2>3, Bounds
  <2>5. Len(asked') <= MaxCalls /\ Len(asked') > 0
        BY <1>2, <1>5, Bounds
  <2>6. /\ kind' \in {"uds", "obd"} /\ ecu' \in 0..MaxCalls
        /\ inbox' \in Seq(Answers)
        BY <1>1, <1>3, <2>3
  <2> QED BY <1>2, <1>6, <2>1, <2>2, <2>4, <2>5, <2>6 DEF Types, TypeOK
<1>8. Open \subseteq Open' /\ n \in Open'
      BY <1>2, <1>3, <1>4 DEF Open
<1>9. Accounted'
      BY <1>3, <1>6, <1>8 DEF IInv, Accounted
<1>10. Asked'
      BY <1>1, <1>2, <1>3, <1>6 DEF IInv, Asked
<1>11. InOrder'
  <2>1. /\ \A i, j \in 1..Len(inbox') : i < j => Behind(inbox'[i], inbox'[j].about)
        /\ \A i \in 1..Len(inbox') : ecu' # 0 => Behind(inbox'[i], ecu')
        BY <1>3 DEF IInv, InOrder
  <2>2. \A i \in 1..Len(inbox'), k \in 1..Len(outbox') : inbox'[i].about < outbox'[k]
        BY <1>1, <1>2, <1>3, <1>6 DEF IInv, InOrder, Asked
  <2>3. \A k \in 1..Len(outbox') : ecu' < outbox'[k]
        BY <1>1, <1>2, <1>3, <1>6 DEF IInv, InOrder, Asked
  <2>4. \A k, l \in 1..Len(outbox') : k < l => outbox'[k] < outbox'[l]
    <3>1. \A k \in 1..Len(outbox) : outbox[k] < n
          BY <1>1, <1>2 DEF IInv, Asked
    <3>2. \A k, l \in 1..Len(outbox) : k < l => outbox[k] < outbox[l]
          BY DEF IInv, InOrder
    <3> QED BY <1>6, <3>1, <3>2
  <2> QED BY <2>1, <2>2, <2>3, <2>4 DEF InOrder, Behind, Final
<1>12. AllTruthful'
  <2> SUFFICES ASSUME NEW i \in 1..Len(inbox) PROVE Truthful(inbox[i])'
      BY <1>3 DEF AllTruthful
  <2>1. inbox[i].about \in 1..Len(asked)
        BY <1>1, TypeFacts, AnswerAbout DEF IInv, Asked
  <2>2. asked'[inbox[i].about] = asked[inbox[i].about]
        BY <1>2, <2>1
  <2>3. Truthful(inbox[i])
        BY DEF IInv, AllTruthful
  <2> QED BY <1>3, <2>2, <2>3 DEF Truthful
<1> QED BY <1>7, <1>9, <1>10, <1>11, <1>12 DEF IInv

\* A call returns without taking an answer: its request is abandoned, unless it
\* made none.
LEMMA ReturnIInv ==
  ASSUME IInv, pc' = "idle", UNCHANGED <<kind, pend, asked, outbox, ecu, inbox>>,
         \/ pc = "waiting" /\ abandoned' = abandoned \union {Len(asked)}
         \/ pc = "idle" /\ abandoned' = abandoned,
         outcome' \in {"Timeout", "Rejected"}, about' = 0
  PROVE  IInv'
<1>1. /\ Len(asked) \in 0..MaxCalls /\ abandoned \in SUBSET (1..MaxCalls)
      /\ pc = "waiting" => Len(asked) \in 1..MaxCalls
      BY TypeFacts, Bounds DEF IInv, Types
<1>2. Types'
  <2>1. about' \in 0..MaxCalls
        BY Bounds
  <2>2. abandoned' \in SUBSET (1..MaxCalls)
    <3>1. CASE pc = "waiting" /\ abandoned' = abandoned \union {Len(asked)}
          BY <1>1, <3>1
    <3>2. CASE pc = "idle" /\ abandoned' = abandoned
          BY <1>1, <3>2
    <3> QED BY <3>1, <3>2
  <2> QED BY <1>1, <2>1, <2>2 DEF IInv, Types, TypeOK
<1>3. Open' = Open
      BY DEF Open
<1> QED BY <1>2, <1>3
        DEF IInv, Accounted, Asked, InOrder, Behind, Final, AllTruthful, Truthful

\* An answer that is taken leaves the others where they were.
LEMMA TakenFacts ==
  ASSUME IInv, inbox # <<>>, inbox' = Tail(inbox), UNCHANGED <<asked, outbox, ecu>>
  PROVE  /\ inbox' \in Seq(Answers) /\ Head(inbox) \in Answers
         /\ Head(inbox) = inbox[1] /\ 1 \in 1..Len(inbox)
         /\ Head(inbox).about \in 1..MaxCalls /\ Head(inbox).about <= Len(asked)
         /\ Head(inbox).about \in Open
         /\ Truthful(Head(inbox))
         /\ \A i \in 1..Len(inbox') : i + 1 \in 1..Len(inbox) /\ inbox'[i] = inbox[i + 1]
         /\ Asked' /\ InOrder' /\ AllTruthful'
<1>1. inbox \in Seq(Answers)
      BY TypeFacts DEF IInv
<1>2. /\ Len(inbox) \in Nat \ {0} /\ Head(inbox) = inbox[1] /\ Head(inbox) \in Answers
      /\ inbox' \in Seq(Answers) /\ Len(inbox') = Len(inbox) - 1
      /\ \A i \in 1..(Len(inbox) - 1) : inbox'[i] = inbox[i + 1]
      BY <1>1, TailFacts
<1>3. 1 \in 1..Len(inbox)
      BY <1>2
<1>4. \A i \in 1..Len(inbox') : i + 1 \in 1..Len(inbox) /\ inbox'[i] = inbox[i + 1]
      BY <1>2
<1>5. Head(inbox).about \in 1..MaxCalls
      BY <1>2, AnswerAbout
<1>6. /\ Head(inbox).about <= Len(asked) /\ Head(inbox).about \in Open
      /\ Truthful(Head(inbox))
      BY <1>2, <1>3 DEF IInv, Asked, Accounted, AllTruthful
<1>7. Asked'
      BY <1>4 DEF IInv, Asked
<1>8. InOrder'
  <2>1. \A i, j \in 1..Len(inbox') : i < j => Behind(inbox'[i], inbox'[j].about)
    <3> SUFFICES ASSUME NEW i \in 1..Len(inbox'), NEW j \in 1..Len(inbox'), i < j
                 PROVE  Behind(inbox'[i], inbox'[j].about)
        OBVIOUS
    <3>1. /\ i + 1 \in 1..Len(inbox) /\ j + 1 \in 1..Len(inbox) /\ i + 1 < j + 1
          /\ inbox'[i] = inbox[i + 1] /\ inbox'[j] = inbox[j + 1]
          BY <1>2, <1>4
    <3> QED BY <3>1 DEF IInv, InOrder
  <2>2. \A i \in 1..Len(inbox') : ecu' # 0 => Behind(inbox'[i], ecu')
        BY <1>4 DEF IInv, InOrder
  <2>3. \A i \in 1..Len(inbox'), k \in 1..Len(outbox') : inbox'[i].about < outbox'[k]
        BY <1>4 DEF IInv, InOrder
  <2>4. /\ \A k \in 1..Len(outbox') : ecu' < outbox'[k]
        /\ \A k, l \in 1..Len(outbox') : k < l => outbox'[k] < outbox'[l]
        BY DEF IInv, InOrder
  <2> QED BY <2>1, <2>2, <2>3, <2>4 DEF InOrder, Behind, Final
<1>9. AllTruthful'
  <2> SUFFICES ASSUME NEW i \in 1..Len(inbox') PROVE Truthful(inbox[i])'
      BY DEF AllTruthful
  <2>1. Truthful(inbox[i + 1]) /\ inbox'[i] = inbox[i + 1]
        BY <1>4 DEF IInv, AllTruthful
  <2> QED BY <2>1 DEF Truthful
<1> QED BY <1>2, <1>3, <1>4, <1>5, <1>6, <1>7, <1>8, <1>9

\* What is on its way belongs to open requests still, if no request that was open
\* is closed but the one whose final answer was taken.
LEMMA TakenAccounted ==
  ASSUME IInv, inbox # <<>>, inbox' = Tail(inbox), UNCHANGED <<asked, outbox, ecu>>,
         NEW closing,
         Open \subseteq Open' \union closing,
         \/ closing = {}
         \/ /\ closing = {Len(asked)}
            /\ Head(inbox).about = Len(asked) /\ Final(Head(inbox))
  PROVE  Accounted'
<1>1. /\ Head(inbox) = inbox[1] /\ 1 \in 1..Len(inbox)
      /\ \A i \in 1..Len(inbox') : i + 1 \in 1..Len(inbox) /\ inbox'[i] = inbox[i + 1]
      BY TakenFacts
<1>2. CASE closing = {}
      BY <1>1, <1>2 DEF IInv, Accounted
<1>3. CASE /\ closing = {Len(asked)}
           /\ Head(inbox).about = Len(asked) /\ Final(Head(inbox))
  <2>1. /\ \A i \in 1..Len(inbox) : inbox[i].about \in Nat
        /\ \A k \in 1..Len(outbox) : outbox[k] \in 1..MaxCalls
        /\ ecu \in 0..MaxCalls /\ Len(asked) \in 0..MaxCalls
        BY TypeFacts DEF IInv
  <2>2. \A i \in 1..Len(inbox') : inbox'[i].about \notin closing
    <3> SUFFICES ASSUME NEW i \in 1..Len(inbox')
                 PROVE  inbox[i + 1].about # Len(asked)
        BY <1>1, <1>3
    <3>1. i + 1 \in 1..Len(inbox) /\ 1 < i + 1
          BY <1>1
    <3>2. Behind(inbox[1], inbox[i + 1].about)
          BY <1>1, <3>1 DEF IInv, InOrder
    <3> QED BY <1>1, <1>3, <3>2 DEF Behind
  <2>3. ecu # 0 => ecu \notin closing
        BY <1>1, <1>3 DEF IInv, InOrder, Behind
  <2>4. \A k \in 1..Len(outbox) : outbox[k] \notin closing
        BY <1>1, <1>3, <2>1, Bounds DEF IInv, InOrder
  <2> QED BY <1>1, <2>2, <2>3, <2>4 DEF IInv, Accounted
<1> QED BY <1>2, <1>3

\* A pending answer: the call waits on, or gives up and abandons its request.
LEMMA ReceivePendingIInv == IInv /\ ReceivePending => IInv'
<1> SUFFICES ASSUME IInv, ReceivePending PROVE IInv'
    OBVIOUS
<1>1. /\ pc = "waiting" /\ inbox # <<>> /\ inbox' = Tail(inbox) /\ pend' = pend + 1
      /\ UNCHANGED <<kind, asked, outbox, ecu>>
      /\ \/ /\ pend = MaxPending /\ pc' = "idle" /\ outcome' = "TooMany"
            /\ about' = Head(inbox).about /\ abandoned' = abandoned \union {Len(asked)}
         \/ pend # MaxPending /\ UNCHANGED <<pc, outcome, about, abandoned>>
      BY DEF ReceivePending, GivesUp, Return
<1>2. /\ inbox' \in Seq(Answers) /\ Head(inbox).about \in 1..MaxCalls
      /\ Asked' /\ InOrder' /\ AllTruthful'
      BY <1>1, TakenFacts
<1>3. Open' = Open
      BY <1>1 DEF Open
<1>4. Accounted'
  <2>1. Open \subseteq Open' \union {}
        BY <1>3
  <2> QED BY <1>1, <2>1, TakenAccounted
<1>5. Types'
  <2>1. /\ pend \in 0..(MaxPending + 1) /\ pend <= MaxPending /\ Len(asked) > 0
        /\ Len(asked) <= MaxCalls
        BY <1>1 DEF IInv, Types, TypeOK
  <2>2. Len(asked) \in 1..MaxCalls /\ abandoned \in SUBSET (1..MaxCalls)
        BY <2>1, TypeFacts, Bounds DEF IInv
  <2>3. pend' \in 0..(MaxPending + 1) /\ (pend # MaxPending => pend' <= MaxPending)
        BY <1>1, <2>1, Bounds
  <2>4. CASE pend = MaxPending
    <3>1. about' \in 0..MaxCalls
          BY <1>1, <1>2, <2>4, Bounds
    <3>2. abandoned' = abandoned \union {Len(asked)}
          BY <1>1, <2>4
    <3>3. abandoned' \in SUBSET (1..MaxCalls)
          BY <2>2, <3>2
    <3> QED BY <1>1, <1>2, <2>1, <2>3, <2>4, <3>1, <3>3 DEF IInv, Types, TypeOK
  <2>5. CASE pend # MaxPending
        BY <1>1, <1>2, <2>1, <2>3, <2>5 DEF IInv, Types, TypeOK
  <2> QED BY <2>4, <2>5
<1> QED BY <1>2, <1>4, <1>5 DEF IInv

\* What a call returns with the answer it takes.
LEMMA ReceiveFacts ==
  ASSUME IInv, Receive
  PROVE  /\ pc = "waiting" /\ pc' = "idle" /\ inbox # <<>> /\ inbox' = Tail(inbox)
         /\ UNCHANGED <<kind, pend, asked, outbox, ecu>>
         /\ outcome' = Verdict(Calling, Head(inbox)) /\ about' = Head(inbox).about
         /\ \/ abandoned' = abandoned \union {Len(asked)}
            \/ /\ abandoned' = abandoned
               /\ Head(inbox).about = Len(asked) /\ Final(Head(inbox))
<1>1. /\ pc = "waiting" /\ pc' = "idle" /\ inbox # <<>> /\ inbox' = Tail(inbox)
      /\ UNCHANGED <<kind, pend, asked, outbox, ecu>>
      /\ outcome' = Verdict(Calling, Head(inbox)) /\ about' = Head(inbox).about
      /\ ~IsPending(Head(inbox))
      BY DEF Receive, Return
<1>2. abandoned' = abandoned \union
                     (IF \/ Head(inbox).about # Len(asked)
                         \/ kind = "obd" /\ ~Final(Head(inbox))
                      THEN {Len(asked)} ELSE {})
      BY DEF Receive, Return
<1>3. kind \in {"uds", "obd"}
      BY DEF IInv, Types, TypeOK
<1>4. Head(inbox).nrc = PendingNrc => Head(inbox).first = NegativeSid
      BY <1>1, TakenFacts DEF Truthful
<1>5. kind = "uds" => Final(Head(inbox))
      BY <1>1, <1>4 DEF IsPending, Final
<1> QED BY <1>1, <1>2, <1>3, <1>5

\* An answer that ends the call.
LEMMA ReceiveIInv == IInv /\ Receive => IInv'
<1> SUFFICES ASSUME IInv, Receive PROVE IInv'
    OBVIOUS
<1>1. /\ pc = "waiting" /\ pc' = "idle" /\ inbox # <<>> /\ inbox' = Tail(inbox)
      /\ UNCHANGED <<kind, pend, asked, outbox, ecu>>
      /\ about' = Head(inbox).about
      BY ReceiveFacts
<1>2. /\ inbox' \in Seq(Answers) /\ Head(inbox).about \in 1..MaxCalls
      /\ Asked' /\ InOrder' /\ AllTruthful'
      BY <1>1, TakenFacts
<1>3. \/ abandoned' = abandoned \union {Len(asked)}
      \/ /\ abandoned' = abandoned
         /\ Head(inbox).about = Len(asked) /\ Final(Head(inbox))
      BY ReceiveFacts
<1>4. Accounted'
  <2>1. CASE abandoned' = abandoned \union {Len(asked)}
    <3>1. Open \subseteq Open' \union {}
          BY <1>1, <2>1 DEF Open
    <3> QED BY <1>1, <3>1, TakenAccounted
  <2>2. CASE /\ abandoned' = abandoned
             /\ Head(inbox).about = Len(asked) /\ Final(Head(inbox))
    <3>1. Open \subseteq Open' \union {Len(asked)}
          BY <1>1, <2>2 DEF Open
    <3> QED BY <1>1, <2>2, <3>1, TakenAccounted
  <2> QED BY <1>3, <2>1, <2>2
<1>5. Types'
  <2>1. /\ Len(asked) > 0 /\ Len(asked) <= MaxCalls
        BY <1>1 DEF IInv, Types
  <2>2. Len(asked) \in 1..MaxCalls /\ abandoned \in SUBSET (1..MaxCalls)
        BY <2>1, TypeFacts, Bounds DEF IInv
  <2>3. abandoned' \in SUBSET (1..MaxCalls)
    <3>1. CASE abandoned' = abandoned \union {Len(asked)}
          BY <2>2, <3>1
    <3>2. CASE abandoned' = abandoned
          BY <2>2, <3>2
    <3> QED BY <1>3, <3>1, <3>2
  <2>4. about' \in 0..MaxCalls
        BY <1>1, <1>2, Bounds
  <2>5. outcome' \in {"Ok", "OkBlank", "Negative", "Unexpected"}
        BY ReceiveFacts DEF Verdict
  <2> QED BY <1>1, <1>2, <2>1, <2>3, <2>4, <2>5 DEF IInv, Types, TypeOK
<1> QED BY <1>2, <1>4, <1>5 DEF IInv

\* Every step keeps the invariant.
LEMMA NextIInv == IInv /\ [Next]_vars => IInv'
<1> SUFFICES ASSUME IInv, [Next]_vars PROVE IInv'
    OBVIOUS
<1>1. ASSUME NEW c \in Calls, CallRejected(c) PROVE IInv'
  <2>1. /\ pc = "idle" /\ pc' = "idle" /\ abandoned' = abandoned
        /\ outcome' = "Rejected" /\ about' = 0
        /\ UNCHANGED <<kind, pend, asked, outbox, ecu, inbox>>
        BY <1>1 DEF CallRejected, Return
  <2> QED BY <2>1, ReturnIInv
<1>2. ASSUME NEW c \in Calls, Call(c) PROVE IInv'
      BY <1>2, CallIInv
<1>3. CASE ReceivePending
      BY <1>3, ReceivePendingIInv
<1>4. CASE Receive
      BY <1>4, ReceiveIInv
<1>5. CASE Timeout
  <2>1. /\ pc = "waiting" /\ pc' = "idle"
        /\ abandoned' = abandoned \union {Len(asked)}
        /\ outcome' = "Timeout" /\ about' = 0
        /\ UNCHANGED <<kind, pend, asked, outbox, ecu, inbox>>
        BY <1>5 DEF Timeout, Return
  <2> QED BY <2>1, ReturnIInv
<1>6. CASE EcuTakes
      BY <1>6, EcuTakesIInv
<1>7. CASE EcuPending
      BY <1>7, EcuPendingIInv
<1>8. CASE EcuAnswers
      BY <1>8, EcuAnswersIInv
<1>9. CASE UNCHANGED vars
      BY <1>9 DEF vars, IInv, Types, TypeOK, Accounted, Open, Asked, InOrder, Behind,
                  Final, AllTruthful, Truthful
<1> QED BY <1>1, <1>2, <1>3, <1>4, <1>5, <1>6, <1>7, <1>8, <1>9 DEF Next

\* A call that an answer ends: it is its own or one to an abandoned request, and
\* a success has the identifiers of the call.
LEMMA InStepStep ==
  ASSUME IInv, Next, pc = "waiting", pc' = "idle", about' # 0
  PROVE  /\ about' \in abandoned \union {Len(asked)}
         /\ outcome' \in {"Ok", "OkBlank"} =>
              /\ Sid[asked[about'].service] = Sid[Calling.service]
              /\ Echo(asked[about']) = Echo(Calling)
<1>1. ReceivePending \/ Receive
      BY DEF Next, CallRejected, Call, Timeout, Return, EcuTakes, EcuPending, EcuAnswers
<1>2. CASE ReceivePending
  <2>1. /\ inbox # <<>> /\ inbox' = Tail(inbox) /\ UNCHANGED <<asked, outbox, ecu>>
        /\ about' = Head(inbox).about /\ outcome' = "TooMany"
        BY <1>2 DEF ReceivePending, Return
  <2>2. Head(inbox).about \in Open
        BY <2>1, TakenFacts
  <2> QED BY <2>1, <2>2 DEF Open
<1>3. CASE Receive
  <2> DEFINE m == Head(inbox)
  <2>1. /\ inbox # <<>> /\ inbox' = Tail(inbox) /\ UNCHANGED <<asked, outbox, ecu>>
        /\ about' = m.about /\ outcome' = Verdict(Calling, m)
        BY <1>3, ReceiveFacts
  <2>2. /\ m.about \in Open /\ m.about \in 1..MaxCalls /\ m.about <= Len(asked)
        /\ Truthful(m)
        BY <2>1, TakenFacts
  <2> HIDE DEF m
  <2>3. ASSUME outcome' \in {"Ok", "OkBlank"}
        PROVE  /\ Sid[asked[m.about].service] = Sid[Calling.service]
               /\ Echo(asked[m.about]) = Echo(Calling)
    <3>1. /\ m.first # NegativeSid /\ m.first = Sid[Calling.service] + 64
          /\ m.echo = Echo(Calling)
          BY <2>1, <2>3 DEF Verdict
    <3>2. /\ m.first = Sid[asked[m.about].service] + 64
          /\ m.echo = Echo(asked[m.about])
          BY <2>2, <3>1 DEF Truthful
    <3>3. m.about \in 1..Len(asked) /\ Len(asked) \in 1..Len(asked) /\ asked \in Seq(Calls)
          BY <2>2, TypeFacts, Bounds DEF IInv
    <3>4. Sid[asked[m.about].service] \in Nat /\ Sid[Calling.service] \in Nat
          BY <3>3, CallFacts DEF Calling
    <3> QED BY <3>1, <3>2, <3>4
  <2> QED BY <2>1, <2>2, <2>3 DEF Open
<1> QED BY <1>1, <1>2, <1>3

---------------------------------------------------------------------------

\* The clients' state keeps its types; a call takes no more pending answers than
\* MAX_RESPONSE_PENDING_RETRIES allows.
THEOREM DiagnosticsTypeOK == Spec => []TypeOK
<1>1. IInv => TypeOK
      BY DEF IInv, Types
<1> QED BY <1>1, InitIInv, NextIInv, PTL DEF Spec

\* UDS Client and OBD-II Client: the answer that ends a call is that of its own
\* request or of one abandoned before, and a success is one to the same request.
THEOREM DiagnosticsInStep == Spec => InStep
<1>1. IInv /\ [Next]_vars =>
        [pc = "waiting" /\ pc' = "idle" /\ about' # 0 =>
           /\ about' \in abandoned \union {Len(asked)}
           /\ outcome' \in {"Ok", "OkBlank"} =>
                /\ Sid[asked[about'].service] = Sid[Calling.service]
                /\ Echo(asked[about']) = Echo(Calling)]_vars
  <2> SUFFICES ASSUME IInv, Next, pc = "waiting", pc' = "idle", about' # 0
               PROVE  /\ about' \in abandoned \union {Len(asked)}
                      /\ outcome' \in {"Ok", "OkBlank"} =>
                           /\ Sid[asked[about'].service] = Sid[Calling.service]
                           /\ Echo(asked[about']) = Echo(Calling)
      BY DEF vars
  <2> QED BY InStepStep
<1> QED BY <1>1, InitIInv, NextIInv, PTL DEF Spec, InStep
=============================================================================
