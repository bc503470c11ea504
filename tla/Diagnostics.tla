----------------------------- MODULE Diagnostics -----------------------------
(***************************************************************************)
(* The request-and-answer clients over ISO-TP: the UDS client of           *)
(* src/uds/mod.rs and the OBD-II client of src/obdii/mod.rs.  One task     *)
(* makes one call after another; the control unit (ECU) at the other end   *)
(* is outside this code and may be slow, silent, terse or talkative.       *)
(*                                                                         *)
(* The connection is a MessageChannel in each direction: messages arrive   *)
(* whole and in order or not at all, and what the client does not wait for *)
(* stays in its subscription.  Every message carries, as history, the      *)
(* number of the request it answers; the client cannot see it.             *)
(***************************************************************************)
EXTENDS Integers, Sequences

CONSTANTS
  Calls,       \* the calls a caller may make: [service, arg]
  MaxCalls,    \* bound on the number of requests
  MaxPending,  \* MAX_RESPONSE_PENDING_RETRIES
  MaxInbox     \* bound on the answers that wait

UdsServices == {"session", "reset", "read", "seed", "key", "write", "tester"}
ObdServices == {"pid", "supported", "vin"}

\* arg is a level, an identifier or a PID, one or two bytes wide.
ASSUME DiagnosticsAssumption ==
  /\ Calls \subseteq [service : UdsServices \union ObdServices, arg : Nat]
  /\ MaxCalls \in Nat /\ MaxPending \in Nat /\ MaxInbox \in Nat \ {0}

VARIABLES
  kind,       \* "uds" or "obd"
  pc,         \* "idle", or "waiting" in recv()
  pend,       \* pending answers that this call has received
  asked,      \* the calls that sent a request
  outbox,     \* requests on their way to the ECU
  ecu,        \* number of the request that the ECU works on, or 0
  inbox,      \* answers in the client's subscription
  outcome,    \* what the last call returned
  about,      \* history: the request whose answer it was, or 0
  abandoned   \* history: requests the client no longer waits for, and whose
              \* final answer it has not seen

vars == <<kind, pc, pend, asked, outbox, ecu, inbox, outcome, about, abandoned>>

Init ==
  /\ kind \in {"uds", "obd"}
  /\ pc = "idle" /\ pend = 0
  /\ asked = <<>> /\ outbox = <<>> /\ ecu = 0 /\ inbox = <<>>
  /\ outcome = "none" /\ about = 0 /\ abandoned = {}

---------------------------------------------------------------------------
(* Variants with one bug each.                                             *)

NeverPending(m) == FALSE
NeverGivesUp == FALSE
NoTimer == FALSE

---------------------------------------------------------------------------
(* The bytes of the protocols.                                             *)

NegativeSid == 127
PendingNrc == 120

Sid == [session |-> 16, reset |-> 17, read |-> 34, seed |-> 39, key |-> 39,
        write |-> 46, tester |-> 62, pid |-> 1, supported |-> 1, vin |-> 9]

ServicesOf(k) == IF k = "uds" THEN UdsServices ELSE ObdServices

\* The sub-function, identifier or PID that an answer has to repeat.  The key is
\* sent at the level after that of its seed.
Echo(c) == IF c.service = "key" THEN c.arg + 1 ELSE c.arg

\* security_access_send_key: level 0xFF has no key level.
Rejected(c) == c.service = "key" /\ c.arg = 255

\* tester_present with the suppress bit.
Suppressed(c) == c.service = "tester" /\ c.arg = 128

\* Data bytes without which an answer is too short.
MinData(service) ==
  CASE service \in {"read", "pid"} -> 1
    [] service = "vin"       -> 2
    [] service = "supported" -> 4
    [] OTHER                 -> 0

\* decode_mode01: the data bytes that the formula of a PID reads, 0 if it has
\* none.  An answer with fewer is returned as the value 0 without a unit.
TwoBytePids == {12, 16, 31, 66}
OneBytePids == {4, 5, 11, 13, 14, 15, 17, 47, 51, 70}

Formula(pid) ==
  IF pid \in TwoBytePids THEN 2 ELSE IF pid \in OneBytePids THEN 1 ELSE 0

Decoded(c, m) ==
  c.service = "pid" => Formula(c.arg) > 0 /\ m.data >= Formula(c.arg)

---------------------------------------------------------------------------
(* The ECU.                                                                *)

Positive(n, data) ==
  [first |-> Sid[asked[n].service] + 64, echo |-> Echo(asked[n]), nrc |-> 0,
   data |-> data, about |-> n]

Negative(n, nrc) ==
  [first |-> NegativeSid, echo |-> Sid[asked[n].service], nrc |-> nrc, data |-> 0,
   about |-> n]

\* It takes the next request; one on the way may get lost.
EcuTakes ==
  /\ ecu = 0 /\ outbox # <<>>
  /\ ecu' \in {0, Head(outbox)}
  /\ outbox' = Tail(outbox)
  /\ UNCHANGED <<kind, pc, pend, asked, inbox, outcome, about, abandoned>>

\* It asks for patience, as often as it likes.
EcuPending ==
  /\ ecu # 0 /\ Len(inbox) < MaxInbox
  /\ inbox' = Append(inbox, Negative(ecu, PendingNrc))
  /\ UNCHANGED <<kind, pc, pend, asked, outbox, ecu, outcome, about, abandoned>>

\* The final answer, which may get lost.  To a suppressed request it is silent
\* or says no.
EcuAnswers ==
  /\ ecu # 0 /\ Len(inbox) < MaxInbox
  /\ \/ UNCHANGED inbox
     \/ inbox' = Append(inbox, Negative(ecu, 49))
     \/ /\ ~Suppressed(asked[ecu])
        /\ \E data \in {0, 1, 4} : inbox' = Append(inbox, Positive(ecu, data))
  /\ ecu' = 0
  /\ UNCHANGED <<kind, pc, pend, asked, outbox, outcome, about, abandoned>>

---------------------------------------------------------------------------
(* A call.                                                                 *)

Calling == asked[Len(asked)]

Return(result, n, given) ==
  /\ pc' = "idle"
  /\ outcome' = result
  /\ about' = n
  /\ abandoned' = abandoned \union given

\* checked_add fails: nothing is sent.
CallRejected(c) ==
  /\ pc = "idle" /\ kind = "uds" /\ Rejected(c)
  /\ Return("Rejected", 0, {})
  /\ UNCHANGED <<kind, pend, asked, outbox, ecu, inbox>>

\* A suppressed tester present returns once it is sent.
Call(c) ==
  /\ pc = "idle" /\ c.service \in ServicesOf(kind) /\ ~Rejected(c)
  /\ Len(asked) < MaxCalls
  /\ asked' = Append(asked, c)
  /\ outbox' = Append(outbox, Len(asked'))
  /\ pend' = 0
  /\ IF Suppressed(c)
     THEN Return("Ok", 0, {Len(asked')})
     ELSE /\ pc' = "waiting"
          /\ UNCHANGED <<outcome, about, abandoned>>
  /\ UNCHANGED <<kind, ecu, inbox>>

\* Only the UDS client knows the pending answer.
IsPending(m) == kind = "uds" /\ m.first = NegativeSid /\ m.nrc = PendingNrc

\* for _ in 0..=MAX_RESPONSE_PENDING_RETRIES
GivesUp == pend = MaxPending

ReceivePending ==
  /\ pc = "waiting" /\ inbox # <<>> /\ IsPending(Head(inbox))
  /\ inbox' = Tail(inbox)
  /\ pend' = pend + 1
  /\ IF GivesUp
     THEN Return("TooMany", Head(inbox).about, {Len(asked)})
     ELSE UNCHANGED <<pc, outcome, about, abandoned>>
  /\ UNCHANGED <<kind, asked, outbox, ecu>>

\* What a call makes of an answer that is not a pending one.  The service that a
\* negative answer names is reported and not compared.
Verdict(c, m) ==
  IF m.first = NegativeSid THEN "Negative"
  ELSE IF /\ m.first = Sid[c.service] + 64
          /\ m.echo = Echo(c)
          /\ m.data >= MinData(c.service)
       THEN (IF Decoded(c, m) THEN "Ok" ELSE "OkBlank")
       ELSE "Unexpected"

\* The final answer to the request, as far as anyone can tell.
Final(m) == m.nrc # PendingNrc

Receive ==
  /\ pc = "waiting" /\ inbox # <<>> /\ ~IsPending(Head(inbox))
  /\ inbox' = Tail(inbox)
  /\ LET m == Head(inbox)
     IN  Return(Verdict(Calling, m), m.about,
                IF m.about # Len(asked) \/ (kind = "obd" /\ ~Final(m))
                THEN {Len(asked)} ELSE {})
  /\ UNCHANGED <<kind, pend, asked, outbox, ecu>>

\* recv() gives up after config.timeout without a message, and send() when the
\* ECU grants no flow.
TimerFires == TRUE

Timeout ==
  /\ pc = "waiting" /\ inbox = <<>> /\ TimerFires
  /\ Return("Timeout", 0, {Len(asked)})
  /\ UNCHANGED <<kind, pend, asked, outbox, ecu, inbox>>

---------------------------------------------------------------------------

Next ==
  \/ \E c \in Calls : CallRejected(c) \/ Call(c)
  \/ ReceivePending \/ Receive \/ Timeout
  \/ EcuTakes \/ EcuPending \/ EcuAnswers

\* A call that waits is woken by a message or by its timer.  The ECU owes no one
\* anything.
Fairness == WF_vars(ReceivePending \/ Receive \/ Timeout)

Spec == Init /\ [][Next]_vars /\ Fairness

---------------------------------------------------------------------------
(* Properties                                                              *)

Answers ==
  [first : {NegativeSid} \union {Sid[s] + 64 : s \in DOMAIN Sid},
   echo : Nat, nrc : {0, 49, PendingNrc}, data : {0, 1, 4}, about : 1..MaxCalls]

\* Every variable keeps its type, and a call takes no more pending answers than
\* its retries allow.
TypeOK ==
  /\ kind \in {"uds", "obd"}
  /\ pc \in {"idle", "waiting"}
  /\ pend \in 0..(MaxPending + 1)
  /\ asked \in Seq(Calls)
  /\ outbox \in Seq(1..MaxCalls)
  /\ ecu \in 0..MaxCalls
  /\ inbox \in Seq(Answers)
  /\ outcome \in {"none", "Rejected", "Ok", "OkBlank", "Negative", "Unexpected",
                  "TooMany", "Timeout"}
  /\ about \in 0..MaxCalls
  /\ abandoned \in SUBSET (1..MaxCalls)

\* Client and ECU stay in step as long as no call gives up: the answer that ends
\* a call is that of its own request or of one abandoned before.  A positive
\* answer to another request is taken for a success only if that request was the
\* same, byte for byte.  Nothing brings them into step again: after one timeout
\* every call may get the answer to the call before.
InStep ==
  [][pc = "waiting" /\ pc' = "idle" /\ about' # 0 =>
       /\ about' \in abandoned \union {Len(asked)}
       /\ outcome' \in {"Ok", "OkBlank"} =>
            /\ Sid[asked[about'].service] = Sid[Calling.service]
            /\ Echo(asked[about']) = Echo(Calling)]_vars

\* Every call returns, though the ECU falls silent or asks for patience for ever.
CallsEnd == (pc = "waiting") ~> (pc = "idle")
=============================================================================
