--------------------------------- MODULE E2E ---------------------------------
(***************************************************************************)
(* End-to-end protection, src/safety/mod.rs: one Protector, one Receiver,  *)
(* and between them a medium that may lose, repeat, delay and damage       *)
(* messages.                                                               *)
(*                                                                         *)
(* A message is its counter and, as history, which call of protect() made  *)
(* it.  protect() and the locked part of unwrap() are atomic; what several *)
(* threads that call them can do to the order of messages between          *)
(* fetch_add and the lock is a delay of the medium.  A damaged message is  *)
(* taken to fail the CRC: Crc16 says which damage is sure to, other damage *)
(* passes by chance and is left out.  The two ids in the received header   *)
(* are not covered, since unwrap() computes the CRC with its own           *)
(* configuration: damage there changes nothing, and a message of another   *)
(* configuration is taken to fail the CRC.                                 *)
(***************************************************************************)
EXTENDS Integers, Sequences

CONSTANTS
  Modulus,     \* number of counter values: 2^32
  MaxRestarts, \* bound on restarts of the sender
  MaxCalls,    \* bound on the calls of protect() by one Protector
  MaxChecks    \* bound on the counter checks by one Receiver

ASSUME E2EAssumption ==
  /\ Modulus \in Nat /\ Modulus > 2
  /\ MaxRestarts \in Nat /\ MaxCalls \in Nat /\ MaxChecks \in Nat

VARIABLES
  seq,       \* Protector.seq
  last_seq,  \* ReceiverState.last_seq
  first,     \* ReceiverState.first
  verdict,   \* what the last unwrap() returned
  epoch,     \* history: number of Protectors before this one
  calls,     \* history: number of calls of protect() on this one
  sent,      \* history: the messages protected so far
  checked    \* history: messages whose counter this Receiver has checked

e2eVars == <<seq, last_seq, first, verdict, epoch, calls, sent, checked>>

Counters == 0..(Modulus - 1)

Message == [epoch : 0..MaxRestarts, nr : Nat, seq : Counters]

Check == [epoch : 0..MaxRestarts, nr : Nat, verdict : {"ok", "gap"}]

\* The counter as an integer that never wraps.
PlainInc(n) == n + 1

\* fetch_add on an AtomicU32, and wrapping_add.
WrappingInc(n) == (n + 1) % Modulus

\* The counter that belongs to call n of a Protector, from 0.
CounterOf(n) == n % Modulus

E2EInit ==
  /\ seq = 0 /\ last_seq = 0 /\ first = TRUE
  /\ verdict = "none"
  /\ epoch = 0 /\ calls = 0
  /\ sent = {}
  /\ checked = <<>>

---------------------------------------------------------------------------
(* Variants with one bug each.                                             *)

\* A rejected message leaves no trace.
ResyncDropped(m) == UNCHANGED last_seq

\* The counter is stored before the CRC is compared.
CounterBeforeCrc(damaged) ==
  /\ verdict' = "crc_mismatch"
  /\ last_seq' = damaged
  /\ UNCHANGED <<seq, first, epoch, calls, sent, checked>>

---------------------------------------------------------------------------
(* The sender.                                                             *)

\* seq.fetch_add(1); the header carries the value before.
Protect ==
  /\ calls < MaxCalls
  /\ sent' = sent \union {[epoch |-> epoch, nr |-> calls, seq |-> seq]}
  /\ seq' = WrappingInc(seq)
  /\ calls' = calls + 1
  /\ UNCHANGED <<last_seq, first, verdict, epoch, checked>>

\* A new Protector begins at 0.
RestartSender ==
  /\ epoch < MaxRestarts
  /\ epoch' = epoch + 1
  /\ seq' = 0
  /\ calls' = 0
  /\ UNCHANGED <<last_seq, first, verdict, sent, checked>>

---------------------------------------------------------------------------
(* The receiver.                                                           *)

\* The medium: how far from the message before the next one can be.  With
\* Modulus - 1 messages lost or overtaken in a row a 32-bit counter cannot
\* tell; everything nearer may happen.
Near(m) ==
  checked # <<>> /\ checked[Len(checked)].epoch = m.epoch =>
    LET n == checked[Len(checked)].nr
    IN  m.nr - n < Modulus - 1 /\ n - m.nr < Modulus - 1

UnwrapTooShort ==
  /\ sent # {}
  /\ verdict' = "header_too_short"
  /\ UNCHANGED <<seq, last_seq, first, epoch, calls, sent, checked>>

\* A damaged message, its counter anything: no state changes.
CrcMismatch(damaged) ==
  /\ verdict' = "crc_mismatch"
  /\ UNCHANGED <<seq, last_seq, first, epoch, calls, sent, checked>>

UnwrapCrcMismatch ==
  /\ sent # {}
  /\ \E damaged \in Counters : CrcMismatch(damaged)

IsGap(m) == ~first /\ m.seq # WrappingInc(last_seq)

\* The rejected message becomes the one to count on from.
Resync(m) == last_seq' = m.seq

CheckedAs(m, v) ==
  checked' = Append(checked, [epoch |-> m.epoch, nr |-> m.nr, verdict |-> v])

UnwrapGap(m) ==
  /\ Len(checked) < MaxChecks /\ Near(m)
  /\ IsGap(m)
  /\ Resync(m)
  /\ verdict' = "sequence_gap"
  /\ CheckedAs(m, "gap")
  /\ UNCHANGED <<seq, first, epoch, calls, sent>>

UnwrapAccept(m) ==
  /\ Len(checked) < MaxChecks /\ Near(m)
  /\ ~IsGap(m)
  /\ first' = FALSE
  /\ last_seq' = m.seq
  /\ verdict' = "ok"
  /\ CheckedAs(m, "ok")
  /\ UNCHANGED <<seq, epoch, calls, sent>>

\* A new Receiver takes any counter for the first one.
RestartReceiver ==
  /\ checked # <<>>
  /\ last_seq' = 0
  /\ first' = TRUE
  /\ verdict' = "none"
  /\ checked' = <<>>
  /\ UNCHANGED <<seq, epoch, calls, sent>>

E2ENext ==
  \/ Protect
  \/ RestartSender
  \/ UnwrapTooShort
  \/ UnwrapCrcMismatch
  \/ \E m \in sent : UnwrapGap(m) \/ UnwrapAccept(m)
  \/ RestartReceiver

E2ESpec == E2EInit /\ [][E2ENext]_e2eVars

---------------------------------------------------------------------------

\* Types; every message carries the counter of its call.
TypeOK ==
  /\ seq = CounterOf(calls)
  /\ last_seq \in Counters
  /\ first \in BOOLEAN
  /\ verdict \in {"none", "ok", "sequence_gap", "crc_mismatch", "header_too_short"}
  /\ epoch \in 0..MaxRestarts
  /\ calls \in Nat
  /\ sent \in SUBSET Message
  /\ \A m \in sent : m.seq = CounterOf(m.nr)
  /\ checked \in Seq(Check)

SameSender(i, j) == checked[i].epoch = checked[j].epoch

\* No loss, repetition or change of order goes unreported: a message that
\* unwrap() returns, after the first, is the successor of the message it
\* checked before, across the wrap of the counter and whatever damaged
\* messages came in between.
DisorderDetected ==
  \A i \in 2..Len(checked) :
    checked[i].verdict = "ok" /\ SameSender(i, i - 1) =>
      checked[i].nr = checked[i - 1].nr + 1

\* No false alarm: the successor of the message checked before is never
\* reported as a gap, not after an earlier gap, a damaged message or the wrap.
AlarmJustified ==
  \A i \in 2..Len(checked) :
    checked[i].verdict = "gap" /\ SameSender(i, i - 1) =>
      checked[i].nr # checked[i - 1].nr + 1
=============================================================================
