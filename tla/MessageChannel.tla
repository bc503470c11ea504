--------------------------- MODULE MessageChannel ---------------------------
(***************************************************************************)
(* What a connection promises about messages, with no frames: those that   *)
(* arrive are those that were sent, whole, in the order they were sent and *)
(* each at most once.  Any of them may be missing.                         *)
(***************************************************************************)
EXTENDS Naturals, Sequences

CONSTANT Messages  \* each is sent at most once

VARIABLES
  sent,      \* messages passed to send(), in order
  received   \* messages returned by recv(), in order

vars == <<sent, received>>

Init == sent = <<>> /\ received = <<>>

IsIn(m, s) == \E i \in 1..Len(s) : s[i] = m

Send(m) ==
  /\ ~IsIn(m, sent)
  /\ sent' = Append(sent, m)
  /\ UNCHANGED received

\* The message at place i, when nothing from there on has been received.
Receive(i) ==
  /\ \A j \in i..Len(sent) : ~IsIn(sent[j], received)
  /\ received' = Append(received, sent[i])
  /\ UNCHANGED sent

Next ==
  \/ \E m \in Messages : Send(m)
  \/ \E i \in 1..Len(sent) : Receive(i)

Spec == Init /\ [][Next]_vars
=============================================================================
