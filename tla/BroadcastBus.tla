---------------------------- MODULE BroadcastBus ----------------------------
(***************************************************************************)
(* What a bus promises its subscribers, with no locks, queues or counters. *)
(*                                                                         *)
(* There is one sequence of broadcast frames.  A subscriber reads it       *)
(* forwards from the place where it joined and sees only frames that match *)
(* its filters.  It may miss frames (back-pressure, rate limit, a send     *)
(* that began before it joined), but it never sees one twice, never one    *)
(* that was not broadcast, and no two subscribers ever see two frames in   *)
(* different orders.                                                       *)
(***************************************************************************)
EXTENDS Integers, Sequences

CONSTANTS
  Frames,       \* frames, each broadcast at most once
  Subs,         \* subscribers
  Matches(_, _) \* Matches(u, f): a filter of subscriber u matches frame f

VARIABLES
  log,   \* the frames in the order of their broadcast
  place  \* index in log of the last frame read, or NotJoined

NotJoined == -1

vars == <<log, place>>

Init ==
  /\ log = <<>>
  /\ place = [u \in Subs |-> NotJoined]

Publish(f) ==
  /\ \A i \in 1..Len(log) : log[i] # f
  /\ log' = Append(log, f)
  /\ UNCHANGED place

Join(u) ==
  /\ place[u] = NotJoined
  /\ place' = [place EXCEPT ![u] = Len(log)]
  /\ UNCHANGED log

Read(u) ==
  /\ place[u] # NotJoined
  /\ \E i \in (place[u] + 1)..Len(log) :
       /\ Matches(u, log[i])
       /\ place' = [place EXCEPT ![u] = i]
  /\ UNCHANGED log

Next ==
  \/ \E f \in Frames : Publish(f)
  \/ \E u \in Subs : Join(u) \/ Read(u)

Spec == Init /\ [][Next]_vars
=============================================================================
