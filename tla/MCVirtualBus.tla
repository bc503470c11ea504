---------------------------- MODULE MCVirtualBus ----------------------------
(***************************************************************************)
(* Instances of VirtualBus for TLC.  "latest" has no filters and           *)
(* DropOldest; "filtered" wants frame b alone and has DropNewest and a     *)
(* rate limit.  The depth is one, so the second frame meets a full queue.  *)
(***************************************************************************)
EXTENDS VirtualBus

CONSTANTS a, b, bad

MCWants == [u \in Subs |-> IF u = "latest" THEN Frames ELSE {b}]
MCPolicy == [u \in Subs |-> IF u = "latest" THEN "DropOldest" ELSE "DropNewest"]
MCDepth == [u \in Subs |-> 1]
MCLimited == Subs \ {"latest"}

AnyTask == Permutations(Senders) \union Permutations(Closers)
=============================================================================
