------------------------------ MODULE MCListBus ------------------------------
(* Instances of ListBus for TLC: channels of one place, one that drops the  *)
(* oldest frame and one that drops the newest.                              *)
EXTENDS ListBus

MCPolicy == [u \in Subs |-> IF u = "latest" THEN "DropOldest" ELSE "DropNewest"]
MCDepth == [u \in Subs |-> 1]
=============================================================================
