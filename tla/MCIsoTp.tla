------------------------------ MODULE MCIsoTp ------------------------------
(***************************************************************************)
(* Instances of IsoTp for TLC: a message of five pieces, one of three, and *)
(* one that fits a single frame.                                           *)
(***************************************************************************)
EXTENDS IsoTp

CONSTANTS long, short, single

MCPieces == [m \in Messages |-> CASE m = long -> 4 [] m = short -> 2 [] OTHER -> 0]
=============================================================================
