---------------------------- MODULE MCDiagnostics ----------------------------
(* An instance of Diagnostics for TLC: two identifiers of one service, the  *)
(* two steps of a security access, a suppressed tester present, and OBD-II  *)
(* PIDs with a formula of two bytes, of one byte and with none.             *)
EXTENDS Diagnostics

MCCalls ==
  {[service |-> "read", arg |-> 1], [service |-> "read", arg |-> 2],
   [service |-> "seed", arg |-> 1], [service |-> "key", arg |-> 1],
   [service |-> "key", arg |-> 255], [service |-> "tester", arg |-> 128],
   [service |-> "pid", arg |-> 12], [service |-> "pid", arg |-> 13],
   [service |-> "supported", arg |-> 0], [service |-> "vin", arg |-> 2]}
=============================================================================
