----------------------------- MODULE Sequential -----------------------------
(***************************************************************************)
(* The parts of the crate that take one step at a time: a behaviour is one *)
(* job, of one subscriber behind its rate limiter (RateLimiter), one pair  *)
(* of Protector and Receiver (E2E) or its checksum (Crc16), one frame      *)
(* through a conversion and back (FrameRules), one log recorded and        *)
(* replayed (Recorder), or one DBC text parsed and used (Dbc).  They share *)
(* no state; they share a run.                                             *)
(***************************************************************************)
EXTENDS RateLimiter, E2E, Crc16, Recorder, Dbc

CONSTANTS
  SomeFrames,    \* frames to convert, valid or not
  J1939Frames,   \* J1939 frames to send
  PgnFilters,    \* the lists of PGNs that a J1939 receiver may have
  Node           \* J1939Bus.source_address

J1939Messages == [priority : Nat, pgn : Nat, dst : 0..255, len : Nat]

ASSUME SequentialAssumption ==
  /\ SomeFrames \subseteq Frames /\ J1939Frames \subseteq J1939Messages
  /\ Node \in 0..255

VARIABLES
  job,     \* one of Jobs
  given,   \* the frame to convert
  pgns,    \* J1939Receiver.pgns
  wire,    \* the frame in the other form
  got      \* the frame that came back

frameVars == <<given, pgns, wire, got>>
vars == <<job, frameVars, limiterVars, e2eVars, crcVars, recorderVars, dbcVars>>

Conversions == {"relay", "node", "socket", "j1939"}
Jobs == Conversions \union {"limiter", "e2e", "crc", "log", "dbc"}

None == [none |-> TRUE]
Refused == [refused |-> TRUE]
Skipped == [skipped |-> TRUE]
Told(e) == [error |-> e]

\* The inputs of the jobs that are not done do not matter.
Init ==
  /\ job \in Jobs
  /\ given \in IF job \notin Conversions THEN {None}
               ELSE IF job = "j1939" THEN J1939Frames ELSE SomeFrames
  /\ pgns \in IF job = "j1939" THEN PgnFilters ELSE {{}}
  /\ wire = None /\ got = None
  /\ RecorderInit /\ (job # "log" => speed = CHOOSE s \in Speeds : TRUE)
  /\ DbcInit /\ (job # "dbc" => text = <<>>)
  /\ LimiterInit /\ E2EInit /\ CrcInit

---------------------------------------------------------------------------

\* A frame takes the other form, or send() refuses it.
Convert ==
  /\ wire = None /\ got = None
  /\ \/ job \in {"relay", "node"} /\ wire' = ToMessage(given) /\ UNCHANGED got
     \/ /\ job = "socket"
        /\ IF SendError(given) = "none"
           THEN wire' = ToRaw(given) /\ UNCHANGED got
           ELSE got' = Refused /\ UNCHANGED wire
     \/ /\ job = "j1939"
        /\ IF ValidFrame(ToCan(given, Node))
           THEN wire' = ToCan(given, Node) /\ UNCHANGED got
           ELSE got' = Refused /\ UNCHANGED wire
  /\ UNCHANGED <<given, pgns>>

\* CanAdapter::send of a message on an open SocketCanBus, and the frame that the
\* bus at the other end reads, or what the caller is told.
SentByNode(m) ==
  LET f == FromMessage(m)
  IN  IF SendError(f) = "none" THEN FromRaw(ToRaw(f))
      ELSE Told(AdapterError(SendError(f)))

\* And comes back, or the J1939 receiver passes over it.
ConvertBack ==
  /\ wire # None /\ got = None
  /\ \/ job = "relay" /\ got' = FromMessage(wire)
     \/ job = "node" /\ got' = SentByNode(wire)
     \/ job = "socket" /\ got' = FromRaw(wire)
     \/ /\ job = "j1939"
        /\ got' = IF Skips(wire, pgns) THEN Skipped ELSE FromCan(wire)
  /\ UNCHANGED <<given, pgns, wire>>

FrameNext == Convert \/ ConvertBack

Next ==
  /\ UNCHANGED job
  /\ \/ /\ FrameNext
        /\ UNCHANGED <<limiterVars, e2eVars, crcVars, recorderVars, dbcVars>>
     \/ /\ job = "limiter" /\ LimiterNext
        /\ UNCHANGED <<frameVars, e2eVars, crcVars, recorderVars, dbcVars>>
     \/ /\ job = "e2e" /\ E2ENext
        /\ UNCHANGED <<frameVars, limiterVars, crcVars, recorderVars, dbcVars>>
     \/ /\ job = "crc" /\ CrcNext
        /\ UNCHANGED <<frameVars, limiterVars, e2eVars, recorderVars, dbcVars>>
     \/ /\ job = "log" /\ RecorderNext
        /\ UNCHANGED <<frameVars, limiterVars, e2eVars, crcVars, dbcVars>>
     \/ /\ job = "dbc" /\ DbcNext
        /\ UNCHANGED <<frameVars, limiterVars, e2eVars, crcVars, recorderVars>>

Spec == Init /\ [][Next]_vars

---------------------------------------------------------------------------
(* Properties                                                              *)

\* Outside CAN XL frames the fields of CAN XL are not carried.
Clean(f) ==
  IF f.xl THEN f
  ELSE [k \in DOMAIN f |-> IF k \in XlFields THEN DefaultFrame[k] ELSE f[k]]

\* What J1939 keeps: three bits of priority, eighteen of the PGN, of which a
\* peer-to-peer message gives the low byte to its destination.
Kept(j) ==
  LET pgn == j.pgn % 2^18
  IN  [priority |-> j.priority % 8,
       pgn |-> IF IsPeerToPeer(pgn) THEN pgn - (pgn % 256) ELSE pgn,
       src |-> Node,
       dst |-> IF IsPeerToPeer(pgn) THEN j.dst ELSE Broadcast,
       len |-> j.len]

\* A frame survives every conversion with all its fields: a relay message
\* carries any frame, the socket, through the adapter or not, any valid frame
\* that is not CAN XL, and J1939 any message of up to eight bytes to those whose
\* list has its PGN or is empty.  The caller of an adapter that cannot send a
\* frame is told that the bus is closed.
FrameSurvives ==
  got # None =>
    CASE job = "relay"  -> got = Clean(given)
      [] job = "node"   -> got = IF ValidFrame(given) /\ ~given.xl
                                 THEN Clean(given) ELSE Told("Closed")
      [] job = "socket" -> got = IF ValidFrame(given) /\ ~given.xl
                                 THEN Clean(given) ELSE Refused
      [] job = "j1939"  -> got = IF given.len > 8 THEN Refused
                                 ELSE IF pgns = {} \/ Kept(given).pgn \in pgns
                                 THEN Kept(given) ELSE Skipped
=============================================================================
