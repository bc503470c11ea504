------------------------------ MODULE Recorder ------------------------------
(***************************************************************************)
(* record() and replay() of src/recorder/mod.rs: a task writes the frames  *)
(* of a subscription to a candump log, and another reads the log and sends *)
(* them again with their timing.                                           *)
(*                                                                         *)
(* A line is a comment (or blank), malformed, or a frame: time stamp,      *)
(* number of # signs, id, flags and length of the data.  As history, a     *)
(* frame line keeps the frame it was written for and whether it is whole.  *)
(* Time is in units of the log's time stamps.                              *)
(*                                                                         *)
(* A speed is a double, and so a fraction num/den, or one of two that make *)
(* every wait zero, infinity and NaN: den = 0 stands for both.  Below 2^53 *)
(* nanoseconds, 104 days, rounding the quotient may make a wait longer and *)
(* never shorter; longer logs and replays are left out.                    *)
(***************************************************************************)
EXTENDS FrameRules, Sequences, Functions

CONSTANTS
  LogFrames,   \* frames that the recorded bus delivers
  Speeds,      \* values of speed_factor, as [num, den]
  MaxLines,    \* bound on the lines of a log
  MaxStamp     \* bound on time stamps and on the duration of a replay

ASSUME RecorderAssumption ==
  /\ LogFrames \subseteq Frames /\ \A f \in LogFrames : ValidFrame(f)
  /\ Speeds \subseteq [num : Int, den : Nat]
  /\ MaxLines \in Nat /\ MaxStamp \in Nat

VARIABLES
  recording,   \* "on", "ended" (None from the subscription), "failed"
  log,         \* the lines written
  replaying,   \* "off", "reading", "pacing", "done", "failed"
  speed,       \* speed_factor
  line,        \* the next line to read
  t0,          \* log_t0, or NoTime
  wall,        \* wall0.elapsed()
  target,      \* the bus that takes the replayed frames is open
  replayed     \* frames replayed, each with its line and the time

recorderVars ==
  <<recording, log, replaying, speed, line, t0, wall, target, replayed>>

NoTime == -1

RecorderInit ==
  /\ recording = "on" /\ log = <<>>
  /\ replaying = "off" /\ speed \in Speeds
  /\ line = 1 /\ t0 = NoTime /\ wall = 0 /\ target = TRUE /\ replayed = <<>>

---------------------------------------------------------------------------
(* A variant with a bug: the first extended id is taken for a standard one. *)

ExtendedAbove(id) == id > MaxStdId + 1

---------------------------------------------------------------------------
(* Lines.                                                                  *)

\* format_line
FormatLine(ts, f) ==
  [kind |-> "frame", ts |-> ts, id |-> f.id, fd |-> f.fd,
   brs |-> f.fd /\ f.brs, len |-> f.len, frame |-> f, whole |-> TRUE]

Comment == [kind |-> "comment"]
Malformed == [kind |-> "malformed"]

\* What a failed write may leave of a line: nothing that parses, less data, or
\* the first of two # signs.
Torn(l) ==
  {Malformed}
  \union {[l EXCEPT !.len = n, !.whole = FALSE] : n \in 0..(l.len - 1)}
  \union (IF l.fd THEN {[l EXCEPT !.fd = FALSE, !.brs = FALSE, !.len = 0,
                                  !.whole = FALSE]} ELSE {})

\* let ext = id > 0x7FF
IsExtended(id) == id > MaxStdId

\* parse_frame_str
ParseFrame(l) ==
  [DefaultFrame EXCEPT !.id = l.id, !.fd = l.fd, !.brs = l.brs, !.len = l.len,
                       !.ext = ~l.fd /\ IsExtended(l.id)]

---------------------------------------------------------------------------
(* record()                                                                *)

\* SystemTime::now() may go back.
RecordFrame ==
  /\ recording = "on" /\ Len(log) < MaxLines
  /\ \E f \in LogFrames, ts \in 0..MaxStamp :
       log' = Append(log, FormatLine(ts, f))
  /\ UNCHANGED <<recording, replaying, speed, line, t0, wall, target, replayed>>

\* writeln! fails and record() with it.
RecordFails ==
  /\ recording = "on" /\ Len(log) < MaxLines
  /\ recording' = "failed"
  /\ \E f \in LogFrames, ts \in 0..MaxStamp :
       log' \in {log} \union {Append(log, l) : l \in Torn(FormatLine(ts, f))}
  /\ UNCHANGED <<replaying, speed, line, t0, wall, target, replayed>>

\* The recorded bus is closed.
RecordEnds ==
  /\ recording = "on"
  /\ recording' = "ended"
  /\ UNCHANGED <<log, replaying, speed, line, t0, wall, target, replayed>>

\* Lines that someone else puts in the log.
Annotate ==
  /\ replaying = "off" /\ recording # "failed" /\ Len(log) < MaxLines
  /\ \E l \in {Comment, Malformed} : log' = Append(log, l)
  /\ UNCHANGED <<recording, replaying, speed, line, t0, wall, target, replayed>>

---------------------------------------------------------------------------
(* replay()                                                                *)

Factor == IF speed.num <= 0 THEN [num |-> 1, den |-> 1] ELSE speed

\* saturating_sub, scaled and cut to a whole number.
Delay(ts) == ((IF ts < t0 THEN 0 ELSE ts - t0) * Factor.den) \div Factor.num

ReplayCall ==
  /\ replaying = "off" /\ recording # "on"
  /\ replaying' = "reading"
  /\ UNCHANGED <<recording, log, speed, line, t0, wall, target, replayed>>

SkipLine ==
  /\ replaying = "reading" /\ line <= Len(log) /\ log[line].kind # "frame"
  /\ line' = line + 1
  /\ UNCHANGED <<recording, log, replaying, speed, t0, wall, target, replayed>>

\* The first frame line sets the origin of the log's time.
ReadLine ==
  /\ replaying = "reading" /\ line <= Len(log) /\ log[line].kind = "frame"
  /\ t0' = IF t0 = NoTime THEN log[line].ts ELSE t0
  /\ replaying' = "pacing"
  /\ UNCHANGED <<recording, log, speed, line, wall, target, replayed>>

\* bus.send(..).await? after the sleep.
SendLine ==
  /\ replaying = "pacing" /\ wall >= Delay(log[line].ts)
  /\ LET f == ParseFrame(log[line])
     IN  IF target /\ ValidFrame(f)
         THEN /\ replayed' = Append(replayed,
                      [frame |-> f, line |-> line, time |-> wall])
              /\ line' = line + 1
              /\ replaying' = "reading"
         ELSE /\ replaying' = "failed"
              /\ UNCHANGED <<replayed, line>>
  /\ UNCHANGED <<recording, log, speed, t0, wall, target>>

ReplayEnds ==
  /\ replaying = "reading" /\ line > Len(log)
  /\ replaying' = "done"
  /\ UNCHANGED <<recording, log, speed, line, t0, wall, target, replayed>>

\* Time passes while the replay sleeps or is slow.
TimePasses ==
  /\ replaying = "pacing" /\ wall < MaxStamp
  /\ wall' = wall + 1
  /\ UNCHANGED <<recording, log, replaying, speed, line, t0, target, replayed>>

CloseTarget ==
  /\ target /\ replaying \in {"reading", "pacing"}
  /\ target' = FALSE
  /\ UNCHANGED <<recording, log, replaying, speed, line, t0, wall, replayed>>

RecorderNext ==
  \/ RecordFrame \/ RecordFails \/ RecordEnds \/ Annotate
  \/ ReplayCall \/ SkipLine \/ ReadLine \/ SendLine \/ ReplayEnds
  \/ TimePasses \/ CloseTarget

RecorderSpec == RecorderInit /\ [][RecorderNext]_recorderVars

---------------------------------------------------------------------------
(* Properties                                                              *)

\* Frames of which a line can hold every field.
Recordable(f) ==
  /\ ~f.rtr /\ ~f.esi /\ ~f.xl
  /\ \A k \in XlFields : f[k] = DefaultFrame[k]
  /\ f.ext <=> f.id > MaxStdId
  /\ ~(f.fd /\ f.ext)

Intact(l) == l.kind = "frame" /\ l.whole /\ Recordable(l.frame)

\* A replay sends the frames of the log in order, none left out and none twice,
\* each as it was on the recorded bus if a line can hold it, and none before its
\* time.  It fails only when its bus is closed or at a frame that no line can
\* hold or whose line was torn, and is done only after the last line.
ReplayFaithful ==
  /\ \A i \in 1..Len(replayed) :
       LET s == replayed[i]  l == log[s.line]
       IN  /\ i > 1 => replayed[i - 1].line < s.line
           /\ s.time * Factor.num > (l.ts - t0) * Factor.den - Factor.num
           /\ Intact(l) => s.frame = l.frame
  /\ {k \in 1..(line - 1) : log[k].kind = "frame"}
       = {s.line : s \in Range(replayed)}
  /\ replaying = "failed" /\ target => ~Intact(log[line])
  /\ replaying = "done" => line > Len(log)
=============================================================================
