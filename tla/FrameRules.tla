----------------------------- MODULE FrameRules -----------------------------
(***************************************************************************)
(* What a CAN frame may be (src/frame.rs) and what the conversions make of *)
(* it: to and from a relay message (src/adapt.rs), to and from the raw     *)
(* frames of a Linux socket (src/socketcan/mod.rs), to and from J1939      *)
(* (src/j1939/mod.rs).  Operators on values; Sequential runs them.         *)
(*                                                                         *)
(* The bytes of a payload are copied and never looked at: a frame has its  *)
(* length, len, in place of data.                                          *)
(***************************************************************************)
EXTENDS Integers

MaxStdId == 2^11 - 1
MaxExtId == 2^29 - 1

\* Frame::default() and the fields of a frame.
DefaultFrame ==
  [id |-> 0, ext |-> FALSE, rtr |-> FALSE, fd |-> FALSE, brs |-> FALSE,
   esi |-> FALSE, xl |-> FALSE, sdt |-> 0, vcid |-> 0, af |-> 0, sec |-> FALSE,
   len |-> 0]

\* The fields that a Frame may have, valid or not.
Frames ==
  [id : Nat, ext : BOOLEAN, rtr : BOOLEAN, fd : BOOLEAN, brs : BOOLEAN,
   esi : BOOLEAN, xl : BOOLEAN, sdt : Nat, vcid : Nat, af : Nat, sec : BOOLEAN,
   len : Nat]

CanonicalFdLens == 0..8 \union {12, 16, 20, 24, 32, 48, 64}

MaxDataLen(f) == IF f.xl THEN 2048 ELSE IF f.fd THEN 64 ELSE 8

\* validate_frame
ValidXl(f) ==
  /\ ~f.fd /\ ~f.ext /\ ~f.rtr /\ ~f.brs
  /\ f.id <= MaxStdId
  /\ f.len >= 1 /\ f.len <= MaxDataLen(f)

ValidFrame(f) ==
  IF f.xl THEN ValidXl(f)
  ELSE /\ f.id <= (IF f.ext THEN MaxExtId ELSE MaxStdId)
       /\ f.brs \/ f.esi => f.fd
       /\ f.rtr => ~f.fd
       /\ f.len <= MaxDataLen(f)
       /\ f.fd => f.len \in CanonicalFdLens

RemoteRequest(id, ext, requested) ==
  [DefaultFrame EXCEPT !.id = id, !.ext = ext, !.rtr = TRUE,
                       !.len = IF requested < 8 THEN requested ELSE 8]

---------------------------------------------------------------------------
(* Variants with one bug each.                                             *)

RtrDropped(f) == [id |-> f.id, eff |-> f.ext, rtr |-> FALSE]

---------------------------------------------------------------------------
(* A relay message: the fields of the frame that its meta data carries.    *)
(* The fields of CAN XL go along only when xl is set.                      *)

XlFields == {"sdt", "vcid", "af", "sec"}

Meta(f) ==
  {"ext", "fd", "rtr", "brs"} \union {k \in {"esi", "xl"} : f[k]}
  \union {k \in XlFields : f.xl /\ f[k] # DefaultFrame[k]}

ToMessage(f) ==
  [id |-> f.id, payload |-> f.len, meta |-> [k \in Meta(f) |-> f[k]]]

FromMessage(m) ==
  [k \in DOMAIN DefaultFrame |->
     IF k = "id" THEN m.id ELSE IF k = "len" THEN m.payload
     ELSE IF k \in DOMAIN m.meta THEN m.meta[k] ELSE DefaultFrame[k]]

\* relay::Error, and Error::kind.
Sentinels == {"Closed", "NotConnected", "Timeout", "PayloadTooLarge"}

\* CanAdapter::send: what the caller is told when Bus::send fails with e.
AdapterError(e) == IF e \in Sentinels THEN e ELSE "Closed"

---------------------------------------------------------------------------
(* Raw frames of the socket.  A valid identifier leaves the flag bits free. *)

\* SocketCanBus::send on an open bus: what it refuses, or "none".
SendError(f) ==
  IF ~ValidFrame(f) THEN "InvalidFrame" ELSE IF f.xl THEN "Other" ELSE "none"

BuildCanId(f) == [id |-> f.id, eff |-> f.ext, rtr |-> f.rtr]

ToRaw(f) ==
  [fd |-> f.fd, canId |-> BuildCanId(f),
   len |-> IF f.len < MaxDataLen(f) THEN f.len ELSE MaxDataLen(f),
   flags |-> {k \in {"brs", "esi"} : f.fd /\ f[k]}]

\* parse_fd_frame leaves rtr out.
FromRaw(r) ==
  [DefaultFrame EXCEPT
     !.id = r.canId.id % (IF r.canId.eff THEN MaxExtId + 1 ELSE MaxStdId + 1),
     !.ext = r.canId.eff, !.rtr = ~r.fd /\ r.canId.rtr, !.fd = r.fd,
     !.brs = "brs" \in r.flags, !.esi = "esi" \in r.flags, !.len = r.len]

---------------------------------------------------------------------------
(* J1939 packs priority, PGN, source and destination into 29 bits.         *)

Broadcast == 255

\* The PDU format of a PGN, and whether it is below 240.
PduFormat(pgn) == (pgn \div 256) % 256
IsPeerToPeer(pgn) == PduFormat(pgn) < 240

\* The two data page bits and the PDU format of a PGN, in place.
PageAndFormat(pgn) == ((pgn \div 256) % 1024) * 256

EncodeId(priority, pgn, src, dst) ==
  (priority % 8) * 2^26 + PageAndFormat(pgn) * 256
  + (IF IsPeerToPeer(pgn) THEN dst ELSE pgn % 256) * 256 + src

DecodeId(id) ==
  LET field == (id \div 256) % 2^18
  IN  [priority |-> (id \div 2^26) % 8,
       pgn |-> IF IsPeerToPeer(field) THEN PageAndFormat(field) ELSE field,
       src |-> id % 256]

\* J1939Bus::send of the node src.
ToCan(j, src) ==
  [DefaultFrame EXCEPT !.id = EncodeId(j.priority, j.pgn, src, j.dst),
                       !.ext = TRUE, !.len = j.len]

\* J1939Receiver::recv skips what is not extended and what pgns does not list.
Skips(f, pgns) == ~f.ext \/ (pgns # {} /\ DecodeId(f.id).pgn \notin pgns)

FromCan(f) ==
  LET d == DecodeId(f.id)
  IN  [priority |-> d.priority, pgn |-> d.pgn, src |-> d.src,
       dst |-> IF IsPeerToPeer(d.pgn) THEN (f.id \div 256) % 256 ELSE Broadcast,
       len |-> f.len]
=============================================================================
