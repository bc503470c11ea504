---------------------------- MODULE MCSequential ----------------------------
(***************************************************************************)
(* The instance of Sequential for TLC: every kind of frame around the      *)
(* limits of its fields, PGNs with and without the bits that the format    *)
(* cuts, logs of frames that a line can and cannot hold, every text of     *)
(* four lines and every signal of up to ten bits.                          *)
(***************************************************************************)
EXTENDS Sequential

MCSomeFrames ==
  [id : {MaxStdId, MaxStdId + 1, MaxExtId, MaxExtId + 1},
   ext : BOOLEAN, rtr : BOOLEAN, fd : BOOLEAN, brs : BOOLEAN, esi : BOOLEAN,
   xl : BOOLEAN, sdt : {0, 1}, vcid : {0}, af : {0}, sec : {FALSE},
   len : {0, 8, 9, 64, 65}]
  \union [id : {5}, ext : {FALSE}, rtr : {FALSE}, fd : BOOLEAN, brs : {FALSE},
          esi : {FALSE}, xl : BOOLEAN, sdt : {0}, vcid : {0, 1}, af : {0, 1},
          sec : BOOLEAN, len : {1, 12, 2048, 2049}]
  \union {RemoteRequest(id, ext, n) :
            id \in {5, MaxExtId}, ext \in BOOLEAN, n \in {0, 3, 9}}

MCJ1939Frames ==
  [priority : {0, 6, 7, 9}, pgn : {0, 59904, 59905, 61444, 65279, 131327, 262143,
                                   262144},
   dst : {0, 7, 255}, len : {0, 8, 9}]

MCPgnFilters == {{}, {61444}, {59904, 65279}, {59905}}

MCLogFrames ==
  {DefaultFrame,
   [DefaultFrame EXCEPT !.id = MaxStdId, !.len = 1],
   [DefaultFrame EXCEPT !.id = MaxStdId + 1, !.ext = TRUE, !.len = 8],
   [DefaultFrame EXCEPT !.id = 1, !.rtr = TRUE, !.len = 1],
   [DefaultFrame EXCEPT !.fd = TRUE, !.brs = TRUE, !.len = 1],
   [DefaultFrame EXCEPT !.id = MaxExtId, !.fd = TRUE, !.ext = TRUE, !.len = 1]}

\* Zero, which is taken for one, half as fast again, and slow motion.
MCSpeeds == {[num |-> 0, den |-> 1], [num |-> 3, den |-> 2], [num |-> 1, den |-> 2]}

Sig(name, start, length, order, signed) ==
  [name |-> name, start |-> start, length |-> length, order |-> order,
   signed |-> signed]

BO(id, form) == [kind |-> "message", id |-> id, form |-> form]
SG(s, form) == [kind |-> "signal", signal |-> s, form |-> form]

\* A few lines in every order, and every signal alone.
MCLines ==
  {[kind |-> "blank"], [kind |-> "other"],
   BO(1, "good"), BO(2, "good"), BO(1, "bad"),
   SG(Sig("a", 0, 8, "little", FALSE), "good"),
   SG(Sig("a", 7, 4, "big", TRUE), "good"),
   SG(Sig("b", 3, 2, "little", TRUE), "bad"),
   SG(Sig("b", 3, 2, "little", TRUE), "crossed")}

MCTexts ==
  UNION {[1..n -> MCLines] : n \in 0..4}
  \union {<<BO(1, "good"), SG(Sig("a", start, length, order, signed),
                                       "good")>> :
            start \in 0..15, length \in 0..10, order \in {"little", "big"},
            signed \in BOOLEAN}

MCPayloads == {<<>>, <<165>>, <<129, 60>>, <<30, 199, 178>>}

MCBytes == {{}, {0, 2, 5, 7}}

MCPatterns == {{}, {0}, {7}, {0, 7}, {2, 3}, 0..7, {1, 2, 4, 6}, {0, 5}, {4, 5, 6}}

\* The known value of the checksum: "123456789" gives 0x29B1.
Ascii(d) == {4, 5} \union {i \in 0..3 : (d \div 2^i) % 2 = 1}

ASSUME KnownChecksum ==
  LET crc[n \in 0..9] == IF n = 0 THEN 0..15 ELSE Update(crc[n - 1], Ascii(n))
  IN  crc[9] = {0, 4, 5, 7, 8, 11, 13}

\* Damage on both sides of a border of the CRC field may pass.  0x89 makes a
\* difference of 0x00A1 in byte 7 of a message without payload, and of 0xA100 in the
\* first of two bytes of payload: 0xA1 in the byte of the field next to it hides it.
ASSUME BorderDamagePasses ==
  LET d == {0, 3, 7}
      difference == {0, 5, 7}
  IN  /\ Steps8(High(d)) = difference
      /\ Steps8(Steps8(High(d))) = High(difference)
=============================================================================
