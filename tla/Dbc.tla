-------------------------------- MODULE Dbc --------------------------------
(***************************************************************************)
(* The DBC database of src/dbc/mod.rs: parse() reads a text line by line   *)
(* and collects the signals of each message; decode() takes the bits of    *)
(* the signals out of a frame.                                             *)
(*                                                                         *)
(* A line has a kind, and whether its fields parse: "good", "bad" (an      *)
(* error) or, for a signal, "crossed" (its separators stand in the wrong   *)
(* order, and the slice between them panics).  A signal's value is the raw *)
(* integer as a double, before factor and offset.  Raw integers have       *)
(* WordSize bits, 64 in the code, and a double MantissaBits of them, 53.   *)
(***************************************************************************)
EXTENDS Integers, Sequences, Functions, FiniteSetsExt

CONSTANTS
  Texts,        \* DBC texts, as sequences of lines
  Ids,          \* message ids that decode() is asked for
  Payloads,     \* frame data, as sequences of bytes
  WordSize,     \* bits of u64
  MantissaBits  \* bits of the significand of f64

\* A text is a sequence of lines.
IsText(t) ==
  /\ t \in Seq(Range(t))
  /\ \A k \in DOMAIN t :
       /\ t[k].kind = "message" => t[k].form \in {"good", "bad"}
       /\ t[k].kind = "signal" =>
            /\ t[k].form \in {"good", "bad", "crossed"}
            /\ t[k].signal \in [name : {t[k].signal.name}, start : Nat, length : Nat,
                                order : {"little", "big"}, signed : BOOLEAN]

ASSUME DbcAssumption ==
  /\ WordSize \in Nat \ {0} /\ MantissaBits \in Nat \ {0}
  /\ \A t \in Texts : IsText(t)
  /\ Payloads \subseteq Seq(0..255)

VARIABLES
  text,       \* the text
  at,         \* the next line
  current,    \* current_msg
  db,         \* DbcDatabase.messages: id -> signals
  parsed,     \* "reading", "ok", "error", "panic"
  asked,      \* the call of decode(): [id, data]
  values      \* what it returned: name -> value

dbcVars == <<text, at, current, db, parsed, asked, values>>

NoMessage == [id |-> 0, signals |-> <<>>, some |-> FALSE]
NoCall == [none |-> TRUE]

DbcInit ==
  /\ text \in Texts /\ at = 1
  /\ current = NoMessage /\ db = <<>> /\ parsed = "reading"
  /\ asked = NoCall /\ values = <<>>

---------------------------------------------------------------------------
(* Variants with a bug.                                                    *)

\* The bits of a byte are counted from its top.
IsSetFromTop(data, k, i) == k < Len(data) /\ (data[k + 1] \div 2^(7 - i)) % 2 = 1

\* The first definition of a message wins.
FirstWins(m, d) ==
  IF m.some /\ m.id \notin DOMAIN d
  THEN [i \in DOMAIN d \union {m.id} |-> IF i = m.id THEN m.signals ELSE d[i]]
  ELSE d

---------------------------------------------------------------------------
(* parse()                                                                 *)

\* db.messages.insert(msg.id, msg), if there is a message.
Commit(m, d) ==
  IF m.some
  THEN [i \in DOMAIN d \union {m.id} |-> IF i = m.id THEN m.signals ELSE d[i]]
  ELSE d

Reading == parsed = "reading" /\ at <= Len(text)

\* What the parser of a line returns; a signal line may also panic.
ParseMessageLine(l) == IF l.form = "good" THEN "ok" ELSE "error"

ParseSignalLine(l) ==
  CASE l.form = "good"    -> "ok"
    [] l.form = "bad"     -> "error"
    [] l.form = "crossed" -> "panic"

\* Blank lines, comments and other keywords end the block of a message.
OtherLine ==
  /\ Reading /\ text[at].kind \in {"blank", "other"}
  /\ db' = Commit(current, db)
  /\ current' = NoMessage
  /\ at' = at + 1
  /\ UNCHANGED <<text, parsed, asked, values>>

\* The error of parse_message_line discards the database.
MessageLine ==
  /\ Reading /\ text[at].kind = "message"
  /\ IF ParseMessageLine(text[at]) = "ok"
     THEN /\ db' = Commit(current, db)
          /\ current' = [id |-> text[at].id, signals |-> <<>>, some |-> TRUE]
          /\ at' = at + 1
          /\ UNCHANGED parsed
     ELSE /\ parsed' = "error"
          /\ UNCHANGED <<at, db, current>>
  /\ UNCHANGED <<text, asked, values>>

\* A signal outside a block is skipped, well formed or not.
SignalLine ==
  /\ Reading /\ text[at].kind = "signal"
  /\ at' = at + 1
  /\ \/ ~current.some /\ UNCHANGED <<current, parsed>>
     \/ /\ current.some /\ ParseSignalLine(text[at]) = "ok"
        /\ current' = [current EXCEPT !.signals = Append(@, text[at].signal)]
        /\ UNCHANGED parsed
  /\ UNCHANGED <<text, db, asked, values>>

SignalLineFails ==
  /\ Reading /\ text[at].kind = "signal" /\ current.some
  /\ ParseSignalLine(text[at]) # "ok"
  /\ parsed' = ParseSignalLine(text[at])
  /\ UNCHANGED <<text, at, current, db, asked, values>>

EndOfText ==
  /\ parsed = "reading" /\ at > Len(text)
  /\ db' = Commit(current, db)
  /\ current' = NoMessage
  /\ parsed' = "ok"
  /\ UNCHANGED <<text, at, asked, values>>

---------------------------------------------------------------------------
(* decode()                                                                *)

\* Bit i of byte number k; bytes that the frame lacks are zero.
IsSet(data, k, i) == k < Len(data) /\ (data[k + 1] \div 2^i) % 2 = 1

\* Where the loop over a big-endian signal stands after n turns: the next bit is
\* the one below, or the top bit of the next byte.
Walk(s) ==
  LET pos[n \in 0..s.length] ==
        IF n = 0 THEN [byte |-> s.start \div 8, bit |-> s.start % 8]
        ELSE IF pos[n - 1].bit = 0 THEN [byte |-> pos[n - 1].byte + 1, bit |-> 7]
        ELSE [pos[n - 1] EXCEPT !.bit = @ - 1]
  IN  pos

\* The places of the raw integer that extract_raw sets to one.
Ones(data, s) ==
  LET turns == 0..(s.length - 1)
      pos == Walk(s)
  IN  IF s.order = "little"
      THEN {i \in turns : IsSet(data, (s.start + i) \div 8, (s.start + i) % 8)}
      ELSE {s.length - 1 - i :
              i \in {i \in turns : IsSet(data, pos[i].byte, pos[i].bit)}}

\* The integer with ones at these places.
Number(places) == MapThenSumSet(LAMBDA i : 2^i, places)

\* No value: an arithmetic overflow, which panics in a debug build.
Overflow == 2^(WordSize + 1)

\* A shift by WordSize or more overflows; a release build masks its distance.
ExtractRaw(data, s) ==
  {Number({i % WordSize : i \in Ones(data, s)})}
    \union (IF Ones(data, s) \subseteq 0..(WordSize - 1) THEN {} ELSE {Overflow})

\* An integer cast to i64.
AsSigned(n) == ((n + 2^(WordSize - 1)) % 2^WordSize) - 2^(WordSize - 1)

\* Sign extension.  The shifts by bits - 1 and by bits overflow for 0 and from
\* WordSize on; of WordSize - 1 bits the subtraction of the lowest i64 overflows.
SignExtended(raw, bits) ==
  LET negative == (raw \div 2^((bits - 1) % WordSize)) % 2 = 1
  IN  {AsSigned(IF negative THEN raw - 2^(bits % WordSize) ELSE raw)}
        \union (IF bits \in 1..(IF negative THEN WordSize - 2 ELSE WordSize)
                THEN {} ELSE {Overflow})

\* The integer that decode_signal makes of the bits, in one or another build.
RawValue(data, s) ==
  UNION {IF s.signed /\ raw # Overflow THEN SignExtended(raw, s.length) ELSE {raw} :
           raw \in ExtractRaw(data, s)}

\* An integer as f64: the nearest multiple of the unit in which its size has at most
\* MantissaBits binary digits, the even one of two.
Unit(size) == 2^(Min({k \in 0..WordSize : size < 2^(MantissaBits + k)}))

Nearest(size, unit) ==
  LET below == size \div unit
      up == \/ 2 * (size % unit) > unit
            \/ 2 * (size % unit) = unit /\ below % 2 = 1
  IN  unit * (IF up THEN below + 1 ELSE below)

Size(n) == IF n < 0 THEN -n ELSE n

AsDouble(n) ==
  LET rounded == Nearest(Size(n), Unit(Size(n)))
  IN  IF n < 0 THEN -rounded ELSE rounded

\* decode_signal: the values that a build may give.
DecodeSignal(data, s) ==
  {IF v = Overflow THEN Overflow ELSE AsDouble(v) : v \in RawValue(data, s)}

\* The last signal of a name wins.
ValueOf(name, data, signals) ==
  LET last == Max({i \in DOMAIN signals : signals[i].name = name})
  IN  DecodeSignal(data, signals[last])

Decode(id, data) ==
  /\ parsed = "ok" /\ asked = NoCall
  /\ asked' = [id |-> id, data |-> data]
  /\ LET signals == IF id \in DOMAIN db THEN db[id] ELSE <<>>
         names == {s.name : s \in Range(signals)}
     IN  values' \in [names -> UNION {ValueOf(n, data, signals) : n \in names}]
         /\ \A n \in names : values'[n] \in ValueOf(n, data, signals)
  /\ UNCHANGED <<text, at, current, db, parsed>>

DbcNext ==
  \/ OtherLine \/ MessageLine \/ SignalLine \/ SignalLineFails \/ EndOfText
  \/ \E id \in Ids, data \in Payloads : Decode(id, data)

DbcSpec == DbcInit /\ [][DbcNext]_dbcVars

---------------------------------------------------------------------------
(* What a text and a frame mean.                                           *)

\* Line k is a signal of the message that line b begins.
BelongsTo(k, b) ==
  /\ b < k /\ text[b].kind = "message"
  /\ \A j \in (b + 1)..k : text[j].kind = "signal"

\* The lines that make parse() stop.
Wrong ==
  {k \in DOMAIN text :
     \/ text[k].kind = "message" /\ text[k].form # "good"
     \/ /\ text[k].kind = "signal" /\ text[k].form # "good"
        /\ \E b \in DOMAIN text : BelongsTo(k, b)}

\* The line that begins the last message with this id.
Definition(id) ==
  Max({b \in DOMAIN text : text[b].kind = "message" /\ text[b].id = id})

\* Count bytes of the frame from byte number first on as one number, continued by
\* zeros, the first byte least or most significant.
ByteAt(data, k) == IF k < Len(data) THEN data[k + 1] ELSE 0

Whole(data, first, count, order) ==
  MapThenSumSet(LAMBDA k : 2^(8 * k) * ByteAt(data, IF order = "little" THEN first + k
                                                    ELSE first + count - 1 - k),
                0..(count - 1))

\* A little-endian signal ends at its start bit; a big-endian one begins there,
\* counted from the top of the byte.  No signal of b bits spans more than
\* b \div 8 + 2 bytes.
Field(data, s) ==
  LET count == s.length \div 8 + 2
      below == IF s.order = "little" THEN s.start % 8
               ELSE 8 * count - (7 - (s.start % 8)) - s.length
  IN  (Whole(data, s.start \div 8, count, s.order) \div 2^below) % 2^s.length

Meaning(data, s) ==
  LET n == Field(data, s)
  IN  IF s.signed /\ n >= 2^(s.length - 1) THEN n - 2^s.length ELSE n

---------------------------------------------------------------------------
(* Properties                                                              *)

\* parse() gives each message the signals of its block, in order, the last
\* definition of an id winning, and stops at the first line in a block that does
\* not parse.
BlocksParsed ==
  /\ parsed \in {"error", "panic"} =>
       /\ at \in Wrong /\ \A k \in Wrong : at <= k
       /\ parsed = "panic" <=> text[at].form = "crossed"
  /\ parsed = "ok" =>
       /\ Wrong = {}
       /\ DOMAIN db = {text[b].id : b \in {b \in DOMAIN text :
                                           text[b].kind = "message"}}
       /\ \A id \in DOMAIN db :
            LET b == Definition(id)
            IN  /\ \A i \in DOMAIN db[id] : db[id][i] = text[b + i].signal
                /\ {b + i : i \in DOMAIN db[id]}
                     = {k \in DOMAIN text : BelongsTo(k, b)}

\* A text is parsed into its blocks.  decode() returns for every signal name the
\* number that the bits of the frame stand for, to the precision of a double (one
\* part in 2^MantissaBits, so that smaller numbers are exact), except for signals
\* wider than a word and signed signals of no bits or of a whole word; of one bit
\* less a negative number may overflow.
SignalsDecoded ==
  /\ BlocksParsed
  /\ \A i \in IF asked # NoCall /\ asked.id \in DOMAIN db
              THEN DOMAIN db[asked.id] ELSE {} :
       LET s == db[asked.id][i]
       IN  \/ s.length \notin IF s.signed THEN 1..(WordSize - 1) ELSE 0..WordSize
           \/ \E j \in DOMAIN db[asked.id] :
                j > i /\ db[asked.id][j].name = s.name
           \/ s.signed /\ s.length = WordSize - 1 /\ values[s.name] = Overflow
           \/ Size(values[s.name] - Meaning(asked.data, s)) * 2^MantissaBits
                <= Size(Meaning(asked.data, s))
=============================================================================
