------------------------------- MODULE Crc16 -------------------------------
(***************************************************************************)
(* The checksum of the E2E header: crc16_ccitt_false (src/crc.rs) and its  *)
(* continuation over the payload (src/safety/mod.rs).  A 16-bit word is    *)
(* the set of its one-bits, so that ^ is the symmetric difference.         *)
(*                                                                         *)
(* A message is the header and the payload: bytes 0..3 are the ids, 4..7   *)
(* the counter, 8 and 9 the checksum, low byte first, and then comes the   *)
(* payload.  Sender and receiver run the checksum over the bytes that it   *)
(* covers, one by one; the receiver takes the ids from its configuration,  *)
(* so it makes no difference what the medium does to them.  The medium     *)
(* damages one byte, or two consecutive ones of the counter, of the        *)
(* payload or of the CRC field.  E2E takes for granted that the receiver   *)
(* then notices; DamageDetected is why.  Of two bytes on either side of a  *)
(* border of the CRC field nothing is claimed: that damage may pass.       *)
(***************************************************************************)
EXTENDS Integers

CONSTANTS
  Bytes,        \* the bytes that messages are made of
  Patterns,     \* the damage a byte may take
  IdBytes,      \* bytes of the two ids, 4 in the code
  HeaderBytes,  \* bytes of the header that are covered, 8 in the code
  MaxBytes      \* bound on the covered bytes of a message

ASSUME Crc16Assumption ==
  /\ Bytes \subseteq SUBSET (0..7)
  /\ Patterns \subseteq SUBSET (0..7)
  /\ IdBytes \in Nat /\ HeaderBytes \in Nat /\ MaxBytes \in Nat

VARIABLES
  fed,       \* covered bytes so far
  damaged,   \* 1 right after the first damaged byte, 2 from the next byte on
  field,     \* the bits of the CRC field that arrive wrong
  crcSent,   \* checksum of the sender's message, which goes into the field
  crcSeen    \* checksum that the receiver computes

crcVars == <<fed, damaged, field, crcSent, crcSeen>>

Word == SUBSET (0..15)

Xor(a, b) == (a \ b) \union (b \ a)

\* 0x1021
Poly == {0, 5, 12}

ShiftLeft(c) == {b + 1 : b \in c \ {15}}

\* One turn of the inner loop.
Step(c) == IF 15 \in c THEN Xor(ShiftLeft(c), Poly) ELSE ShiftLeft(c)

Steps8(c) == Step(Step(Step(Step(Step(Step(Step(Step(c))))))))

\* (b as u16) << 8
High(b) == {i + 8 : i \in b}

Update(c, b) == Steps8(Xor(c, High(b)))

\* A variant with a bug: the copy forgets the polynomial.
ContinueShift(c, b) == {i + 8 : i \in Xor(c, High(b)) \ (8..15)}

\* crc16_ccitt_false_cont: the same loop, written a second time.
Continue(c, b) == Steps8(Xor(c, High(b)))

\* The header first, and then the payload.
Checksum(c, b) == IF fed < HeaderBytes THEN Update(c, b) ELSE Continue(c, b)

CrcInit ==
  /\ fed = 0 /\ damaged = 0 /\ field = {}
  /\ crcSent = 0..15 /\ crcSeen = 0..15

\* A byte that arrives as it was sent.
FeedByte ==
  /\ fed < MaxBytes
  /\ \E b \in Bytes :
       /\ crcSent' = Checksum(crcSent, b)
       /\ crcSeen' = Checksum(crcSeen, b)
  /\ fed' = fed + 1
  /\ damaged' = IF damaged = 1 THEN 2 ELSE damaged
  /\ UNCHANGED field

\* A byte of the counter or the payload that arrives damaged: the first, or the
\* one after it on the same side of the CRC field.
FeedDamaged ==
  /\ IdBytes <= fed /\ fed < MaxBytes
  /\ \/ damaged = 0 /\ field = {}
     \/ damaged = 1 /\ fed # HeaderBytes
  /\ \E b \in Bytes, d \in Patterns \ {{}} :
       /\ crcSent' = Checksum(crcSent, b)
       /\ crcSeen' = Checksum(crcSeen, Xor(b, d))
  /\ fed' = fed + 1
  /\ damaged' = damaged + 1
  /\ UNCHANGED field

\* The CRC field follows the header, and arrives damaged.
DamageField ==
  /\ fed = HeaderBytes /\ damaged = 0 /\ field = {}
  /\ \E low, high \in Patterns :
       /\ field' = low \union High(high)
       /\ field' # {}
  /\ UNCHANGED <<fed, damaged, crcSent, crcSeen>>

CrcNext == FeedByte \/ FeedDamaged \/ DamageField

CrcSpec == CrcInit /\ [][CrcNext]_crcVars

\* received_crc: the sender's checksum as it arrives.
ReceivedCrc == Xor(crcSent, field)

\* Damage to one byte, or to two consecutive ones that no border of the CRC field
\* parts, never passes the checksum, however long the message and whatever
\* follows the damage: Receiver::unwrap takes no such message for an intact one,
\* and an intact one for no other.
DamageDetected == (ReceivedCrc = crcSeen) <=> (damaged = 0 /\ field = {})
=============================================================================
