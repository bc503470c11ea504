-------------------------------- MODULE IsoTp --------------------------------
(***************************************************************************)
(* ISO-TP, src/isotp/mod.rs: one connection whose task calls send() and    *)
(* one whose task calls recv(), and the two subscriptions between them.    *)
(*                                                                         *)
(* Only what decides the course of a transfer is kept of a frame: its      *)
(* type, the message and the piece of it that it carries, and in a flow    *)
(* control frame the block size.  Piece 0 is that of the first frame and   *)
(* piece k that of consecutive frame k, whose sequence number is k modulo  *)
(* SnModulus.  The bus hands a frame over in one step; a queue that is     *)
(* full loses it.  Calls that fail at once (a payload of an illegal        *)
(* length, a closed bus) are left out, and so are separation times.        *)
(***************************************************************************)
EXTENDS Integers, Sequences, SequencesExt, FiniteSets

CONSTANTS
  Messages,   \* payloads, each sent at most once
  Pieces,     \* Pieces[m]: consecutive frames of m, 0 for a single frame
  BlockSizes, \* values of the receiver's Config.block_size, 0 = unlimited
  SnModulus,  \* number of sequence numbers: 16
  Depth,      \* depth of a subscription with the default options: 64
  NoMessage   \* what a flow control frame carries

ASSUME IsoTpAssumption ==
  /\ Pieces \in [Messages -> Nat]
  /\ BlockSizes \subseteq Nat
  /\ SnModulus \in Nat \ {0} /\ Depth \in Nat \ {0}
  /\ NoMessage \notin Messages

VARIABLES
  blockSize,   \* Config.block_size, chosen once
  toRecv,      \* frames in the subscription of the receiving connection
  toSend,      \* frames in the subscription of the sending connection
  spc,         \* where send() is
  msg,         \* its payload
  piece,       \* the next consecutive frame
  bs,          \* block size in the flow control frame it read last
  blockCount,  \* block_count
  rpc,         \* where recv() is
  buf,         \* its buffer, in pieces
  len,         \* the length it expects, in pieces
  cfInBlock,   \* cf_in_block
  closed,      \* the bus is closed
  sent,        \* history: messages passed to send()
  returned,    \* history: what recv() returned
  interrupted, \* history: a transfer has timed out on either side
  firstLost,   \* history: a first frame met a full queue
  otherLost    \* history: some other frame did

sendVars == <<spc, msg, piece, bs, blockCount, sent>>
recvVars == <<rpc, buf, len, cfInBlock, returned>>
lossVars == <<firstLost, otherLost>>
vars == <<blockSize, toRecv, toSend, sendVars, recvVars, closed, interrupted,
          lossVars>>

Frame(type, m, k) == [type |-> type, msg |-> m, k |-> k]

Init ==
  /\ blockSize \in BlockSizes
  /\ toRecv = <<>> /\ toSend = <<>>
  /\ spc = "idle" /\ msg = NoMessage /\ piece = 0 /\ bs = 0 /\ blockCount = 0
  /\ rpc = "idle" /\ buf = <<>> /\ len = 0 /\ cfInBlock = 0
  /\ closed = FALSE
  /\ sent = <<>> /\ returned = <<>>
  /\ interrupted = FALSE /\ firstLost = FALSE /\ otherLost = FALSE

---------------------------------------------------------------------------
(* Variants with one bug each.                                             *)

\* The type of a frame is not looked at while a message is collected.
AnyType(f) == TRUE

\* The receiver counts the frame after the block.
BlockFullLate(n) == blockSize # 0 /\ n = blockSize + 1

\* The sender counts one frame too many.
EndOfBlockLate(n) == bs > 0 /\ n > bs

\* wait_fc() awaits without a timeout.
NoTimer == FALSE

\* The expected sequence number is not cut to four bits.
SnNotWrapped == Len(buf)

\* The queue is never full.
PushUnbounded(q, f) == Append(q, f)

---------------------------------------------------------------------------

\* Bus::send to a subscription with the default options: DropNewest.
Push(q, f) == IF Len(q) < Depth THEN Append(q, f) ELSE q

Lost(q) == Len(q) >= Depth

\* timeout(tmo, ...) polls the subscription first: it fires on an empty one.
TimerFires == TRUE

---------------------------------------------------------------------------
(* send()                                                                  *)

SendSingle(m) ==
  /\ Pieces[m] = 0
  /\ toRecv' = Push(toRecv, Frame("SF", m, 0))
  /\ otherLost' = (otherLost \/ Lost(toRecv))
  /\ UNCHANGED <<spc, msg, piece, firstLost>>

SendFirst(m) ==
  /\ Pieces[m] > 0
  /\ toRecv' = Push(toRecv, Frame("FF", m, Pieces[m]))
  /\ firstLost' = (firstLost \/ Lost(toRecv))
  /\ spc' = "wait"
  /\ msg' = m
  /\ piece' = 1
  /\ UNCHANGED otherLost

Send(m) ==
  /\ spc = "idle" /\ ~closed
  /\ m \notin ToSet(sent)
  /\ sent' = Append(sent, m)
  /\ SendSingle(m) \/ SendFirst(m)
  /\ UNCHANGED <<blockSize, toSend, bs, blockCount, recvVars, closed, interrupted>>

\* wait_fc() returns a frame, which says ContinueToSend: this code's receiver
\* sends no other.
WaitFc ==
  /\ spc = "wait" /\ toSend # <<>>
  /\ bs' = Head(toSend).k
  /\ toSend' = Tail(toSend)
  /\ blockCount' = 0
  /\ spc' = "send"
  /\ UNCHANGED <<blockSize, toRecv, msg, piece, sent, recvVars, closed,
                 interrupted, lossVars>>

\* send() returns, with Ok or with an error, and its locals go.
SendReturns ==
  /\ spc' = "idle"
  /\ msg' = NoMessage /\ piece' = 0 /\ bs' = 0 /\ blockCount' = 0
  /\ UNCHANGED sent

\* n frames are as many as the receiver granted.
EndOfBlock(n) == bs > 0 /\ n >= bs

MorePieces ==
  /\ piece < Pieces[msg]
  /\ piece' = piece + 1
  /\ blockCount' = blockCount + 1
  /\ spc' = IF EndOfBlock(blockCount') THEN "wait" ELSE "send"
  /\ UNCHANGED <<msg, bs, sent>>

SendPiece ==
  /\ spc = "send" /\ ~closed
  /\ toRecv' = Push(toRecv, Frame("CF", msg, piece))
  /\ otherLost' = (otherLost \/ Lost(toRecv))
  /\ MorePieces \/ (piece = Pieces[msg] /\ SendReturns)
  /\ UNCHANGED <<blockSize, toSend, recvVars, closed, interrupted, firstLost>>

\* Error::Closed, from Bus::send or from a drained closed subscription.
SendClosed ==
  /\ closed
  /\ spc = "send" \/ (spc = "wait" /\ toSend = <<>>)
  /\ SendReturns
  /\ UNCHANGED <<blockSize, toRecv, toSend, recvVars, closed, interrupted,
                 lossVars>>

FcTimeout ==
  /\ spc = "wait" /\ toSend = <<>>
  /\ TimerFires
  /\ interrupted' = TRUE
  /\ SendReturns
  /\ UNCHANGED <<blockSize, toRecv, toSend, recvVars, closed, lossVars>>

---------------------------------------------------------------------------
(* recv()                                                                  *)

CallRecv ==
  /\ rpc = "idle"
  /\ rpc' = "first"
  /\ UNCHANGED <<blockSize, toRecv, toSend, sendVars, buf, len, cfInBlock,
                 returned, closed, interrupted, lossVars>>

\* The frame that recv() takes next from its subscription.
Incoming == Head(toRecv)

Take ==
  /\ toRecv # <<>>
  /\ toRecv' = Tail(toRecv)
  /\ UNCHANGED <<blockSize, sendVars, closed, interrupted, firstLost>>

NoReply == UNCHANGED <<toSend, otherLost>>

RecvReturns ==
  /\ rpc' = "idle"
  /\ buf' = <<>> /\ len' = 0 /\ cfInBlock' = 0

Return(payload) == RecvReturns /\ returned' = Append(returned, payload)

Fail == RecvReturns /\ UNCHANGED returned

\* A ContinueToSend goes out.
Grant ==
  /\ ~closed
  /\ toSend' = Push(toSend, Frame("FC", NoMessage, blockSize))
  /\ otherLost' = (otherLost \/ Lost(toSend))

\* Bus::send of the ContinueToSend returns Error::Closed.
GrantFails == closed /\ Fail /\ NoReply

RecvSingle ==
  /\ rpc = "first" /\ Take /\ Incoming.type = "SF"
  /\ Return(<<<<Incoming.msg, 0>>>>)
  /\ NoReply

RecvFirst ==
  /\ rpc = "first" /\ Take /\ Incoming.type = "FF"
  /\ \/ /\ Grant
        /\ rpc' = "collect"
        /\ buf' = <<<<Incoming.msg, 0>>>>
        /\ len' = Incoming.k + 1
        /\ cfInBlock' = 0
        /\ UNCHANGED returned
     \/ GrantFails

RecvStray ==
  /\ rpc = "first" /\ Take /\ Incoming.type = "CF"
  /\ Fail
  /\ NoReply

\* cf.data[0] & 0xF0 == TYPE_CF
IsConsecutive(f) == f.type = "CF"

\* sn & 0x0F, where sn is that of the next piece.
Sn == Len(buf) % SnModulus

Fits(f) == IsConsecutive(f) /\ f.k % SnModulus = Sn

RecvMisfit ==
  /\ rpc = "collect" /\ Take /\ ~Fits(Incoming)
  /\ Fail
  /\ NoReply

More == Append(buf, <<Incoming.msg, Incoming.k>>)

\* n frames are as many as were granted.
BlockFull(n) == blockSize # 0 /\ n = blockSize

RecvLast ==
  /\ rpc = "collect" /\ Take /\ Fits(Incoming)
  /\ Len(More) = len
  /\ Return(More)
  /\ NoReply

RecvPiece ==
  /\ rpc = "collect" /\ Take /\ Fits(Incoming)
  /\ Len(More) < len
  /\ \/ /\ BlockFull(cfInBlock + 1)
        /\ \/ /\ Grant
              /\ buf' = More
              /\ cfInBlock' = 0
              /\ UNCHANGED <<rpc, len, returned>>
           \/ GrantFails
     \/ /\ ~BlockFull(cfInBlock + 1)
        /\ buf' = More
        /\ cfInBlock' = cfInBlock + 1
        /\ NoReply
        /\ UNCHANGED <<rpc, len, returned>>

RecvClosed ==
  /\ closed
  /\ rpc # "idle" /\ toRecv = <<>>
  /\ Fail
  /\ UNCHANGED <<blockSize, toRecv, toSend, sendVars, closed, interrupted,
                 lossVars>>

RecvTimeout ==
  /\ rpc # "idle" /\ toRecv = <<>>
  /\ TimerFires
  /\ interrupted' = (interrupted \/ rpc = "collect")
  /\ Fail
  /\ UNCHANGED <<blockSize, toRecv, toSend, sendVars, closed, lossVars>>

CloseBus ==
  /\ ~closed
  /\ closed' = TRUE
  /\ UNCHANGED <<blockSize, toRecv, toSend, sendVars, recvVars, interrupted,
                 lossVars>>

---------------------------------------------------------------------------

SendStep == WaitFc \/ SendPiece \/ SendClosed \/ FcTimeout

RecvStep ==
  \/ RecvSingle \/ RecvFirst \/ RecvStray
  \/ RecvMisfit \/ RecvLast \/ RecvPiece
  \/ RecvClosed \/ RecvTimeout

Next ==
  \/ \E m \in Messages : Send(m)
  \/ SendStep
  \/ CallRecv
  \/ RecvStep
  \/ CloseBus

\* A call that was made runs on and its timers fire.  No one has to call.
Spec == Init /\ [][Next]_vars /\ WF_vars(SendStep) /\ WF_vars(RecvStep)

---------------------------------------------------------------------------
(* Safety                                                                  *)

\* Every variable keeps the type of the field or local it models, and a
\* subscription holds no more than its depth.
TypeOK ==
  /\ blockSize \in BlockSizes
  /\ toRecv \in Seq([type : {"SF", "FF", "CF"}, msg : Messages, k : Nat])
  /\ toSend \in Seq([type : {"FC"}, msg : {NoMessage}, k : BlockSizes])
  /\ Len(toRecv) <= Depth /\ Len(toSend) <= Depth
  /\ spc \in {"idle", "wait", "send"}
  /\ msg \in Messages \union {NoMessage}
  /\ piece \in Nat /\ bs \in Nat /\ blockCount \in Nat
  /\ rpc \in {"idle", "first", "collect"}
  /\ buf \in Seq(Messages \X Nat)
  /\ len \in Nat /\ cfInBlock \in Nat
  /\ closed \in BOOLEAN /\ interrupted \in BOOLEAN
  /\ firstLost \in BOOLEAN /\ otherLost \in BOOLEAN
  /\ sent \in Seq(Messages)
  /\ returned \in Seq(Seq(Messages \X Nat))

\* Block size 0 aside, the receiver never has more consecutive frames to read
\* than it granted, whatever the two calls do in between, as long as no
\* transfer timed out: flow control protects a queue that is as deep.
WindowRespected ==
  ~interrupted /\ blockSize # 0 =>
    Cardinality({i \in 1..Len(toRecv) : toRecv[i].type = "CF"}) <= blockSize

\* The two sides count blocks alike: if nothing was lost, timed out or closed,
\* it is never the case that send() waits for a flow control frame and recv()
\* for a frame, with neither on its way.
NoStandstill ==
  ~interrupted /\ ~firstLost /\ ~otherLost /\ ~closed =>
    ~ /\ spc = "wait" /\ toSend = <<>>
      /\ rpc # "idle" /\ toRecv = <<>>

Whole(m) == [k \in 1..(Pieces[m] + 1) |-> <<m, k - 1>>]

\* recv() reassembles consecutive frames into the original payload: it returns
\* nothing that was not a payload.
ReturnsOriginal ==
  \A i \in 1..Len(returned) : \E m \in Messages : returned[i] = Whole(m)

---------------------------------------------------------------------------
(* The connection implements MessageChannel up to the first loss of a first *)
(* frame, whatever else is lost, late or left over from an earlier transfer. *)

Meaning(payload) ==
  IF \E m \in Messages : payload = Whole(m)
  THEN CHOOSE m \in Messages : payload = Whole(m)
  ELSE NoMessage

Received == [i \in 1..Len(returned) |-> Meaning(returned[i])]

Channel == INSTANCE MessageChannel WITH received <- Received

\* Messages arrive whole, once each and in the order they were sent, or not at
\* all.
ImplementsMessageChannel ==
  Channel!Init /\ [][Channel!Next \/ firstLost]_<<sent, Received>>

---------------------------------------------------------------------------
(* Liveness                                                                *)

\* Every send() and every recv() returns, whatever is lost.
CallsReturn ==
  /\ (spc # "idle") ~> (spc = "idle")
  /\ (rpc # "idle") ~> (rpc = "idle")

\* A message sent on an open bus reaches an application that keeps receiving,
\* if no frame is lost and no transfer times out.
SentIsReceived ==
  [](~closed /\ ~interrupted /\ ~firstLost /\ ~otherLost)
    /\ []<>(rpc # "idle")
  => \A m \in Messages : (m \in ToSet(sent)) ~> (m \in ToSet(Received))
=============================================================================
