----------------------------- MODULE IsoTpProofs -----------------------------
(***************************************************************************)
(* The safety of IsoTp, its implementation of MessageChannel included, for *)
(* every set of messages, any block size, depth and number of sequence     *)
(* numbers.                                                                *)
(***************************************************************************)
EXTENDS IsoTp, PushRulesProofs, FiniteSetTheorems

---------------------------------------------------------------------------
(* The inductive invariant.                                                *)

\* The place of a message in a sequence of messages, and the order of two.
PosIn(s, m) == CHOOSE p \in 1..Len(s) : s[p] = m

Before(s, m, n) == PosIn(s, m) < PosIn(s, n)

IsCf(i) == toRecv[i].type = "CF"

\* The message that recv() is collecting.
Collecting == IF rpc = "collect" THEN buf[1][1] ELSE NoMessage

\* The locals of send() belong to the message sent last.
SendLocals ==
  /\ spc = "idle" => msg = NoMessage /\ piece = 0
  /\ spc # "idle" =>
       /\ msg \in Messages /\ piece \in 1..Pieces[msg]
       /\ sent # <<>> /\ sent[Len(sent)] = msg
  /\ \A i \in 1..Len(toSend) : toSend[i].k = blockSize
  /\ spc = "send" \/ (spc = "wait" /\ piece > 1) => bs = blockSize
  /\ spc = "wait" /\ piece > 1 => bs # 0

\* The locals of recv() belong to the first frame that it took.
RecvLocals ==
  /\ rpc # "collect" => buf = <<>> /\ len = 0 /\ cfInBlock = 0
  /\ rpc = "collect" =>
       /\ Len(buf) \in 1..(len - 1)
       /\ buf[1][1] \in Messages
       /\ buf[1][2] = 0 /\ len = Pieces[buf[1][1]] + 1
  /\ blockSize # 0 => cfInBlock < blockSize

SentOnce == \A p, q \in 1..Len(sent) : sent[p] = sent[q] => p = q

\* A frame of one of the messages in S, with its numbers right.
KnownIn(f, S) ==
  /\ f.msg \in S
  /\ f.type = "SF" => Pieces[f.msg] = 0
  /\ f.type = "FF" => f.k = Pieces[f.msg] /\ f.k > 0
  /\ f.type = "CF" => f.k \in 1..Pieces[f.msg]

FramesKnown == \A i \in 1..Len(toRecv) : KnownIn(toRecv[i], ToSet(sent))

\* A message begins after all that was sent before it.
InSequence ==
  \A j \in 1..Len(toRecv) : ~IsCf(j) =>
    /\ \A i \in 1..(j - 1) : Before(sent, toRecv[i].msg, toRecv[j].msg)
    /\ \A r \in 1..Len(returned) : Before(sent, Received[r], toRecv[j].msg)
    /\ Collecting # NoMessage => Before(sent, Collecting, toRecv[j].msg)

Delivered ==
  \A r \in 1..Len(returned) :
     /\ Received[r] \in ToSet(sent)
     /\ Collecting # NoMessage => Before(sent, Received[r], Collecting)

\* A piece of m may follow the first n frames of the queue q when b is being
\* collected: m is the message that the frame before it belongs to.
Chain(q, n, m, b) ==
  \/ \E i \in 1..n :
       /\ q[i].type = "FF" /\ q[i].msg = m
       /\ \A l \in (i + 1)..n : q[l].type = "CF" /\ q[l].msg = m
  \/ /\ \A l \in 1..n : q[l].type = "CF" /\ q[l].msg = m
     /\ b \in {m, NoMessage}

Continued ==
  /\ \A j \in 1..Len(toRecv) :
       IsCf(j) => Chain(toRecv, j - 1, toRecv[j].msg, Collecting)
  /\ spc # "idle" => Chain(toRecv, Len(toRecv), msg, Collecting)

\* The pieces of a message go up, from the buffer of recv() to send().
PiecesGrow ==
  /\ \A i, j \in 1..Len(toRecv) :
       i < j /\ IsCf(i) /\ IsCf(j) /\ toRecv[i].msg = toRecv[j].msg
         => toRecv[i].k < toRecv[j].k
  /\ spc # "idle" =>
       \A i \in 1..Len(toRecv) :
         IsCf(i) /\ toRecv[i].msg = msg => toRecv[i].k < piece

BufferGrows ==
  rpc = "collect" =>
    /\ Collecting \in ToSet(sent)
    /\ \A i \in 1..Len(buf) : buf[i][1] = Collecting
    /\ \A i, j \in 1..Len(buf) : i < j => buf[j][2] - buf[i][2] >= j - i
    /\ \A i \in 1..Len(toRecv) :
         IsCf(i) /\ toRecv[i].msg = Collecting
           => buf[Len(buf)][2] < toRecv[i].k
    /\ spc # "idle" /\ Collecting = msg => buf[Len(buf)][2] < piece

Orderly ==
  ~firstLost => InSequence /\ Delivered /\ Continued /\ PiecesGrow /\ BufferGrows

\* The consecutive frames are the first c of the queue q.
CfPrefix(q, c) == \A i \in 1..Len(q) : q[i].type = "CF" <=> i <= c

\* The grant for msg has been given and not used up.
InTransfer == spc = "send" \/ (spc = "wait" /\ (toSend # <<>> \/ piece > 1))

\* A flow control frame goes out when no frame is on its way to recv().
GrantGiven ==
  toSend # <<>> =>
    /\ Len(toSend) = 1 /\ toRecv = <<>> /\ spc = "wait"
    /\ rpc = "collect" =>
         cfInBlock = 0 /\ Len(buf) = piece /\ len = Pieces[msg] + 1

\* The two sides count the frames of a block alike.
BlockRuns ==
  InTransfer /\ toSend = <<>> =>
    /\ CfPrefix(toRecv, Len(toRecv))
    /\ Len(toRecv) + cfInBlock <= blockCount
    /\ IF spc = "send" THEN blockCount < blockSize ELSE blockCount = blockSize
    /\ rpc = "collect" =>
         Len(buf) - cfInBlock = piece - blockCount /\ len = Pieces[msg] + 1

\* What is left of a message when send() is done with it fills a block only with
\* its last frame, and the next first frame stays the last of the queue.
BlockEnds ==
  ~InTransfer =>
    /\ \E c \in 0..Len(toRecv) :
         /\ CfPrefix(toRecv, c)
         /\ c + cfInBlock <= blockSize
         /\ rpc = "collect" /\ ~closed /\ c + cfInBlock = blockSize
              => Len(buf) + c = len
    /\ \A i \in 1..Len(toRecv) :
         toRecv[i].type = "FF" /\ ~closed =>
           /\ spc = "wait" /\ i = Len(toRecv) /\ toRecv[i].msg = msg

Counted == GrantGiven /\ BlockRuns /\ BlockEnds

Credit == ~interrupted /\ blockSize # 0 => Counted

\* Without a loss the pieces in the queue go on where the buffer ends.
PiecesFollow ==
  InTransfer =>
    /\ rpc = "collect" /\ len = Pieces[msg] + 1
    /\ Len(buf) + Len(toRecv) = piece
    /\ \A i \in 1..Len(toRecv) :
         toRecv[i].type = "CF" /\ toRecv[i].k = Len(buf) + i - 1

PiecesEnd ==
  ~InTransfer =>
    /\ \E c \in 0..Len(toRecv) :
         /\ CfPrefix(toRecv, c)
         /\ \A i \in 1..c : toRecv[i].k = Len(buf) + i - 1
         /\ IF rpc = "collect" THEN Len(buf) + c = len ELSE c = 0
    /\ \A i \in 1..Len(toRecv) :
         (toRecv[i].type = "FF") <=> (spc = "wait" /\ i = Len(toRecv))
    /\ spc = "wait" => toRecv # <<>> /\ toRecv[Len(toRecv)].msg = msg

OneGrant == toSend # <<>> => Len(toSend) = 1 /\ spc = "wait"

Complete == PiecesFollow /\ PiecesEnd /\ OneGrant

Lossless == ~interrupted /\ ~firstLost /\ ~otherLost /\ ~closed => Complete

---------------------------------------------------------------------------
(* Queues.                                                                 *)

RecvFrames == [type : {"SF", "FF", "CF"}, msg : Messages, k : Nat]
FcFrames == [type : {"FC"}, msg : {NoMessage}, k : BlockSizes]

\* A queue takes a frame or loses it.
LEMMA PushFacts ==
  ASSUME NEW S, NEW q \in Seq(S), NEW f \in S, Len(q) <= Depth
  PROVE  LET r == Push(q, f)
         IN  /\ r \in Seq(S) /\ Len(r) <= Depth
             /\ Lost(q) => r = q
             /\ ~Lost(q) => /\ Len(r) = Len(q) + 1
                            /\ \A i \in 1..Len(q) : r[i] = q[i]
                            /\ r[Len(q) + 1] = f
BY IsoTpAssumption DEF Push, Lost

---------------------------------------------------------------------------
(* Types.                                                                  *)

\* The frames that send() makes.
LEMMA FrameTypes ==
  ASSUME NEW m \in Messages, NEW k \in Nat
  PROVE  /\ Frame("SF", m, 0) \in RecvFrames
         /\ Frame("FF", m, Pieces[m]) \in RecvFrames
         /\ Frame("CF", m, k) \in RecvFrames
         /\ Pieces[m] \in Nat
BY IsoTpAssumption DEF Frame, RecvFrames

\* What a frame was made of.
LEMMA FrameFields ==
  ASSUME NEW t, NEW m, NEW k
  PROVE  /\ Frame(t, m, k).type = t
         /\ Frame(t, m, k).msg = m
         /\ Frame(t, m, k).k = k
BY DEF Frame

\* The types of the queues, and of the rest.
QueueTypes ==
  /\ toRecv \in Seq(RecvFrames) /\ Len(toRecv) <= Depth
  /\ toSend \in Seq(FcFrames) /\ Len(toSend) <= Depth

LocalTypes ==
  /\ blockSize \in BlockSizes
  /\ spc \in {"idle", "wait", "send"}
  /\ msg \in Messages \union {NoMessage}
  /\ piece \in Nat /\ bs \in Nat /\ blockCount \in Nat
  /\ rpc \in {"idle", "first", "collect"}
  /\ buf \in Seq(Messages \X Nat)
  /\ len \in Nat /\ cfInBlock \in Nat
  /\ closed \in BOOLEAN /\ interrupted \in BOOLEAN
  /\ firstLost \in BOOLEAN /\ otherLost \in BOOLEAN
  /\ sent \in Seq(Messages)
  /\ returned \in Seq(Seq(Messages \X Nat))

LEMMA TypeParts == TypeOK <=> QueueTypes /\ LocalTypes
BY DEF TypeOK, QueueTypes, LocalTypes, RecvFrames, FcFrames

\* The fields of a frame on its way.
LEMMA FieldTypes ==
  /\ \A f \in RecvFrames :
       f.type \in {"SF", "FF", "CF"} /\ f.msg \in Messages /\ f.k \in Nat
  /\ \A f \in FcFrames : f.k \in BlockSizes /\ f.k \in Nat
BY IsoTpAssumption DEF RecvFrames, FcFrames

\* recv() takes the front of its queue.
LEMMA TakeFacts ==
  ASSUME QueueTypes, Take
  PROVE  /\ Len(toRecv) \in Nat \ {0}
         /\ toRecv' \in Seq(RecvFrames)
         /\ Len(toRecv') = Len(toRecv) - 1
         /\ \A i \in 1..Len(toRecv') : toRecv'[i] = toRecv[i + 1]
         /\ Incoming = toRecv[1]
         /\ Incoming \in RecvFrames
         /\ Incoming.msg \in Messages /\ Incoming.k \in Nat
         /\ Incoming.type \in {"SF", "FF", "CF"}
<1>1. toRecv \in Seq(RecvFrames) /\ toRecv # <<>> /\ toRecv' = Tail(toRecv)
  BY DEF QueueTypes, Take
<1>2. /\ Len(toRecv) \in Nat \ {0}
      /\ toRecv' \in Seq(RecvFrames)
      /\ Len(toRecv') = Len(toRecv) - 1
      /\ \A i \in 1..(Len(toRecv) - 1) : toRecv'[i] = toRecv[i + 1]
      /\ Incoming = toRecv[1]
      /\ Incoming \in RecvFrames
  BY <1>1, TailFacts DEF Incoming
<1>. QED
  BY <1>2, FieldTypes

\* A ContinueToSend finds its place or is lost.
LEMMA GrantFacts ==
  ASSUME QueueTypes, LocalTypes, Grant
  PROVE  /\ toSend' \in Seq(FcFrames) /\ Len(toSend') <= Depth
         /\ Lost(toSend) => toSend' = toSend
         /\ ~Lost(toSend) => /\ Len(toSend') = Len(toSend) + 1
                             /\ \A i \in 1..Len(toSend) : toSend'[i] = toSend[i]
                             /\ toSend'[Len(toSend) + 1].k = blockSize
         /\ ~closed
<1>. DEFINE f == Frame("FC", NoMessage, blockSize)
<1>1. f \in FcFrames
  BY DEF Frame, FcFrames, LocalTypes
<1>2. f.k = blockSize
  BY FrameFields
<1>. HIDE DEF f
<1>3. toSend' = Push(toSend, f) /\ ~closed
  BY DEF Grant, f
<1>4. toSend \in Seq(FcFrames) /\ Len(toSend) <= Depth
  BY DEF QueueTypes
<1>5. /\ Push(toSend, f) \in Seq(FcFrames) /\ Len(Push(toSend, f)) <= Depth
      /\ Lost(toSend) => Push(toSend, f) = toSend
      /\ ~Lost(toSend) =>
           /\ Len(Push(toSend, f)) = Len(toSend) + 1
           /\ \A i \in 1..Len(toSend) : Push(toSend, f)[i] = toSend[i]
           /\ Push(toSend, f)[Len(toSend) + 1] = f
  BY <1>1, <1>4, PushFacts
<1>. QED
  BY <1>2, <1>3, <1>5

\* What send() puts into the queue of the receiver.
LEMMA SendFacts ==
  ASSUME QueueTypes, LocalTypes, NEW t \in {"SF", "FF", "CF"}, NEW m \in Messages,
         NEW k \in Nat, toRecv' = Push(toRecv, Frame(t, m, k))
  PROVE  /\ toRecv' \in Seq(RecvFrames) /\ Len(toRecv') <= Depth
         /\ Lost(toRecv) => toRecv' = toRecv
         /\ ~Lost(toRecv) =>
              /\ Len(toRecv') = Len(toRecv) + 1
              /\ \A i \in 1..Len(toRecv) : toRecv'[i] = toRecv[i]
              /\ toRecv'[Len(toRecv')].type = t
              /\ toRecv'[Len(toRecv')].msg = m
              /\ toRecv'[Len(toRecv')].k = k
<1>. DEFINE f == Frame(t, m, k)
<1>1. f \in RecvFrames /\ f.type = t /\ f.msg = m /\ f.k = k
  BY DEF Frame, RecvFrames
<1>. HIDE DEF f
<1>2. toRecv' = Push(toRecv, f)
  BY DEF f
<1>3. toRecv \in Seq(RecvFrames) /\ Len(toRecv) <= Depth
  BY DEF QueueTypes
<1>4. /\ Push(toRecv, f) \in Seq(RecvFrames) /\ Len(Push(toRecv, f)) <= Depth
      /\ Lost(toRecv) => Push(toRecv, f) = toRecv
      /\ ~Lost(toRecv) =>
           /\ Len(Push(toRecv, f)) = Len(toRecv) + 1
           /\ \A i \in 1..Len(toRecv) : Push(toRecv, f)[i] = toRecv[i]
           /\ Push(toRecv, f)[Len(toRecv) + 1] = f
  BY <1>1, <1>3, PushFacts
<1>. QED
  BY <1>1, <1>2, <1>4

\* Several returns of recv() leave nothing but the frame they took.
Abandon == Take /\ Fail /\ NoReply

\* A piece that does not fill the block; one that does; the first frame.
CollectQuietly ==
  /\ rpc = "collect" /\ Take /\ Fits(Incoming)
  /\ Len(More) < len
  /\ ~BlockFull(cfInBlock + 1)
  /\ buf' = More
  /\ cfInBlock' = cfInBlock + 1
  /\ NoReply
  /\ UNCHANGED <<rpc, len, returned>>

CollectAndGrant ==
  /\ rpc = "collect" /\ Take /\ Fits(Incoming)
  /\ Len(More) < len
  /\ BlockFull(cfInBlock + 1)
  /\ Grant
  /\ buf' = More
  /\ cfInBlock' = 0
  /\ UNCHANGED <<rpc, len, returned>>

BeginAndGrant ==
  /\ rpc = "first" /\ Take /\ Incoming.type = "FF"
  /\ Grant
  /\ rpc' = "collect"
  /\ buf' = <<<<Incoming.msg, 0>>>>
  /\ len' = Incoming.k + 1
  /\ cfInBlock' = 0
  /\ UNCHANGED returned

LastPiece ==
  /\ spc = "send" /\ ~closed
  /\ toRecv' = Push(toRecv, Frame("CF", msg, piece))
  /\ otherLost' = (otherLost \/ Lost(toRecv))
  /\ piece = Pieces[msg] /\ SendReturns
  /\ UNCHANGED <<blockSize, toSend, recvVars, closed, interrupted, firstLost>>

NextPiece ==
  /\ spc = "send" /\ ~closed
  /\ toRecv' = Push(toRecv, Frame("CF", msg, piece))
  /\ otherLost' = (otherLost \/ Lost(toRecv))
  /\ MorePieces
  /\ UNCHANGED <<blockSize, toSend, recvVars, closed, interrupted, firstLost>>

\* The steps, by what they do to the two sides.
LEMMA StepKinds ==
  ASSUME [Next]_vars
  PROVE  \/ \E m \in Messages : Send(m)
         \/ WaitFc \/ NextPiece \/ LastPiece \/ SendClosed \/ FcTimeout
         \/ CallRecv \/ RecvSingle \/ BeginAndGrant
         \/ Abandon /\ (RecvFirst \/ RecvStray \/ RecvMisfit \/ RecvPiece)
         \/ RecvLast \/ CollectQuietly \/ CollectAndGrant
         \/ RecvClosed \/ RecvTimeout \/ CloseBus
         \/ UNCHANGED vars
<1>1. CASE SendPiece
  BY <1>1 DEF SendPiece, NextPiece, LastPiece
<1>2. CASE RecvFirst
  BY <1>2 DEF RecvFirst, GrantFails, Abandon, BeginAndGrant
<1>3. CASE RecvStray \/ RecvMisfit
  BY <1>3 DEF RecvStray, RecvMisfit, Abandon
<1>4. CASE RecvPiece
  BY <1>4 DEF RecvPiece, GrantFails, Abandon, CollectAndGrant, CollectQuietly
<1>. QED
  BY <1>1, <1>2, <1>3, <1>4 DEF Next, SendStep, RecvStep

LEMMA QueueTypesPreserved ==
  ASSUME QueueTypes, LocalTypes, SendLocals, [Next]_vars
  PROVE  QueueTypes'
<1>0. BlockSizes \subseteq Nat /\ Pieces \in [Messages -> Nat]
  BY IsoTpAssumption
<1>1. ASSUME UNCHANGED toRecv PROVE toRecv' \in Seq(RecvFrames) /\ Len(toRecv') <= Depth
  BY <1>1 DEF QueueTypes
<1>2. ASSUME UNCHANGED toSend PROVE toSend' \in Seq(FcFrames) /\ Len(toSend') <= Depth
  BY <1>2 DEF QueueTypes
<1>3. ASSUME Take PROVE toRecv' \in Seq(RecvFrames) /\ Len(toRecv') <= Depth
  BY <1>3, TakeFacts, IsoTpAssumption DEF QueueTypes
<1>4. ASSUME NEW m \in Messages, Send(m) PROVE QueueTypes'
  <2>1. CASE SendSingle(m)
    BY <1>2, <1>4, <2>1, SendFacts DEF QueueTypes, Send, SendSingle
  <2>2. CASE SendFirst(m)
    BY <1>0, <1>2, <1>4, <2>2, SendFacts DEF QueueTypes, Send, SendFirst
  <2>. QED
    BY <1>4, <2>1, <2>2 DEF Send
<1>5. CASE WaitFc
  <2>1. toSend \in Seq(FcFrames) /\ toSend # <<>> /\ toSend' = Tail(toSend)
    BY <1>5 DEF QueueTypes, WaitFc
  <2>2. toSend' \in Seq(FcFrames) /\ Len(toSend') <= Depth
    BY <2>1, TailFacts, IsoTpAssumption DEF QueueTypes
  <2>. QED
    BY <1>1, <1>5, <2>2 DEF QueueTypes, WaitFc
<1>6. CASE NextPiece \/ LastPiece
  <2>1. msg \in Messages /\ piece \in Nat
    BY <1>6 DEF NextPiece, LastPiece, SendLocals, LocalTypes
  <2>. QED
    BY <1>2, <1>6, <2>1, SendFacts DEF QueueTypes, NextPiece, LastPiece
<1>7. CASE SendClosed \/ FcTimeout \/ CallRecv \/ RecvClosed \/ RecvTimeout \/ CloseBus
  BY <1>1, <1>2, <1>7
     DEF QueueTypes, SendClosed, FcTimeout, CallRecv, RecvClosed, RecvTimeout, CloseBus
<1>8. CASE RecvSingle \/ RecvLast \/ Abandon \/ CollectQuietly
  BY <1>2, <1>3, <1>8
     DEF QueueTypes, RecvSingle, RecvLast, Abandon, CollectQuietly, NoReply
<1>9. CASE BeginAndGrant \/ CollectAndGrant
  BY <1>3, <1>9, GrantFacts DEF QueueTypes, BeginAndGrant, CollectAndGrant
<1>10. CASE UNCHANGED vars
  BY <1>10 DEF QueueTypes, vars
<1>. QED
  BY <1>4, <1>5, <1>6, <1>7, <1>8, <1>9, <1>10, StepKinds

LEMMA LocalTypesPreserved ==
  ASSUME QueueTypes, LocalTypes, [Next]_vars
  PROVE  LocalTypes'
<1>. USE DEF LocalTypes, sendVars, recvVars, lossVars
<1>1. ASSUME NEW m \in Messages, Send(m) PROVE LocalTypes'
  <2>1. /\ spc' \in {"idle", "wait", "send"} /\ piece' \in Nat
        /\ msg' \in Messages \union {NoMessage}
        /\ firstLost' \in BOOLEAN /\ otherLost' \in BOOLEAN
    <3>1. Lost(toRecv) \in BOOLEAN
      BY DEF Lost
    <3>2. CASE SendSingle(m)
      BY <3>1, <3>2 DEF SendSingle
    <3>3. CASE SendFirst(m)
      BY <3>1, <3>3 DEF SendFirst
    <3>. QED
      BY <1>1, <3>2, <3>3 DEF Send
  <2>. QED
    BY <1>1, <2>1 DEF Send
<1>2. CASE WaitFc
  <2>1. Head(toSend).k \in Nat
    BY <1>2, FieldTypes, TailFacts DEF QueueTypes, WaitFc
  <2>. QED
    BY <1>2, <2>1 DEF WaitFc
<1>3. CASE NextPiece \/ LastPiece \/ SendClosed \/ FcTimeout
  <2>1. /\ spc' \in {"idle", "wait", "send"}
        /\ piece' \in Nat /\ bs' \in Nat /\ blockCount' \in Nat
        /\ msg' \in Messages \union {NoMessage}
    BY <1>3
       DEF NextPiece, LastPiece, MorePieces, SendReturns, SendClosed, FcTimeout
  <2>2. otherLost' \in BOOLEAN /\ interrupted' \in BOOLEAN
    BY <1>3 DEF NextPiece, LastPiece, SendClosed, FcTimeout, Lost
  <2>. QED
    BY <1>3, <2>1, <2>2
       DEF NextPiece, LastPiece, MorePieces, SendReturns, SendClosed, FcTimeout
<1>4. CASE CallRecv \/ CloseBus
  BY <1>4 DEF CallRecv, CloseBus
<1>5. CASE RecvClosed \/ RecvTimeout
  <2>1. /\ rpc' = "idle" /\ buf' = <<>> /\ len' = 0 /\ cfInBlock' = 0
        /\ interrupted' \in BOOLEAN
    BY <1>5 DEF RecvClosed, RecvTimeout, Fail, RecvReturns
  <2>. QED
    BY <1>5, <2>1 DEF RecvClosed, RecvTimeout, Fail
<1>6. CASE Abandon
  BY <1>6 DEF Abandon, Take, Fail, RecvReturns, NoReply
<1>7. ASSUME Take
      PROVE  /\ Incoming.msg \in Messages /\ Incoming.k \in Nat
             /\ More \in Seq(Messages \X Nat)
             /\ <<<<Incoming.msg, 0>>>> \in Seq(Messages \X Nat)
             /\ UNCHANGED <<blockSize, spc, msg, piece, bs, blockCount, sent, closed,
                            interrupted, firstLost>>
  BY <1>7, TakeFacts DEF More, Take
<1>8. CASE RecvSingle \/ RecvLast
  <2>1. CASE RecvSingle
    BY <1>7, <2>1 DEF RecvSingle, Return, RecvReturns, NoReply
  <2>2. CASE RecvLast
    BY <1>7, <2>2 DEF RecvLast, Return, RecvReturns, NoReply
  <2>. QED
    BY <1>8, <2>1, <2>2
<1>9. CASE BeginAndGrant
  BY <1>7, <1>9 DEF BeginAndGrant, Grant, Lost
<1>10. CASE CollectQuietly
  BY <1>7, <1>10 DEF CollectQuietly, NoReply
<1>11. CASE CollectAndGrant
  BY <1>7, <1>11 DEF CollectAndGrant, Grant, Lost
<1>12. CASE UNCHANGED vars
  BY <1>12 DEF vars
<1>. QED
  BY <1>1, <1>2, <1>3, <1>4, <1>5, <1>6, <1>8, <1>9, <1>10, <1>11, <1>12, StepKinds

---------------------------------------------------------------------------
(* Locals, and what is on its way.                                         *)

LEMMA SendLocalsPreserved ==
  ASSUME QueueTypes, LocalTypes, SendLocals, [Next]_vars
  PROVE  SendLocals'
<1>. USE DEF SendLocals, sendVars, recvVars, lossVars
<1>0. /\ Pieces \in [Messages -> Nat] /\ NoMessage \notin Messages
      /\ sent \in Seq(Messages)
      /\ bs \in Nat /\ piece \in Nat /\ blockCount \in Nat
  BY IsoTpAssumption DEF LocalTypes
<1>1. ASSUME NEW m \in Messages, Send(m) PROVE SendLocals'
  <2>1. CASE SendSingle(m)
    BY <1>0, <1>1, <2>1 DEF Send, SendSingle
  <2>2. CASE SendFirst(m)
    <3>1. piece' = 1 /\ piece' \in 1..Pieces[m] /\ msg' = m /\ spc' = "wait"
      BY <1>0, <2>2 DEF SendFirst
    <3>2. sent' # <<>> /\ sent'[Len(sent')] = m
      BY <1>0, <1>1 DEF Send
    <3>3. UNCHANGED <<toSend, blockSize>>
      BY <1>1 DEF Send
    <3>. QED
      BY <3>1, <3>2, <3>3
  <2>. QED
    BY <1>1, <2>1, <2>2 DEF Send
<1>2. CASE WaitFc
  <2>1. toSend \in Seq(FcFrames) /\ toSend # <<>>
    BY <1>2 DEF WaitFc, QueueTypes
  <2>2. /\ Head(toSend) = toSend[1] /\ Len(toSend) \in Nat \ {0}
        /\ Len(Tail(toSend)) = Len(toSend) - 1
        /\ \A i \in 1..(Len(toSend) - 1) : Tail(toSend)[i] = toSend[i + 1]
    BY <2>1, TailFacts
  <2>3. /\ toSend' = Tail(toSend) /\ bs' = Head(toSend).k
        /\ UNCHANGED <<sent, msg, piece, blockSize>>
        /\ spc = "wait" /\ spc' = "send"
    BY <1>2 DEF WaitFc
  <2>4. bs' = blockSize'
    BY <2>2, <2>3
  <2>5. \A i \in 1..Len(toSend') : toSend'[i].k = blockSize'
    BY <2>2, <2>3
  <2>. QED
    BY <2>3, <2>4, <2>5
<1>3. CASE NextPiece
  <2>1. /\ piece' = piece + 1 /\ piece < Pieces[msg] /\ spc = "send"
        /\ spc' \in {"wait", "send"} /\ (spc' = "wait" => bs # 0)
        /\ UNCHANGED <<msg, bs, sent, toSend, blockSize>>
    BY <1>0, <1>3 DEF NextPiece, MorePieces, EndOfBlock
  <2>. QED
    BY <1>0, <2>1
<1>4. CASE LastPiece \/ SendClosed \/ FcTimeout
  BY <1>4 DEF LastPiece, SendClosed, FcTimeout, SendReturns
<1>5. CASE CallRecv \/ RecvClosed \/ RecvTimeout \/ CloseBus
  BY <1>5 DEF CallRecv, RecvClosed, RecvTimeout, CloseBus
<1>6. CASE RecvSingle \/ RecvLast \/ Abandon \/ CollectQuietly
  BY <1>6 DEF RecvSingle, RecvLast, Abandon, CollectQuietly, Take, NoReply
<1>7. CASE BeginAndGrant \/ CollectAndGrant
  <2>1. Grant /\ UNCHANGED <<spc, msg, piece, bs, sent, blockSize>>
    BY <1>7 DEF BeginAndGrant, CollectAndGrant, Take
  <2>2. Len(toSend) \in Nat
    BY DEF QueueTypes
  <2>3. \A i \in 1..Len(toSend') : toSend'[i].k = blockSize
    BY <2>1, <2>2, GrantFacts
  <2>. QED
    BY <2>1, <2>3
<1>8. CASE UNCHANGED vars
  BY <1>8 DEF vars
<1>. QED
  BY <1>1, <1>2, <1>3, <1>4, <1>5, <1>6, <1>7, <1>8, StepKinds

LEMMA RecvLocalsPreserved ==
  ASSUME QueueTypes, LocalTypes, RecvLocals, FramesKnown, [Next]_vars
  PROVE  RecvLocals'
<1>. USE DEF RecvLocals, sendVars, recvVars, lossVars
<1>0. /\ Pieces \in [Messages -> Nat]
      /\ buf \in Seq(Messages \X Nat) /\ len \in Nat /\ cfInBlock \in Nat
      /\ blockSize \in Nat
  BY IsoTpAssumption DEF LocalTypes
<1>1. ASSUME NEW m \in Messages, Send(m) PROVE RecvLocals'
  BY <1>1 DEF Send
<1>2. CASE WaitFc \/ NextPiece \/ LastPiece \/ SendClosed \/ FcTimeout \/ CloseBus
  BY <1>2 DEF WaitFc, NextPiece, LastPiece, SendClosed, FcTimeout, CloseBus
<1>3. CASE CallRecv
  BY <1>3 DEF CallRecv
<1>4. ASSUME RecvReturns, UNCHANGED blockSize PROVE RecvLocals'
  BY <1>0, <1>4 DEF RecvReturns
<1>5. CASE RecvSingle \/ RecvLast \/ Abandon \/ RecvClosed \/ RecvTimeout
  BY <1>4, <1>5
     DEF RecvSingle, RecvLast, Abandon, RecvClosed, RecvTimeout, Return, Fail, Take
<1>6. CASE BeginAndGrant
  <2>1. /\ Incoming.msg \in Messages /\ Incoming.k = Pieces[Incoming.msg]
        /\ Incoming.k > 0 /\ Incoming.k \in Nat
    BY <1>6, TakeFacts DEF BeginAndGrant, FramesKnown, KnownIn
  <2>2. /\ buf' = <<<<Incoming.msg, 0>>>> /\ len' = Incoming.k + 1
        /\ cfInBlock' = 0 /\ rpc' = "collect" /\ UNCHANGED blockSize
    BY <1>6 DEF BeginAndGrant, Take
  <2>. QED
    BY <1>0, <2>1, <2>2
<1>7. ASSUME rpc = "collect", buf' = More, Len(More) < len, UNCHANGED <<rpc, len>>
      PROVE  /\ Len(buf') \in 1..(len' - 1)
             /\ buf'[1][1] \in Messages
             /\ buf'[1][2] = 0 /\ len' = Pieces[buf'[1][1]] + 1
  <2>1. Len(More) = Len(buf) + 1 /\ More[1] = buf[1]
    BY <1>0, <1>7 DEF More
  <2>. QED
    BY <1>0, <1>7, <2>1
<1>8. CASE CollectQuietly
  <2>1. /\ rpc = "collect" /\ buf' = More /\ Len(More) < len
        /\ UNCHANGED <<rpc, len, blockSize>>
        /\ blockSize # 0 => cfInBlock' < blockSize
    BY <1>0, <1>8 DEF CollectQuietly, BlockFull, Take
  <2>. QED
    BY <1>7, <2>1
<1>9. CASE CollectAndGrant
  <2>1. /\ rpc = "collect" /\ buf' = More /\ Len(More) < len
        /\ UNCHANGED <<rpc, len, blockSize>>
        /\ blockSize # 0 => cfInBlock' < blockSize
    BY <1>0, <1>9 DEF CollectAndGrant, Take
  <2>. QED
    BY <1>7, <2>1
<1>10. CASE UNCHANGED vars
  BY <1>10 DEF vars
<1>. QED
  BY <1>1, <1>2, <1>3, <1>5, <1>6, <1>8, <1>9, <1>10, StepKinds

\* The messages in the order of sending, none twice.
LEMMA SentFacts ==
  ASSUME LocalTypes, SentOnce, NEW m \in Messages, Send(m)
  PROVE  /\ SentOnce'
         /\ Len(sent') = Len(sent) + 1 /\ Len(sent) \in Nat
         /\ sent'[Len(sent')] = m
         /\ \A p \in 1..Len(sent) : sent'[p] = sent[p]
         /\ ToSet(sent') = ToSet(sent) \union {m}
         /\ m \notin ToSet(sent)
<1>1. sent \in Seq(Messages) /\ sent' = Append(sent, m) /\ m \notin ToSet(sent)
  BY DEF LocalTypes, Send
<1>2. /\ Len(sent') = Len(sent) + 1 /\ Len(sent) \in Nat
      /\ sent'[Len(sent')] = m
      /\ \A p \in 1..Len(sent) : sent'[p] = sent[p]
      /\ DOMAIN sent' = 1..(Len(sent) + 1) /\ DOMAIN sent = 1..Len(sent)
  BY <1>1
<1>3. ToSet(sent') = ToSet(sent) \union {m}
  BY <1>2 DEF ToSet
<1>4. \A p \in 1..Len(sent) : sent[p] # m
  BY <1>1, <1>2 DEF ToSet
<1>5. SentOnce'
  BY <1>2, <1>4 DEF SentOnce
<1>. QED
  BY <1>1, <1>2, <1>3, <1>5

LEMMA OthersSendNothing ==
  ASSUME [Next]_vars, \A m \in Messages : ~Send(m)
  PROVE  UNCHANGED sent
BY StepKinds
   DEF WaitFc, NextPiece, LastPiece, SendClosed, FcTimeout, CallRecv, RecvSingle,
   BeginAndGrant, Abandon, RecvLast, CollectQuietly, CollectAndGrant, RecvClosed,
   RecvTimeout, CloseBus, vars, sendVars, MorePieces, SendReturns, Take

LEMMA SentOncePreserved ==
  ASSUME LocalTypes, SentOnce, [Next]_vars
  PROVE  SentOnce'
BY SentFacts, OthersSendNothing DEF SentOnce

\* What happens to the queue of the receiver.
Enters(t, m, k) == toRecv' = Push(toRecv, Frame(t, m, k))

LEMMA QueueSteps ==
  ASSUME QueueTypes, LocalTypes, SendLocals, [Next]_vars
  PROVE  \/ UNCHANGED toRecv
         \/ Take
         \/ \E m \in Messages :
              /\ Send(m)
              /\ \/ SendSingle(m) /\ Enters("SF", m, 0)
                 \/ SendFirst(m) /\ Enters("FF", m, Pieces[m])
         \/ (NextPiece \/ LastPiece) /\ Enters("CF", msg, piece)
<1>1. ASSUME NEW m \in Messages, Send(m)
      PROVE  \/ SendSingle(m) /\ Enters("SF", m, 0)
             \/ SendFirst(m) /\ Enters("FF", m, Pieces[m])
  <2>1. CASE SendSingle(m)
    BY <2>1 DEF SendSingle, Enters
  <2>2. CASE SendFirst(m)
    BY <2>2 DEF SendFirst, Enters
  <2>. QED
    BY <1>1, <2>1, <2>2 DEF Send
<1>2. CASE NextPiece \/ LastPiece
  BY <1>2 DEF NextPiece, LastPiece, Enters
<1>3. CASE RecvSingle \/ BeginAndGrant \/ Abandon \/ RecvLast \/ CollectQuietly
             \/ CollectAndGrant
  BY <1>3
     DEF RecvSingle, BeginAndGrant, Abandon, RecvLast, CollectQuietly, CollectAndGrant
<1>4. CASE WaitFc \/ SendClosed \/ FcTimeout \/ CallRecv \/ RecvClosed
             \/ RecvTimeout \/ CloseBus \/ UNCHANGED vars
  BY <1>4
     DEF WaitFc, SendClosed, FcTimeout, CallRecv, RecvClosed, RecvTimeout, CloseBus,
     vars
<1>. QED
  BY <1>1, <1>2, <1>3, <1>4, StepKinds

\* A frame known to some messages is known to more.
LEMMA KnownGrows ==
  ASSUME NEW S, NEW T, S \subseteq T, NEW f, KnownIn(f, S)
  PROVE  KnownIn(f, T)
BY DEF KnownIn

LEMMA FramesKnownPreserved ==
  ASSUME QueueTypes, LocalTypes, SendLocals, SentOnce, FramesKnown, [Next]_vars
  PROVE  FramesKnown'
<1>0. /\ \A i \in 1..Len(toRecv) : KnownIn(toRecv[i], ToSet(sent))
      /\ Len(toRecv) \in Nat
      /\ Pieces \in [Messages -> Nat] /\ sent \in Seq(Messages)
      /\ toRecv \in Seq(RecvFrames)
  BY IsoTpAssumption DEF FramesKnown, QueueTypes, LocalTypes
<1>1. ToSet(sent) \subseteq ToSet(sent')
  BY SentFacts, OthersSendNothing
<1>2. SUFFICES \A i \in 1..Len(toRecv') : KnownIn(toRecv'[i], ToSet(sent'))
  BY DEF FramesKnown, KnownIn
<1>3. \A i \in 1..Len(toRecv) : KnownIn(toRecv[i], ToSet(sent'))
  BY <1>0, <1>1, KnownGrows
<1>4. CASE UNCHANGED toRecv
  BY <1>3, <1>4
<1>5. CASE Take
  <2>1. /\ Len(toRecv') = Len(toRecv) - 1
        /\ \A i \in 1..Len(toRecv') : toRecv'[i] = toRecv[i + 1]
    BY <1>5, TakeFacts
  <2>2. \A i \in 1..Len(toRecv') : i + 1 \in 1..Len(toRecv)
    BY <1>0, <2>1
  <2>. QED
    BY <1>3, <2>1, <2>2
<1>6. ASSUME NEW t \in {"SF", "FF", "CF"}, NEW m \in Messages, NEW k \in Nat,
             Enters(t, m, k), m \in ToSet(sent'),
             t = "SF" => Pieces[m] = 0,
             t = "FF" => k = Pieces[m] /\ k > 0,
             t = "CF" => k \in 1..Pieces[m]
      PROVE  \A i \in 1..Len(toRecv') : KnownIn(toRecv'[i], ToSet(sent'))
  <2>1. CASE Lost(toRecv)
    <3>1. UNCHANGED toRecv
      BY <1>6, <2>1, SendFacts DEF Enters
    <3>. QED
      BY <1>4, <3>1
  <2>2. CASE ~Lost(toRecv)
    <3>1. /\ Len(toRecv') = Len(toRecv) + 1
          /\ \A i \in 1..Len(toRecv) : toRecv'[i] = toRecv[i]
          /\ toRecv'[Len(toRecv')].type = t
          /\ toRecv'[Len(toRecv')].msg = m
          /\ toRecv'[Len(toRecv')].k = k
      BY <1>6, <2>2, SendFacts DEF Enters
    <3>2. KnownIn(toRecv'[Len(toRecv')], ToSet(sent'))
      BY <1>6, <3>1 DEF KnownIn
    <3>3. \A i \in 1..Len(toRecv') : i \in 1..Len(toRecv) \/ i = Len(toRecv')
      BY <1>0, <3>1
    <3>. QED
      BY <1>3, <3>1, <3>2, <3>3
  <2>. QED
    BY <2>1, <2>2
<1>7. ASSUME NEW m \in Messages, Send(m) PROVE m \in ToSet(sent')
  BY <1>7, SentFacts
<1>8. ASSUME NEW m \in Messages, Send(m), SendSingle(m), Enters("SF", m, 0)
      PROVE  \A i \in 1..Len(toRecv') : KnownIn(toRecv'[i], ToSet(sent'))
  BY <1>6, <1>7, <1>8 DEF SendSingle
<1>9. ASSUME NEW m \in Messages, Send(m), SendFirst(m), Enters("FF", m, Pieces[m])
      PROVE  \A i \in 1..Len(toRecv') : KnownIn(toRecv'[i], ToSet(sent'))
  BY <1>0, <1>6, <1>7, <1>9 DEF SendFirst
<1>10. ASSUME NextPiece \/ LastPiece, Enters("CF", msg, piece)
       PROVE  \A i \in 1..Len(toRecv') : KnownIn(toRecv'[i], ToSet(sent'))
  <2>1. msg \in Messages /\ piece \in 1..Pieces[msg] /\ piece \in Nat
    BY <1>0, <1>10 DEF NextPiece, LastPiece, SendLocals
  <2>2. msg \in ToSet(sent)
    BY <1>0, <1>10 DEF NextPiece, LastPiece, SendLocals, ToSet
  <2>. QED
    BY <1>1, <1>6, <1>10, <2>1, <2>2
<1>. QED
  BY <1>4, <1>5, <1>8, <1>9, <1>10, QueueSteps
---------------------------------------------------------------------------
(* The order of the messages.                                              *)

\* A place in a sequence without repetitions.
LEMMA PosFacts ==
  ASSUME NEW s \in Seq(Messages), \A p, q \in 1..Len(s) : s[p] = s[q] => p = q
  PROVE  /\ \A p \in 1..Len(s) : PosIn(s, s[p]) = p
         /\ \A m \in ToSet(s) : PosIn(s, m) \in 1..Len(s) /\ s[PosIn(s, m)] = m
<1>1. ASSUME NEW p \in 1..Len(s) PROVE PosIn(s, s[p]) = p
  BY DEF PosIn
<1>2. ASSUME NEW m \in ToSet(s)
      PROVE  PosIn(s, m) \in 1..Len(s) /\ s[PosIn(s, m)] = m
  <2>1. PICK p \in 1..Len(s) : s[p] = m
    BY DEF ToSet
  <2>. QED
    BY <2>1 DEF PosIn
<1>. QED
  BY <1>1, <1>2

\* Sending a message leaves the order of the others alone.
LEMMA BeforeKept ==
  ASSUME LocalTypes, SentOnce, [Next]_vars
  PROVE  /\ ToSet(sent) \subseteq ToSet(sent')
         /\ \A m, n \in ToSet(sent) : Before(sent, m, n) => Before(sent', m, n)
         /\ \A m \in Messages, n \in ToSet(sent) : Send(m) => Before(sent', n, m)
<1>1. CASE \A m \in Messages : ~Send(m)
  BY <1>1, OthersSendNothing
<1>2. ASSUME NEW m \in Messages, Send(m)
      PROVE  /\ ToSet(sent) \subseteq ToSet(sent')
             /\ \A n \in ToSet(sent) : PosIn(sent', n) = PosIn(sent, n)
             /\ \A n \in ToSet(sent) : Before(sent', n, m)
  <2>1. /\ Len(sent') = Len(sent) + 1 /\ Len(sent) \in Nat
        /\ sent'[Len(sent')] = m
        /\ \A p \in 1..Len(sent) : sent'[p] = sent[p]
        /\ ToSet(sent') = ToSet(sent) \union {m}
        /\ SentOnce'
    BY <1>2, SentFacts
  <2>2. sent \in Seq(Messages) /\ sent' \in Seq(Messages)
    BY <1>2, LocalTypesPreserved DEF LocalTypes, Send
  <2>3. /\ \A p \in 1..Len(sent') : PosIn(sent', sent'[p]) = p
        /\ \A n \in ToSet(sent) : PosIn(sent, n) \in 1..Len(sent) /\ sent[PosIn(sent, n)] = n
    BY <2>1, <2>2, PosFacts DEF SentOnce
  <2>4. \A n \in ToSet(sent) : PosIn(sent', n) = PosIn(sent, n)
    BY <2>1, <2>3
  <2>5. PosIn(sent', m) = Len(sent) + 1
    BY <2>1, <2>3
  <2>. QED
    BY <2>1, <2>3, <2>4, <2>5 DEF Before
<1>. QED
  BY <1>1, <1>2 DEF Before

---------------------------------------------------------------------------
(* Whole payloads.                                                         *)

LEMMA WholeMeans ==
  ASSUME NEW m \in Messages
  PROVE  Meaning(Whole(m)) = m
<1>1. ASSUME NEW n \in Messages, Whole(m) = Whole(n) PROVE m = n
  <2>1. Whole(m)[1] = <<m, 0>> /\ Whole(n)[1] = <<n, 0>>
    BY IsoTpAssumption DEF Whole
  <2>. QED
    BY <1>1, <2>1
<1>. QED
  BY <1>1 DEF Meaning

\* A single frame is the whole of its message.
LEMMA SingleIsWhole ==
  ASSUME NEW m \in Messages, Pieces[m] = 0
  PROVE  <<<<m, 0>>>> = Whole(m)
BY DEF Whole

\* Pieces of one message that go up from 0 and are as many as it has are all
\* of it.
LEMMA GrowingIsWhole ==
  ASSUME NEW m \in Messages, NEW b \in Seq(Messages \X Nat),
         Len(b) = Pieces[m] + 1, b[1][2] = 0, b[Len(b)][2] <= Pieces[m],
         \A i \in 1..Len(b) : b[i][1] = m,
         \A i, j \in 1..Len(b) : i < j => b[j][2] - b[i][2] >= j - i
  PROVE  b = Whole(m)
<1>0. Pieces[m] \in Nat /\ Len(b) \in 1..(Pieces[m] + 1)
  BY IsoTpAssumption
<1>1. ASSUME NEW i \in 1..Len(b) PROVE b[i] = <<m, i - 1>>
  <2>1. b[i] \in Messages \X Nat /\ b[1] \in Messages \X Nat
        /\ b[Len(b)] \in Messages \X Nat
    BY <1>0
  <2>2. b[i][2] \in Nat /\ b[Len(b)][2] \in Nat
    BY <2>1
  <2>3. b[i][2] >= i - 1
    <3>1. 1 \in 1..Len(b) /\ (1 < i \/ i = 1)
      BY <1>0
    <3>2. 1 < i => b[i][2] - b[1][2] >= i - 1
      BY <3>1
    <3>. QED
      BY <1>0, <2>2, <3>1, <3>2
  <2>4. b[i][2] <= i - 1
    <3>. DEFINE x == b[i][2]
                y == b[Len(b)][2]
                l == Len(b)
                p == Pieces[m]
    <3>1. i < l => y - x >= l - i
      BY <1>0
    <3>2. i = l => x = y
      OBVIOUS
    <3>3. /\ x \in Nat /\ y \in Nat /\ p \in Nat /\ l = p + 1 /\ i \in 1..l
          /\ y <= p
      BY <1>0, <2>2
    <3>. HIDE DEF x, y, l, p
    <3>4. x <= i - 1
      BY <3>1, <3>2, <3>3
    <3>. QED
      BY <3>4 DEF x
  <2>5. b[i][1] = m /\ b[i][2] = i - 1
    BY <2>2, <2>3, <2>4
  <2>. QED
    BY <2>1, <2>5
<1>2. DOMAIN b = 1..(Pieces[m] + 1) /\ b = [i \in DOMAIN b |-> b[i]]
  BY <1>0
<1>. QED
  BY <1>0, <1>1, <1>2 DEF Whole

\* What was returned, read as messages.
LEMMA ReceivedFacts ==
  ASSUME LocalTypes
  PROVE  /\ Len(Received) = Len(returned) /\ Len(returned) \in Nat
         /\ UNCHANGED returned => UNCHANGED Received
         /\ \A p \in Seq(Messages \X Nat) : returned' = Append(returned, p) =>
              /\ Received' = Append(Received, Meaning(p))
              /\ Len(returned') = Len(returned) + 1
              /\ \A i \in 1..Len(returned) : Received'[i] = Received[i]
              /\ Received'[Len(returned) + 1] = Meaning(p)
<1>1. returned \in Seq(Seq(Messages \X Nat)) /\ Len(returned) \in Nat
  BY DEF LocalTypes
<1>2. Len(Received) = Len(returned)
  BY <1>1 DEF Received
<1>3. UNCHANGED returned => UNCHANGED Received
  BY DEF Received
<1>4. ASSUME NEW p \in Seq(Messages \X Nat), returned' = Append(returned, p)
      PROVE  /\ Received' = Append(Received, Meaning(p))
             /\ Len(returned') = Len(returned) + 1
             /\ \A i \in 1..Len(returned) : Received'[i] = Received[i]
             /\ Received'[Len(returned) + 1] = Meaning(p)
  <2>1. /\ Len(returned') = Len(returned) + 1
        /\ returned'[Len(returned) + 1] = p
        /\ \A i \in 1..Len(returned) : returned'[i] = returned[i]
    BY <1>1, <1>4
  <2>2. Received' = [i \in 1..(Len(returned) + 1) |-> Meaning(returned'[i])]
    BY <2>1 DEF Received
  <2>3. Received' = Append(Received, Meaning(p))
    BY <1>1, <2>1, <2>2 DEF Received
  <2>. QED
    BY <1>1, <2>1, <2>2, <2>3 DEF Received
<1>. QED
  BY <1>1, <1>2, <1>3, <1>4
---------------------------------------------------------------------------
(* Chains.                                                                 *)

\* The same frames, and a message that is given up or not.
LEMMA ChainKept ==
  ASSUME NEW q, NEW r, NEW n \in Nat, NEW m, NEW b, NEW c,
         Chain(q, n, m, b), \A i \in 1..n : r[i] = q[i], c \in {b, NoMessage}
  PROVE  Chain(r, n, m, c)
<1>1. CASE \E i \in 1..n : /\ q[i].type = "FF" /\ q[i].msg = m
                           /\ \A l \in (i + 1)..n : q[l].type = "CF" /\ q[l].msg = m
  <2>1. PICK i \in 1..n : /\ q[i].type = "FF" /\ q[i].msg = m
                          /\ \A l \in (i + 1)..n : q[l].type = "CF" /\ q[l].msg = m
    BY <1>1
  <2>2. \A l \in (i + 1)..n : l \in 1..n
    OBVIOUS
  <2>. QED
    BY <2>1, <2>2 DEF Chain
<1>2. CASE /\ \A l \in 1..n : q[l].type = "CF" /\ q[l].msg = m
           /\ b \in {m, NoMessage}
  BY <1>2 DEF Chain
<1>. QED
  BY <1>1, <1>2 DEF Chain

\* One more piece.
LEMMA ChainLonger ==
  ASSUME NEW q, NEW n \in Nat, NEW m, NEW b,
         Chain(q, n, m, b), q[n + 1].type = "CF", q[n + 1].msg = m
  PROVE  Chain(q, n + 1, m, b)
<1>1. CASE \E i \in 1..n : /\ q[i].type = "FF" /\ q[i].msg = m
                           /\ \A l \in (i + 1)..n : q[l].type = "CF" /\ q[l].msg = m
  <2>1. PICK i \in 1..n : /\ q[i].type = "FF" /\ q[i].msg = m
                          /\ \A l \in (i + 1)..n : q[l].type = "CF" /\ q[l].msg = m
    BY <1>1
  <2>2. /\ i \in 1..(n + 1)
        /\ \A l \in (i + 1)..(n + 1) : l \in (i + 1)..n \/ l = n + 1
    OBVIOUS
  <2>. QED
    BY <2>1, <2>2 DEF Chain
<1>2. CASE /\ \A l \in 1..n : q[l].type = "CF" /\ q[l].msg = m
           /\ b \in {m, NoMessage}
  <2>1. \A l \in 1..(n + 1) : l \in 1..n \/ l = n + 1
    OBVIOUS
  <2>. QED
    BY <1>2, <2>1 DEF Chain
<1>. QED
  BY <1>1, <1>2 DEF Chain

\* The front is gone: its message is being collected, or none is.
LEMMA ChainTaken ==
  ASSUME NEW q, NEW r, NEW n \in Nat, NEW m, NEW b, NEW c,
         Chain(q, n + 1, m, b), \A i \in 1..n : r[i] = q[i + 1],
         q[1].type = "FF" => c \in {q[1].msg, NoMessage},
         q[1].type = "CF" => c \in {b, NoMessage}
  PROVE  Chain(r, n, m, c)
<1>1. CASE \E i \in 1..(n + 1) :
             /\ q[i].type = "FF" /\ q[i].msg = m
             /\ \A l \in (i + 1)..(n + 1) : q[l].type = "CF" /\ q[l].msg = m
  <2>1. PICK i \in 1..(n + 1) :
          /\ q[i].type = "FF" /\ q[i].msg = m
          /\ \A l \in (i + 1)..(n + 1) : q[l].type = "CF" /\ q[l].msg = m
    BY <1>1
  <2>2. CASE i = 1
    <3>1. \A l \in 1..n : l + 1 \in (i + 1)..(n + 1)
      BY <2>2
    <3>2. \A l \in 1..n : r[l].type = "CF" /\ r[l].msg = m
      BY <2>1, <3>1
    <3>. QED
      BY <2>1, <2>2, <3>2 DEF Chain
  <2>3. CASE i # 1
    <3>1. /\ i - 1 \in 1..n /\ r[i - 1] = q[i]
          /\ \A l \in ((i - 1) + 1)..n : l \in 1..n /\ l + 1 \in (i + 1)..(n + 1)
      BY <2>3
    <3>2. \A l \in ((i - 1) + 1)..n : r[l].type = "CF" /\ r[l].msg = m
      BY <2>1, <3>1
    <3>. QED
      BY <2>1, <3>1, <3>2 DEF Chain
  <2>. QED
    BY <2>2, <2>3
<1>2. CASE /\ \A l \in 1..(n + 1) : q[l].type = "CF" /\ q[l].msg = m
           /\ b \in {m, NoMessage}
  <2>1. 1 \in 1..(n + 1) /\ \A l \in 1..n : l + 1 \in 1..(n + 1)
    OBVIOUS
  <2>. QED
    BY <1>2, <2>1 DEF Chain
<1>. QED
  BY <1>1, <1>2 DEF Chain

---------------------------------------------------------------------------
(* The order is kept.                                                      *)

\* What the invariant says as long as no first frame was lost.
InOrder == InSequence /\ Delivered /\ Continued /\ PiecesGrow /\ BufferGrows

\* All that has its place in the order has been sent.
LEMMA AllSent ==
  ASSUME QueueTypes, LocalTypes, RecvLocals, FramesKnown, Delivered, BufferGrows
  PROVE  /\ \A i \in 1..Len(toRecv) : toRecv[i].msg \in ToSet(sent)
         /\ \A r \in 1..Len(returned) : Received[r] \in ToSet(sent)
         /\ Collecting # NoMessage => Collecting \in ToSet(sent)
         /\ rpc = "collect" <=> Collecting # NoMessage
BY IsoTpAssumption
   DEF FramesKnown, KnownIn, Delivered, BufferGrows, Collecting, RecvLocals

\* Steps that neither put a frame into the queue of the receiver nor take one.
Quiet ==
  /\ UNCHANGED <<toRecv, returned>>
  /\ rpc' = "collect" => rpc = "collect" /\ buf' = buf
  /\ spc' # "idle" => spc # "idle" /\ msg' = msg /\ piece' >= piece

LEMMA QuietKeepsOrder ==
  ASSUME QueueTypes, LocalTypes, RecvLocals, SentOnce, FramesKnown, InOrder,
         [Next]_vars, Quiet
  PROVE  InOrder'
<1>0. /\ Len(toRecv) \in Nat
      /\ \A i \in 1..Len(toRecv) : toRecv[i].k \in Nat
      /\ \A i \in 1..Len(toRecv) : i - 1 \in Nat
      /\ piece \in Nat /\ piece' \in Nat
      /\ rpc = "collect" => buf \in Seq(Messages \X Nat) /\ Len(buf) \in 1..Len(buf)
  BY LocalTypesPreserved, FieldTypes DEF QueueTypes, LocalTypes, RecvLocals
<1>1. /\ toRecv' = toRecv /\ returned' = returned /\ Received' = Received
      /\ rpc' = "collect" => rpc = "collect" /\ buf' = buf
      /\ Collecting' \in {Collecting, NoMessage}
      /\ rpc' = "collect" => Collecting' = Collecting
      /\ spc' # "idle" => spc # "idle" /\ msg' = msg /\ piece' >= piece
  BY ReceivedFacts DEF Quiet, Collecting
<1>2. /\ \A i \in 1..Len(toRecv) : toRecv[i].msg \in ToSet(sent)
      /\ \A r \in 1..Len(returned) : Received[r] \in ToSet(sent)
      /\ Collecting # NoMessage => Collecting \in ToSet(sent)
      /\ rpc = "collect" <=> Collecting # NoMessage
  BY AllSent DEF InOrder
<1>3. /\ ToSet(sent) \subseteq ToSet(sent')
      /\ \A m, n \in ToSet(sent) : Before(sent, m, n) => Before(sent', m, n)
  BY BeforeKept
<1>4. InSequence'
  <2>1. InSequence
    BY DEF InOrder
  <2>2. \A j \in 1..Len(toRecv) : \A i \in 1..(j - 1) : i \in 1..Len(toRecv)
    BY <1>0
  <2>. QED
    BY <1>1, <1>2, <1>3, <2>1, <2>2 DEF InSequence, IsCf
<1>5. Delivered'
  BY <1>1, <1>2, <1>3 DEF InOrder, Delivered
<1>6. Continued'
  BY <1>0, <1>1, ChainKept DEF InOrder, Continued, IsCf
<1>7. PiecesGrow'
  BY <1>0, <1>1 DEF InOrder, PiecesGrow, IsCf
<1>8. BufferGrows'
  <2>1. CASE rpc' # "collect"
    BY <2>1 DEF BufferGrows
  <2>2. CASE rpc' = "collect"
    <3>1. /\ rpc = "collect" /\ Collecting' = Collecting /\ buf' = buf
          /\ BufferGrows
      BY <1>1, <2>2 DEF InOrder
    <3>2. buf[Len(buf)][2] \in Nat
      BY <1>0, <3>1
    <3>3. spc' # "idle" /\ Collecting = msg' => buf[Len(buf)][2] < piece'
      BY <1>0, <1>1, <3>1, <3>2 DEF BufferGrows
    <3>. QED
      BY <1>1, <1>3, <3>1, <3>3 DEF BufferGrows, IsCf
  <2>. QED
    BY <2>1, <2>2
<1>. QED
  BY <1>4, <1>5, <1>6, <1>7, <1>8 DEF InOrder

\* Steps that put a frame into the queue of the receiver.
Grown(t, m, k) ==
  /\ Len(toRecv') = Len(toRecv) + 1
  /\ \A i \in 1..Len(toRecv) : toRecv'[i] = toRecv[i]
  /\ toRecv'[Len(toRecv')].type = t
  /\ toRecv'[Len(toRecv')].msg = m
  /\ toRecv'[Len(toRecv')].k = k
  /\ UNCHANGED <<rpc, buf, returned>>

LEMMA EntersGrows ==
  ASSUME QueueTypes, LocalTypes, NEW t \in {"SF", "FF", "CF"}, NEW m \in Messages,
         NEW k \in Nat, Enters(t, m, k), UNCHANGED <<rpc, buf, returned>>
  PROVE  (Lost(toRecv) /\ UNCHANGED toRecv) \/ Grown(t, m, k)
BY SendFacts DEF Enters, Grown

\* A frame that starts a message goes behind everything.
LEMMA BeginKeepsOrder ==
  ASSUME QueueTypes, LocalTypes, RecvLocals, SentOnce, FramesKnown, InOrder,
         [Next]_vars, NEW m \in Messages, Send(m),
         \/ Grown("SF", m, 0) /\ spc' = "idle"
         \/ Grown("FF", m, Pieces[m]) /\ spc' # "idle" /\ msg' = m
  PROVE  InOrder'
<1>. DEFINE n == Len(toRecv)
<1>0. /\ n \in Nat /\ \A i \in 1..n : i - 1 \in Nat
      /\ \A i \in 1..(n + 1) : i \in 1..n \/ i = n + 1
      /\ \A i \in 1..n : \A j \in 1..(i - 1) : j \in 1..n
  BY DEF QueueTypes
<1>1. /\ Len(toRecv') = n + 1 /\ \A i \in 1..n : toRecv'[i] = toRecv[i]
      /\ toRecv'[n + 1].type # "CF" /\ toRecv'[n + 1].msg = m
      /\ spc' # "idle" => toRecv'[n + 1].type = "FF" /\ msg' = m
      /\ rpc' = rpc /\ buf' = buf /\ returned' = returned
      /\ Received' = Received /\ Collecting' = Collecting
  BY <1>0, ReceivedFacts DEF Grown, Collecting
<1>2. /\ \A i \in 1..n : toRecv[i].msg \in ToSet(sent)
      /\ \A r \in 1..Len(returned) : Received[r] \in ToSet(sent)
      /\ Collecting # NoMessage => Collecting \in ToSet(sent)
      /\ rpc = "collect" <=> Collecting # NoMessage
  BY AllSent DEF InOrder
<1>3. /\ ToSet(sent) \subseteq ToSet(sent')
      /\ \A x, y \in ToSet(sent) : Before(sent, x, y) => Before(sent', x, y)
      /\ \A x \in ToSet(sent) : Before(sent', x, m)
      /\ m \notin ToSet(sent)
  BY BeforeKept, SentFacts
<1>. HIDE DEF n
<1>. USE <1>0, <1>1
<1>4. InSequence'
  <2>1. ASSUME NEW j \in 1..Len(toRecv'), ~IsCf(j)'
        PROVE  /\ \A i \in 1..(j - 1) : Before(sent', toRecv'[i].msg, toRecv'[j].msg)
               /\ \A r \in 1..Len(returned) : Before(sent', Received[r], toRecv'[j].msg)
               /\ Collecting # NoMessage => Before(sent', Collecting, toRecv'[j].msg)
    <3>1. CASE j = n + 1
      BY <1>2, <1>3, <3>1
    <3>2. CASE j \in 1..n
      <4>1. /\ \A i \in 1..(j - 1) : Before(sent, toRecv[i].msg, toRecv[j].msg)
            /\ \A r \in 1..Len(returned) : Before(sent, Received[r], toRecv[j].msg)
            /\ Collecting # NoMessage => Before(sent, Collecting, toRecv[j].msg)
        BY <2>1, <3>2 DEF InOrder, InSequence, IsCf, n
      <4>. QED
        BY <1>2, <1>3, <3>2, <4>1
    <3>. QED
      BY <3>1, <3>2
  <2>. QED
    BY <2>1 DEF InSequence
<1>5. Delivered'
  BY <1>2, <1>3 DEF InOrder, Delivered
<1>6. Continued'
  <2>1. ASSUME NEW j \in 1..n, toRecv[j].type = "CF"
        PROVE  Chain(toRecv', j - 1, toRecv[j].msg, Collecting)
    BY <2>1, ChainKept DEF InOrder, Continued, IsCf, n
  <2>2. spc' # "idle" => Chain(toRecv', n + 1, m, Collecting)
    BY DEF Chain
  <2>. QED
    BY <2>1, <2>2 DEF Continued, IsCf
<1>7. PiecesGrow'
  <2>1. \A i, j \in 1..n :
          i < j /\ toRecv[i].type = "CF" /\ toRecv[j].type = "CF"
            /\ toRecv[i].msg = toRecv[j].msg => toRecv[i].k < toRecv[j].k
    BY DEF InOrder, PiecesGrow, IsCf, n
  <2>2. \A i \in 1..n : toRecv[i].msg # m
    BY <1>2, <1>3
  <2>. QED
    BY <2>1, <2>2 DEF PiecesGrow, IsCf
<1>8. BufferGrows'
  <2>1. BufferGrows
    BY DEF InOrder
  <2>2. spc' # "idle" /\ Collecting # NoMessage => Collecting # msg'
    BY <1>2, <1>3
  <2>. QED
    BY <1>2, <1>3, <2>1, <2>2 DEF BufferGrows, IsCf, n
<1>. QED
  BY <1>4, <1>5, <1>6, <1>7, <1>8 DEF InOrder

\* A consecutive frame follows the one before.
LEMMA PieceKeepsOrder ==
  ASSUME QueueTypes, LocalTypes, RecvLocals, SentOnce, FramesKnown, InOrder,
         [Next]_vars, spc # "idle", Grown("CF", msg, piece), UNCHANGED sent,
         spc' # "idle" => msg' = msg /\ piece' = piece + 1
  PROVE  InOrder'
<1>. DEFINE n == Len(toRecv)
<1>0. /\ n \in Nat /\ \A i \in 1..n : i - 1 \in Nat
      /\ \A i \in 1..(n + 1) : i \in 1..n \/ i = n + 1
      /\ \A i \in 1..n : \A j \in 1..(i - 1) : j \in 1..n
      /\ piece \in Nat /\ \A i \in 1..n : toRecv[i].k \in Nat
  BY FieldTypes DEF QueueTypes, LocalTypes
<1>1. /\ Len(toRecv') = n + 1 /\ \A i \in 1..n : toRecv'[i] = toRecv[i]
      /\ toRecv'[n + 1].type = "CF" /\ toRecv'[n + 1].msg = msg
      /\ toRecv'[n + 1].k = piece
      /\ rpc' = rpc /\ buf' = buf /\ returned' = returned /\ sent' = sent
      /\ Received' = Received /\ Collecting' = Collecting
  BY <1>0, ReceivedFacts DEF Grown, Collecting
<1>. HIDE DEF n
<1>. USE <1>0, <1>1
<1>4. InSequence'
  <2>1. ASSUME NEW j \in 1..Len(toRecv'), ~IsCf(j)'
        PROVE  /\ \A i \in 1..(j - 1) : Before(sent', toRecv'[i].msg, toRecv'[j].msg)
               /\ \A r \in 1..Len(returned) : Before(sent', Received[r], toRecv'[j].msg)
               /\ Collecting # NoMessage => Before(sent', Collecting, toRecv'[j].msg)
    <3>1. j \in 1..n
      BY <2>1 DEF IsCf
    <3>2. /\ \A i \in 1..(j - 1) : Before(sent, toRecv[i].msg, toRecv[j].msg)
          /\ \A r \in 1..Len(returned) : Before(sent, Received[r], toRecv[j].msg)
          /\ Collecting # NoMessage => Before(sent, Collecting, toRecv[j].msg)
      BY <2>1, <3>1 DEF InOrder, InSequence, IsCf, n
    <3>. QED
      BY <3>1, <3>2
  <2>. QED
    BY <2>1 DEF InSequence
<1>5. Delivered'
  BY DEF InOrder, Delivered
<1>6. Continued'
  <2>1. ASSUME NEW j \in 1..n, toRecv[j].type = "CF"
        PROVE  Chain(toRecv', j - 1, toRecv[j].msg, Collecting)
    BY <2>1, ChainKept DEF InOrder, Continued, IsCf, n
  <2>2. Chain(toRecv', n, msg, Collecting)
    BY ChainKept DEF InOrder, Continued, n
  <2>3. Chain(toRecv', n + 1, msg, Collecting)
    BY <2>2, ChainLonger
  <2>4. (n + 1) - 1 = n
    OBVIOUS
  <2>. QED
    BY <2>1, <2>2, <2>3, <2>4 DEF Continued, IsCf
<1>7. PiecesGrow'
  <2>1. /\ \A i, j \in 1..n :
             i < j /\ toRecv[i].type = "CF" /\ toRecv[j].type = "CF"
               /\ toRecv[i].msg = toRecv[j].msg => toRecv[i].k < toRecv[j].k
        /\ \A i \in 1..n :
             toRecv[i].type = "CF" /\ toRecv[i].msg = msg => toRecv[i].k < piece
    BY DEF InOrder, PiecesGrow, IsCf, n
  <2>2. ASSUME NEW i \in 1..(n + 1), NEW j \in 1..(n + 1), i < j,
               toRecv'[i].type = "CF", toRecv'[j].type = "CF",
               toRecv'[i].msg = toRecv'[j].msg
        PROVE  toRecv'[i].k < toRecv'[j].k
    <3>1. i \in 1..n
      BY <2>2
    <3>. QED
      BY <2>1, <2>2, <3>1
  <2>3. \A i \in 1..(n + 1) :
          toRecv'[i].type = "CF" /\ toRecv'[i].msg = msg => toRecv'[i].k < piece + 1
    BY <2>1
  <2>. QED
    BY <2>2, <2>3 DEF PiecesGrow, IsCf
<1>8. BufferGrows'
  <2>1. CASE rpc # "collect"
    BY <2>1 DEF BufferGrows
  <2>2. CASE rpc = "collect"
    <3>1. /\ BufferGrows
          /\ buf[Len(buf)][2] \in Nat
      BY <2>2 DEF InOrder, LocalTypes, RecvLocals
    <3>2. \A i \in 1..(n + 1) :
            toRecv'[i].type = "CF" /\ toRecv'[i].msg = Collecting
              => buf[Len(buf)][2] < toRecv'[i].k
      BY <2>2, <3>1 DEF BufferGrows, IsCf, n
    <3>3. spc' # "idle" /\ Collecting = msg' => buf[Len(buf)][2] < piece'
      BY <2>2, <3>1 DEF BufferGrows
    <3>. QED
      BY <2>2, <3>1, <3>2, <3>3 DEF BufferGrows, IsCf
  <2>. QED
    BY <2>1, <2>2
<1>. QED
  BY <1>4, <1>5, <1>6, <1>7, <1>8 DEF InOrder

\* What recv() does with the frame it takes: nothing, or the message of the
\* frame is whole, or begun, or goes on.
Gets == rpc' # "collect" /\ returned' = Append(returned, Whole(Incoming.msg))

Begins ==
  /\ Incoming.type = "FF" /\ rpc' = "collect" /\ UNCHANGED returned
  /\ rpc # "collect" /\ buf' = <<<<Incoming.msg, 0>>>>

Collects ==
  /\ Incoming.type = "CF" /\ rpc' = "collect" /\ UNCHANGED returned
  /\ rpc = "collect" /\ Incoming.msg = Collecting /\ buf' = More

Taken ==
  /\ Take /\ UNCHANGED <<spc, msg, piece, sent>>
  /\ \/ rpc' # "collect" /\ UNCHANGED returned
     \/ Gets
     \/ Begins
     \/ Collects

\* The frame after the front belongs to the message being collected.
LEMMA FrontFollows ==
  ASSUME QueueTypes, LocalTypes, RecvLocals, InOrder, Take,
         Incoming.type = "CF", rpc = "collect"
  PROVE  /\ Incoming.msg = Collecting
         /\ buf[Len(buf)][2] < Incoming.k
         /\ Collecting \in ToSet(sent)
<1>1. 1 \in 1..Len(toRecv) /\ Incoming = toRecv[1] /\ IsCf(1)
  BY TakeFacts DEF IsCf
<1>2. Chain(toRecv, 1 - 1, Incoming.msg, Collecting)
  BY <1>1 DEF InOrder, Continued
<1>3. Collecting \in {Incoming.msg, NoMessage}
  BY <1>2 DEF Chain
<1>4. Collecting # NoMessage
  BY IsoTpAssumption DEF Collecting, RecvLocals
<1>. QED
  BY <1>1, <1>3, <1>4 DEF InOrder, BufferGrows

LEMMA FurtherApart ==
  ASSUME NEW x \in Nat, NEW y \in Nat, NEW z \in Nat, NEW n \in Nat, NEW i \in 1..n,
         y - x >= n - i, y < z
  PROVE  z - x >= (n + 1) - i
OBVIOUS

\* A message that is collected to its length is whole.
LEMMA LastIsWhole ==
  ASSUME QueueTypes, LocalTypes, RecvLocals, FramesKnown, InOrder, RecvLast
  PROVE  More = Whole(Incoming.msg)
<1>1. /\ Take /\ Incoming.type = "CF" /\ rpc = "collect" /\ Len(More) = len
  BY DEF RecvLast, Fits, IsConsecutive
<1>2. Incoming.msg = Collecting /\ buf[Len(buf)][2] < Incoming.k
  BY <1>1, FrontFollows
<1>3. /\ Incoming.msg \in Messages /\ Incoming.k \in Nat
      /\ Incoming.k \in 1..Pieces[Incoming.msg]
  BY <1>1, TakeFacts DEF FramesKnown, KnownIn
<1>4. /\ buf \in Seq(Messages \X Nat) /\ Len(buf) \in Nat \ {0}
      /\ buf[1][1] = Collecting /\ buf[1][2] = 0
      /\ len = Pieces[Collecting] + 1
      /\ \A i \in 1..Len(buf) : buf[i][1] = Collecting
      /\ \A i, j \in 1..Len(buf) : i < j => buf[j][2] - buf[i][2] >= j - i
  <2>1. buf \in Seq(Messages \X Nat) /\ Len(buf) \in Nat \ {0}
    BY <1>1 DEF LocalTypes, RecvLocals
  <2>2. buf[1][1] = Collecting
    BY <1>1 DEF Collecting
  <2>3. buf[1][2] = 0 /\ len = Pieces[Collecting] + 1
    BY <1>1, <2>2 DEF RecvLocals
  <2>4. BufferGrows
    BY DEF InOrder
  <2>5. /\ \A i \in 1..Len(buf) : buf[i][1] = Collecting
        /\ \A i, j \in 1..Len(buf) : i < j => buf[j][2] - buf[i][2] >= j - i
    BY <1>1, <2>4 DEF BufferGrows
  <2>. QED
    BY <2>1, <2>2, <2>3, <2>5
<1>5. /\ More \in Seq(Messages \X Nat) /\ Len(More) = Len(buf) + 1
      /\ \A i \in 1..Len(buf) : More[i] = buf[i]
      /\ More[Len(buf) + 1] = <<Incoming.msg, Incoming.k>>
      /\ \A i \in 1..Len(buf) : buf[i][2] \in Nat
  BY <1>3, <1>4 DEF More
<1>6. \A i \in 1..Len(More) : i \in 1..Len(buf) \/ i = Len(buf) + 1
  BY <1>4, <1>5
<1>7. ASSUME NEW i \in 1..Len(More) PROVE More[i][1] = Incoming.msg
  <2>1. CASE i \in 1..Len(buf)
    BY <1>2, <1>4, <1>5, <2>1
  <2>2. CASE i = Len(buf) + 1
    BY <1>5, <2>2
  <2>. QED
    BY <1>6, <2>1, <2>2
<1>8. ASSUME NEW i \in 1..Len(More), NEW j \in 1..Len(More), i < j
      PROVE  More[j][2] - More[i][2] >= j - i
  <2>1. i \in 1..Len(buf) /\ More[i] = buf[i]
    BY <1>4, <1>5, <1>8
  <2>2. CASE j \in 1..Len(buf)
    BY <1>4, <1>5, <1>8, <2>1, <2>2
  <2>3. CASE j = Len(buf) + 1
    <3>1. More[j][2] = Incoming.k
      BY <1>5, <2>3
    <3>2. buf[Len(buf)][2] - buf[i][2] >= Len(buf) - i
      <4>1. CASE i < Len(buf)
        <5>1. Len(buf) \in 1..Len(buf)
          BY <1>4
        <5>. QED
          BY <1>4, <2>1, <4>1, <5>1
      <4>2. CASE i = Len(buf)
        BY <1>4, <1>5, <4>2
      <4>. QED
        BY <1>4, <2>1, <4>1, <4>2
    <3>3. buf[Len(buf)][2] \in Nat /\ buf[i][2] \in Nat
      BY <1>4, <1>5, <2>1
    <3>4. Incoming.k - buf[i][2] >= (Len(buf) + 1) - i
      BY <1>2, <1>3, <1>4, <2>1, <3>2, <3>3, FurtherApart
    <3>. QED
      BY <2>1, <2>3, <3>1, <3>4
  <2>. QED
    BY <1>6, <2>2, <2>3
<1>9. Len(More) = Pieces[Incoming.msg] + 1 /\ More[1][2] = 0
  BY <1>1, <1>2, <1>4, <1>5
<1>10. More[Len(More)][2] <= Pieces[Incoming.msg]
  <2>1. More[Len(More)][2] = Incoming.k
    BY <1>5
  <2>2. Pieces[Incoming.msg] \in Nat
    BY <1>3, IsoTpAssumption
  <2>. QED
    BY <1>3, <2>1, <2>2
<1>. QED
  BY <1>3, <1>5, <1>7, <1>8, <1>9, <1>10, GrowingIsWhole

LEMMA TakenFacts ==
  ASSUME QueueTypes, LocalTypes, RecvLocals, FramesKnown, InOrder,
         RecvSingle \/ RecvLast \/ Abandon \/ BeginAndGrant \/ CollectQuietly
           \/ CollectAndGrant
  PROVE  Taken
<1>1. CASE RecvSingle
  <2>1. /\ Take /\ Incoming.type = "SF" /\ rpc' = "idle"
        /\ returned' = Append(returned, <<<<Incoming.msg, 0>>>>)
    BY <1>1 DEF RecvSingle, Return, RecvReturns
  <2>2. Incoming.msg \in Messages /\ Pieces[Incoming.msg] = 0
    BY <2>1, TakeFacts DEF FramesKnown, KnownIn
  <2>3. Gets
    BY <2>1, <2>2, SingleIsWhole DEF Gets
  <2>. QED
    BY <2>1, <2>3 DEF Taken, Take, sendVars
<1>2. CASE RecvLast
  <2>1. /\ Take /\ rpc' = "idle" /\ returned' = Append(returned, More)
    BY <1>2 DEF RecvLast, Return, RecvReturns
  <2>2. Gets
    BY <1>2, <2>1, LastIsWhole DEF Gets
  <2>. QED
    BY <2>1, <2>2 DEF Taken, Take, sendVars
<1>3. CASE Abandon
  BY <1>3 DEF Abandon, Taken, Take, Fail, RecvReturns, sendVars
<1>4. CASE BeginAndGrant
  <2>1. Begins
    BY <1>4 DEF BeginAndGrant, Begins
  <2>. QED
    BY <1>4, <2>1 DEF BeginAndGrant, Taken, Take, sendVars
<1>5. CASE CollectQuietly \/ CollectAndGrant
  <2>1. /\ Take /\ Incoming.type = "CF" /\ rpc = "collect" /\ rpc' = "collect"
        /\ buf' = More /\ UNCHANGED returned
    BY <1>5 DEF CollectQuietly, CollectAndGrant, Fits, IsConsecutive
  <2>2. Collects
    BY <2>1, FrontFollows DEF Collects
  <2>. QED
    BY <2>1, <2>2 DEF Taken, Take, sendVars
<1>. QED
  BY <1>1, <1>2, <1>3, <1>4, <1>5

LEMMA TakenKeepsOrder ==
  ASSUME QueueTypes, LocalTypes, SendLocals, RecvLocals, SentOnce, FramesKnown,
         InOrder, [Next]_vars, Taken
  PROVE  InOrder'
<1>. DEFINE n == Len(toRecv')
            f == Incoming
<1>0. /\ n \in Nat /\ Len(toRecv) = n + 1 /\ f = toRecv[1] /\ toRecv # <<>>
      /\ \A i \in 1..n : toRecv'[i] = toRecv[i + 1] /\ i + 1 \in 1..(n + 1)
      /\ 1 \in 1..(n + 1)
      /\ f.type \in {"SF", "FF", "CF"} /\ f.msg \in Messages /\ f.k \in Nat
      /\ f.msg \in ToSet(sent)
  BY TakeFacts DEF Taken, FramesKnown, KnownIn
<1>1. /\ \A i \in 1..(n + 1) : toRecv[i].msg \in ToSet(sent) /\ toRecv[i].k \in Nat
      /\ Len(returned) \in Nat
      /\ \A r \in 1..Len(returned) : Received[r] \in ToSet(sent)
      /\ Collecting # NoMessage => Collecting \in ToSet(sent)
      /\ rpc = "collect" <=> Collecting # NoMessage
  <2>1. ASSUME NEW i \in 1..(n + 1) PROVE toRecv[i].k \in Nat
    <3>1. toRecv[i] \in RecvFrames
      BY <1>0 DEF QueueTypes
    <3>. QED
      BY <3>1, FieldTypes
  <2>2. Len(returned) \in Nat
    BY DEF LocalTypes
  <2>. QED
    BY <1>0, <2>1, <2>2, AllSent DEF InOrder
<1>2. spc' = spc /\ msg' = msg /\ piece' = piece /\ sent' = sent
  BY DEF Taken
<1>3. \/ /\ rpc' # "collect" /\ Collecting' = NoMessage
         /\ returned' = returned /\ Received' = Received
      \/ /\ rpc' # "collect" /\ Collecting' = NoMessage
         /\ Len(returned') = Len(returned) + 1
         /\ \A r \in 1..Len(returned) : Received'[r] = Received[r]
         /\ Received'[Len(returned) + 1] = f.msg
      \/ /\ f.type = "FF" /\ rpc' = "collect" /\ Collecting' = f.msg
         /\ Collecting = NoMessage /\ buf' = <<<<f.msg, 0>>>>
         /\ returned' = returned /\ Received' = Received
      \/ /\ f.type = "CF" /\ rpc' = "collect" /\ Collecting' = Collecting
         /\ rpc = "collect" /\ f.msg = Collecting /\ buf' = More
         /\ returned' = returned /\ Received' = Received
  <2>1. rpc' # "collect" => Collecting' = NoMessage
    BY DEF Collecting
  <2>2. UNCHANGED returned => returned' = returned /\ Received' = Received
    BY ReceivedFacts
  <2>3. CASE Gets
    <3>1. Whole(f.msg) \in Seq(Messages \X Nat)
      BY <1>0, IsoTpAssumption DEF Whole
    <3>2. Meaning(Whole(f.msg)) = f.msg
      BY <1>0, WholeMeans
    <3>. QED
      BY <2>1, <2>3, <3>1, <3>2, ReceivedFacts DEF Gets
  <2>4. CASE Begins
    <3>1. buf'[1][1] = f.msg
      BY <2>4 DEF Begins
    <3>. QED
      BY <1>1, <2>2, <2>4, <3>1 DEF Begins, Collecting
  <2>5. CASE Collects
    <3>1. buf'[1] = buf[1]
      BY <2>5 DEF Collects, More, LocalTypes, RecvLocals
    <3>. QED
      BY <2>2, <2>5, <3>1 DEF Collects, Collecting
  <2>. QED
    BY <2>1, <2>2, <2>3, <2>4, <2>5 DEF Taken
<1>. HIDE DEF n, f
<1>4. InSequence'
  <2>1. ASSUME NEW j \in 1..n, toRecv'[j].type # "CF"
        PROVE  /\ \A i \in 1..(j - 1) : Before(sent, toRecv'[i].msg, toRecv'[j].msg)
               /\ Before(sent, f.msg, toRecv'[j].msg)
               /\ \A r \in 1..Len(returned) : Before(sent, Received[r], toRecv'[j].msg)
               /\ Collecting # NoMessage => Before(sent, Collecting, toRecv'[j].msg)
    <3>1. /\ \A i \in 1..((j + 1) - 1) : Before(sent, toRecv[i].msg, toRecv[j + 1].msg)
          /\ \A r \in 1..Len(returned) : Before(sent, Received[r], toRecv[j + 1].msg)
          /\ Collecting # NoMessage => Before(sent, Collecting, toRecv[j + 1].msg)
      BY <1>0, <2>1 DEF InOrder, InSequence, IsCf
    <3>2. /\ 1 \in 1..((j + 1) - 1)
          /\ \A i \in 1..(j - 1) : i \in 1..n /\ i + 1 \in 1..((j + 1) - 1)
      BY <1>0
    <3>. QED
      BY <1>0, <3>1, <3>2
  <2>2. \A r \in 1..(Len(returned) + 1) : r \in 1..Len(returned) \/ r = Len(returned) + 1
    BY <1>1
  <2>. QED
    BY <1>2, <1>3, <2>1, <2>2 DEF InSequence, IsCf, n
<1>5. Delivered'
  <2>1. /\ \A r \in 1..Len(returned) :
             Collecting # NoMessage => Before(sent, Received[r], Collecting)
        /\ f.type # "CF" => \A r \in 1..Len(returned) : Before(sent, Received[r], f.msg)
    BY <1>0 DEF InOrder, Delivered, InSequence, IsCf
  <2>2. \A r \in 1..(Len(returned) + 1) : r \in 1..Len(returned) \/ r = Len(returned) + 1
    BY <1>1
  <2>. QED
    BY <1>0, <1>1, <1>2, <1>3, <2>1, <2>2 DEF Delivered
<1>6. Continued'
  <2>1. /\ f.type = "FF" => Collecting' \in {f.msg, NoMessage}
        /\ f.type = "CF" => Collecting' \in {Collecting, NoMessage}
    BY <1>3
  <2>2. ASSUME NEW j \in 1..n, toRecv'[j].type = "CF"
        PROVE  Chain(toRecv', j - 1, toRecv'[j].msg, Collecting')
    <3>1. Chain(toRecv, (j - 1) + 1, toRecv[j + 1].msg, Collecting)
      <4>1. Chain(toRecv, (j + 1) - 1, toRecv[j + 1].msg, Collecting)
        BY <1>0, <2>2 DEF InOrder, Continued, IsCf
      <4>2. (j + 1) - 1 = (j - 1) + 1
        BY <1>0
      <4>. QED
        BY <4>1, <4>2
    <3>2. j - 1 \in Nat /\ \A i \in 1..(j - 1) : i \in 1..n
      BY <1>0
    <3>. QED
      BY <1>0, <2>1, <3>1, <3>2, ChainTaken
  <2>3. spc # "idle" => Chain(toRecv', n, msg, Collecting')
    <3>1. spc # "idle" => Chain(toRecv, n + 1, msg, Collecting)
      BY <1>0 DEF InOrder, Continued
    <3>. QED
      BY <1>0, <2>1, <3>1, ChainTaken
  <2>. QED
    BY <1>2, <2>2, <2>3 DEF Continued, IsCf, n
<1>7. PiecesGrow'
  <2>1. /\ \A i, j \in 1..(n + 1) :
             i < j /\ toRecv[i].type = "CF" /\ toRecv[j].type = "CF"
               /\ toRecv[i].msg = toRecv[j].msg => toRecv[i].k < toRecv[j].k
        /\ spc # "idle" => \A i \in 1..(n + 1) :
             toRecv[i].type = "CF" /\ toRecv[i].msg = msg => toRecv[i].k < piece
    BY <1>0 DEF InOrder, PiecesGrow, IsCf
  <2>2. \A i, j \in 1..n : i < j => i + 1 < j + 1
    OBVIOUS
  <2>. QED
    BY <1>0, <1>2, <2>1, <2>2 DEF PiecesGrow, IsCf, n
<1>8. CASE rpc' # "collect"
  BY <1>4, <1>5, <1>6, <1>7, <1>8 DEF InOrder, BufferGrows
<1>9. ASSUME f.type = "FF", rpc' = "collect", Collecting' = f.msg,
             buf' = <<<<f.msg, 0>>>>
      PROVE  BufferGrows'
  <2>1. Len(buf') = 1 /\ buf'[1] = <<f.msg, 0>> /\ buf'[1][1] = f.msg /\ buf'[1][2] = 0
    BY <1>9
  <2>2. \A i \in 1..1 : i = 1
    OBVIOUS
  <2>3. \A i \in 1..n : toRecv'[i].type = "CF" => 0 < toRecv'[i].k
    BY <1>0 DEF FramesKnown, KnownIn
  <2>4. spc # "idle" => 0 < piece
    BY DEF SendLocals
  <2>. QED
    BY <1>0, <1>2, <1>9, <2>1, <2>2, <2>3, <2>4 DEF BufferGrows, IsCf, n
<1>10. ASSUME f.type = "CF", rpc' = "collect", Collecting' = Collecting,
              rpc = "collect", f.msg = Collecting, buf' = More
       PROVE  BufferGrows'
  <2>. DEFINE l == Len(buf)
  <2>1. /\ buf \in Seq(Messages \X Nat) /\ l \in Nat \ {0}
        /\ \A i \in 1..l : buf[i][1] = Collecting
        /\ \A i, j \in 1..l : i < j => buf[j][2] - buf[i][2] >= j - i
        /\ \A i \in 1..(n + 1) :
             toRecv[i].type = "CF" /\ toRecv[i].msg = Collecting
               => buf[l][2] < toRecv[i].k
        /\ Collecting \in ToSet(sent)
    <3>1. buf \in Seq(Messages \X Nat) /\ l \in Nat \ {0}
      BY <1>10 DEF LocalTypes, RecvLocals
    <3>2. BufferGrows
      BY DEF InOrder
    <3>. QED
      BY <1>0, <1>10, <3>1, <3>2 DEF BufferGrows, IsCf
  <2>2. /\ Len(buf') = l + 1 /\ buf'[l + 1] = <<f.msg, f.k>>
        /\ buf'[l + 1][1] = f.msg /\ buf'[l + 1][2] = f.k
        /\ \A i \in 1..l : buf'[i] = buf[i]
        /\ \A i \in 1..l : buf[i][2] \in Nat
        /\ l \in 1..l /\ buf[l][2] < f.k
        /\ \A i \in 1..(l + 1) : i \in 1..l \/ i = l + 1
    BY <1>0, <1>10, <2>1 DEF More, f
  <2>. HIDE DEF l
  <2>3. \A i \in 1..(l + 1) : buf'[i][1] = Collecting
    BY <1>10, <2>1, <2>2
  <2>4. ASSUME NEW i \in 1..(l + 1), NEW j \in 1..(l + 1), i < j
        PROVE  buf'[j][2] - buf'[i][2] >= j - i
    <3>1. i \in 1..l /\ buf'[i] = buf[i] /\ buf[i][2] \in Nat /\ buf[l][2] \in Nat
      BY <2>1, <2>2, <2>4
    <3>2. CASE j \in 1..l
      BY <2>1, <2>2, <2>4, <3>1, <3>2
    <3>3. CASE j = l + 1
      <4>1. i < l => buf[l][2] - buf[i][2] >= l - i
        BY <2>1, <2>2, <3>1
      <4>2. i < l \/ i = l
        BY <2>1, <3>1
      <4>3. buf[l][2] - buf[i][2] >= l - i
        BY <3>1, <4>1, <4>2
      <4>4. f.k - buf[i][2] >= (l + 1) - i
        BY <1>0, <2>1, <2>2, <3>1, <4>3, FurtherApart
      <4>. QED
        BY <2>2, <3>1, <3>3, <4>4
    <3>. QED
      BY <2>2, <3>2, <3>3
  <2>5. \A i \in 1..n :
          toRecv'[i].type = "CF" /\ toRecv'[i].msg = Collecting
            => f.k < toRecv'[i].k
    <3>1. \A i, j \in 1..(n + 1) :
            i < j /\ toRecv[i].type = "CF" /\ toRecv[j].type = "CF"
              /\ toRecv[i].msg = toRecv[j].msg => toRecv[i].k < toRecv[j].k
      BY <1>0 DEF InOrder, PiecesGrow, IsCf
    <3>2. \A i \in 1..n : 1 < i + 1
      OBVIOUS
    <3>. QED
      BY <1>0, <1>10, <3>1, <3>2
  <2>6. spc # "idle" /\ Collecting = msg => f.k < piece
    BY <1>0, <1>10 DEF InOrder, PiecesGrow, IsCf
  <2>. QED
    BY <1>2, <1>10, <2>1, <2>2, <2>3, <2>4, <2>5, <2>6 DEF BufferGrows, IsCf, n
<1>. QED
  BY <1>3, <1>4, <1>5, <1>6, <1>7, <1>8, <1>9, <1>10 DEF InOrder

LEMMA OrderlyPreserved ==
  ASSUME QueueTypes, LocalTypes, SendLocals, RecvLocals, SentOnce, FramesKnown,
         Orderly, [Next]_vars
  PROVE  Orderly'
<1>. SUFFICES ASSUME ~firstLost' PROVE InOrder'
  BY DEF Orderly, InOrder
<1>. USE DEF sendVars, recvVars, lossVars
<1>1. ~firstLost
  BY StepKinds
     DEF Send, SendSingle, SendFirst, WaitFc, NextPiece, LastPiece, SendClosed,
     FcTimeout, CallRecv, RecvSingle, BeginAndGrant, Abandon, RecvLast,
     CollectQuietly, CollectAndGrant, RecvClosed, RecvTimeout, CloseBus, vars, Take
<1>2. InOrder
  BY <1>1 DEF Orderly, InOrder
<1>3. CASE Quiet
  BY <1>2, <1>3, QuietKeepsOrder
<1>4. ASSUME NEW m \in Messages, Send(m), SendSingle(m), Enters("SF", m, 0)
      PROVE  InOrder'
  <2>1. UNCHANGED <<rpc, buf, returned, spc, msg, piece>> /\ spc = "idle"
    BY <1>4 DEF Send, SendSingle
  <2>2. CASE UNCHANGED toRecv
    BY <1>3, <2>1, <2>2 DEF Quiet
  <2>3. CASE Grown("SF", m, 0)
    BY <1>2, <1>4, <2>1, <2>3, BeginKeepsOrder
  <2>. QED
    BY <1>4, <2>1, <2>2, <2>3, EntersGrows
<1>5. ASSUME NEW m \in Messages, Send(m), SendFirst(m), Enters("FF", m, Pieces[m])
      PROVE  InOrder'
  <2>1. /\ UNCHANGED <<rpc, buf, returned>> /\ spc' = "wait" /\ msg' = m
        /\ ~Lost(toRecv) /\ Pieces[m] \in Nat
    BY <1>5, IsoTpAssumption DEF Send, SendFirst
  <2>2. Grown("FF", m, Pieces[m])
    BY <1>5, <2>1, EntersGrows
  <2>. QED
    BY <1>2, <1>5, <2>1, <2>2, BeginKeepsOrder
<1>6. ASSUME NextPiece \/ LastPiece, Enters("CF", msg, piece) PROVE InOrder'
  <2>1. /\ UNCHANGED <<rpc, buf, returned, sent>> /\ spc = "send"
        /\ spc' # "idle" => msg' = msg /\ piece' = piece + 1
        /\ msg \in Messages /\ piece \in Nat
    BY <1>6
       DEF NextPiece, LastPiece, MorePieces, SendReturns, SendLocals, LocalTypes
  <2>2. CASE UNCHANGED toRecv
    BY <1>3, <2>1, <2>2 DEF Quiet
  <2>3. CASE Grown("CF", msg, piece)
    BY <1>2, <2>1, <2>3, PieceKeepsOrder
  <2>. QED
    BY <1>6, <2>1, <2>2, <2>3, EntersGrows
<1>7. CASE RecvSingle \/ RecvLast \/ Abandon \/ BeginAndGrant \/ CollectQuietly
             \/ CollectAndGrant
  BY <1>2, <1>7, TakenFacts, TakenKeepsOrder
<1>8. CASE WaitFc \/ SendClosed \/ FcTimeout \/ CallRecv \/ RecvClosed \/ RecvTimeout
             \/ CloseBus \/ UNCHANGED vars
  <2>1. piece \in Nat
    BY DEF LocalTypes
  <2>2. Quiet
    BY <1>8, <2>1
       DEF Quiet, WaitFc, SendClosed, FcTimeout, SendReturns, CallRecv, RecvClosed,
       RecvTimeout, Fail, RecvReturns, CloseBus, vars
  <2>. QED
    BY <1>3, <2>2
<1>9. ASSUME NEW m \in Messages, Send(m) PROVE InOrder'
  <2>1. CASE SendSingle(m)
    BY <1>4, <1>9, <2>1 DEF SendSingle, Enters
  <2>2. CASE SendFirst(m)
    BY <1>5, <1>9, <2>2 DEF SendFirst, Enters
  <2>. QED
    BY <1>9, <2>1, <2>2 DEF Send
<1>10. CASE NextPiece \/ LastPiece
  BY <1>6, <1>10 DEF NextPiece, LastPiece, Enters
<1>. QED
  BY <1>7, <1>8, <1>9, <1>10, StepKinds

---------------------------------------------------------------------------
(* The invariant and what follows from it, losses and timeouts aside.      *)

Known == QueueTypes /\ LocalTypes /\ SendLocals /\ RecvLocals /\ SentOnce /\ FramesKnown

LEMMA InitKnown == Init => Known /\ Orderly
<1>. SUFFICES ASSUME Init PROVE Known /\ Orderly
  OBVIOUS
<1>1. QueueTypes
  BY IsoTpAssumption DEF Init, QueueTypes
<1>2. LocalTypes
  <2>1. \A S : <<>> \in Seq(S)
    OBVIOUS
  <2>2. buf \in Seq(Messages \X Nat) /\ sent \in Seq(Messages)
        /\ returned \in Seq(Seq(Messages \X Nat))
    BY <2>1 DEF Init
  <2>. QED
    BY <2>2 DEF Init, LocalTypes
<1>3. SendLocals /\ RecvLocals /\ SentOnce /\ FramesKnown
  BY IsoTpAssumption DEF Init, SendLocals, RecvLocals, SentOnce, FramesKnown
<1>4. Orderly
  BY DEF Init, Orderly, InSequence, Delivered, Continued, PiecesGrow, BufferGrows
<1>. QED
  BY <1>1, <1>2, <1>3, <1>4 DEF Known

LEMMA KnownPreserved ==
  ASSUME Known, Orderly, [Next]_vars
  PROVE  Known' /\ Orderly'
BY QueueTypesPreserved, LocalTypesPreserved, SendLocalsPreserved,
   RecvLocalsPreserved, SentOncePreserved, FramesKnownPreserved, OrderlyPreserved
   DEF Known

LEMMA AlwaysKnown == Spec => [](Known /\ Orderly)
<1>1. (Known /\ Orderly) /\ [Next]_vars => (Known /\ Orderly)'
  BY KnownPreserved
<1>. QED
  BY <1>1, InitKnown, PTL DEF Spec

\* Every field and every local keeps its type, and no subscription grows beyond
\* its depth, for any payloads and any configuration.
THEOREM TypeCorrect == Spec => []TypeOK
<1>1. Known => TypeOK
  BY TypeParts DEF Known
<1>. QED
  BY <1>1, AlwaysKnown, PTL

\* A message is received at its place, which nothing has passed before.
LEMMA ReceiveFacts ==
  ASSUME Known, InOrder, Gets, Take, UNCHANGED sent,
         Incoming.type # "CF" \/ Incoming.msg = Collecting
  PROVE  Channel!Next
<1>. DEFINE m == Incoming.msg
            p == PosIn(sent, m)
<1>1. /\ m \in Messages /\ m \in ToSet(sent) /\ sent \in Seq(Messages)
      /\ 1 \in 1..Len(toRecv) /\ Incoming = toRecv[1]
      /\ Whole(m) \in Seq(Messages \X Nat) /\ Meaning(Whole(m)) = m
  <2>1. /\ m \in Messages /\ 1 \in 1..Len(toRecv) /\ Incoming = toRecv[1]
    BY TakeFacts DEF Known
  <2>2. m \in ToSet(sent) /\ sent \in Seq(Messages)
    BY <2>1 DEF Known, FramesKnown, KnownIn, LocalTypes
  <2>3. Whole(m) \in Seq(Messages \X Nat)
    BY <2>1, IsoTpAssumption DEF Whole
  <2>. QED
    BY <2>1, <2>2, <2>3, WholeMeans
<1>2. p \in 1..Len(sent) /\ sent[p] = m
  BY <1>1, PosFacts DEF Known, SentOnce
<1>3. Received' = Append(Received, sent[p]) /\ Len(Received) = Len(returned)
  BY <1>1, <1>2, ReceivedFacts DEF Gets, Known
<1>4. ASSUME NEW r \in 1..Len(Received)
      PROVE  Received[r] \in ToSet(sent) /\ PosIn(sent, Received[r]) < p
  <2>1. Before(sent, Received[r], m)
    <3>1. CASE Incoming.type # "CF"
      BY <1>1, <1>3, <3>1 DEF InOrder, InSequence, IsCf
    <3>2. CASE m = Collecting
      BY <1>1, <1>3, <3>2, IsoTpAssumption DEF InOrder, Delivered
    <3>. QED
      BY <3>1, <3>2
  <2>. QED
    BY <1>3, <2>1 DEF Before, InOrder, Delivered
<1>. HIDE DEF p
<1>5. ASSUME NEW j \in p..Len(sent) PROVE ~Channel!IsIn(sent[j], Received)
  <2>1. j \in 1..Len(sent) /\ PosIn(sent, sent[j]) = j
    BY <1>1, <1>2, PosFacts DEF Known, SentOnce
  <2>2. \A r \in 1..Len(Received) : Received[r] # sent[j]
    BY <1>2, <1>4, <2>1
  <2>. QED
    BY <2>2 DEF Channel!IsIn
<1>6. Channel!Receive(p)
  BY <1>3, <1>5 DEF Channel!Receive
<1>. QED
  BY <1>2, <1>6 DEF Channel!Next

\* A step sends a message, or receives the next of those that were sent, or
\* changes nothing that can be seen, unless a first frame has been lost.
LEMMA StepOfChannel ==
  ASSUME Known, Orderly, [Next]_vars
  PROVE  [Channel!Next \/ firstLost]_<<sent, Received>>
<1>0. UNCHANGED returned => UNCHANGED Received
  BY ReceivedFacts DEF Known
<1>1. ASSUME NEW m \in Messages, Send(m) PROVE Channel!Next
  <2>1. /\ m \notin ToSet(sent) /\ sent' = Append(sent, m) /\ UNCHANGED returned
        /\ sent \in Seq(Messages)
    BY <1>1 DEF Send, recvVars, Known, LocalTypes
  <2>2. ~Channel!IsIn(m, sent)
    BY <2>1 DEF Channel!IsIn, ToSet
  <2>3. Channel!Send(m)
    BY <1>0, <2>1, <2>2 DEF Channel!Send
  <2>. QED
    BY <2>3 DEF Channel!Next
<1>2. CASE ~firstLost /\ (RecvSingle \/ RecvLast)
  <2>1. InOrder
    BY <1>2 DEF Orderly, InOrder
  <2>2. Taken
    BY <1>2, <2>1, TakenFacts DEF Known
  <2>3. returned' # returned
    <3>1. returned \in Seq(Seq(Messages \X Nat))
      BY DEF Known, LocalTypes
    <3>2. \E x : returned' = Append(returned, x)
      BY <1>2 DEF RecvSingle, RecvLast, Return
    <3>. QED
      BY <3>1, <3>2
  <2>4. Gets /\ Take /\ UNCHANGED sent
    BY <2>2, <2>3 DEF Taken, Begins, Collects
  <2>5. Incoming.type # "CF" \/ Incoming.msg = Collecting
    <3>1. CASE RecvSingle
      BY <3>1 DEF RecvSingle
    <3>2. CASE RecvLast
      BY <2>1, <2>4, <3>2, FrontFollows DEF Known, RecvLast, Fits, IsConsecutive
    <3>. QED
      BY <1>2, <3>1, <3>2
  <2>. QED
    BY <2>1, <2>4, <2>5, ReceiveFacts
<1>3. CASE WaitFc \/ NextPiece \/ LastPiece \/ SendClosed \/ FcTimeout \/ CallRecv
             \/ BeginAndGrant \/ Abandon \/ CollectQuietly \/ CollectAndGrant
             \/ RecvClosed \/ RecvTimeout \/ CloseBus \/ UNCHANGED vars
  <2>1. UNCHANGED <<sent, returned>>
    BY <1>3
       DEF WaitFc, NextPiece, LastPiece, SendClosed, FcTimeout, CallRecv,
       BeginAndGrant, Abandon, CollectQuietly, CollectAndGrant, RecvClosed,
       RecvTimeout, CloseBus, vars, sendVars, recvVars, MorePieces, SendReturns, Take,
       Fail
  <2>. QED
    BY <1>0, <2>1
<1>. QED
  BY <1>1, <1>2, <1>3, StepKinds

\* Up to the first loss of a first frame messages arrive whole, once each and in
\* the order in which they were sent, or not at all, whatever else is lost, late
\* or left over, for any number of messages of any length.
THEOREM ConnectionImplementsChannel == Spec => ImplementsMessageChannel
<1>1. Init => Channel!Init
  BY DEF Init, Channel!Init, Received
<1>2. (Known /\ Orderly) /\ [Next]_vars => [Channel!Next \/ firstLost]_<<sent, Received>>
  BY StepOfChannel
<1>. QED
  BY <1>1, <1>2, AlwaysKnown, PTL DEF Spec, ImplementsMessageChannel

\* As long as no first frame has been lost, recv() returns nothing but payloads
\* that were passed to send().
THEOREM ReturnsWhatWasSent ==
  Spec => [](~firstLost => ReturnsOriginal
                             /\ \A r \in 1..Len(returned) : Received[r] \in ToSet(sent))
<1>1. ASSUME Known, Orderly, ~firstLost
      PROVE  /\ ReturnsOriginal
             /\ \A r \in 1..Len(returned) : Received[r] \in ToSet(sent)
  <2>1. \A r \in 1..Len(returned) : Received[r] \in ToSet(sent)
    BY <1>1 DEF Orderly, Delivered
  <2>2. ASSUME NEW r \in 1..Len(returned)
        PROVE  \E m \in Messages : returned[r] = Whole(m)
    <3>1. Received[r] = Meaning(returned[r])
      BY DEF Received
    <3>2. Received[r] \in Messages
      BY <1>1, <2>1 DEF Known, LocalTypes, ToSet
    <3>3. Received[r] # NoMessage
      BY <3>2, IsoTpAssumption
    <3>. QED
      BY <3>1, <3>3 DEF Meaning
  <2>. QED
    BY <2>1, <2>2 DEF ReturnsOriginal
<1>2. Known /\ Orderly =>
        (~firstLost => ReturnsOriginal
                         /\ \A r \in 1..Len(returned) : Received[r] \in ToSet(sent))
  BY <1>1
<1>. QED
  BY <1>2, AlwaysKnown, PTL

---------------------------------------------------------------------------
(* The two sides count blocks alike.                                       *)

\* The consecutive frames at the front, after one more frame and after one less.
LEMMA PrefixTaken ==
  ASSUME NEW q, NEW r, NEW n \in Nat, Len(q) = n + 1, Len(r) = n,
         \A i \in 1..n : r[i] = q[i + 1],
         NEW c \in 0..(n + 1), CfPrefix(q, c)
  PROVE  /\ q[1].type = "CF" <=> c >= 1
         /\ c >= 1 => CfPrefix(r, c - 1)
         /\ c = 0 => CfPrefix(r, 0)
<1>1. 1 \in 1..(n + 1) /\ \A i \in 1..n : i + 1 \in 1..(n + 1)
  OBVIOUS
<1>2. q[1].type = "CF" <=> 1 <= c
  BY <1>1 DEF CfPrefix
<1>3. \A i \in 1..n : r[i].type = "CF" <=> i + 1 <= c
  BY <1>1 DEF CfPrefix
<1>. QED
  BY <1>2, <1>3 DEF CfPrefix

LEMMA PrefixKept ==
  ASSUME NEW q, NEW r, NEW n \in Nat, Len(q) = n, Len(r) = n + 1,
         \A i \in 1..n : r[i] = q[i],
         NEW c \in 0..n, CfPrefix(q, c)
  PROVE  /\ r[n + 1].type # "CF" => CfPrefix(r, c)
         /\ r[n + 1].type = "CF" /\ c = n => CfPrefix(r, n + 1)
<1>1. \A i \in 1..(n + 1) : i \in 1..n \/ i = n + 1
  OBVIOUS
<1>2. \A i \in 1..n : r[i].type = "CF" <=> i <= c
  BY DEF CfPrefix
<1>3. ~(n + 1 <= c)
  OBVIOUS
<1>4. ASSUME r[n + 1].type # "CF" PROVE CfPrefix(r, c)
  BY <1>1, <1>2, <1>3, <1>4 DEF CfPrefix
<1>5. ASSUME r[n + 1].type = "CF", c = n PROVE CfPrefix(r, n + 1)
  BY <1>1, <1>2, <1>5 DEF CfPrefix
<1>. QED
  BY <1>4, <1>5

\* Numbers.
LEMMA Counts ==
  ASSUME QueueTypes, LocalTypes, SendLocals, RecvLocals
  PROVE  /\ Len(toRecv) \in Nat /\ Len(toSend) \in Nat /\ Len(buf) \in Nat
         /\ piece \in Nat /\ bs \in Nat /\ blockCount \in Nat /\ blockSize \in Nat
         /\ len \in Nat /\ cfInBlock \in Nat
         /\ spc # "idle" => msg \in Messages /\ Pieces[msg] \in Nat /\ piece >= 1
                              /\ piece <= Pieces[msg]
         /\ spc \in {"idle", "wait", "send"}
         /\ rpc # "collect" => cfInBlock = 0 /\ buf = <<>> /\ len = 0
         /\ rpc = "collect" => Len(buf) >= 1 /\ Len(buf) < len
         /\ blockSize # 0 => cfInBlock < blockSize
         /\ toSend = <<>> <=> Len(toSend) = 0
         /\ toRecv = <<>> <=> Len(toRecv) = 0
<1>1. Len(toRecv) \in Nat /\ Len(toSend) \in Nat /\ Len(buf) \in Nat
  BY DEF QueueTypes, LocalTypes
<1>2. toSend = <<>> <=> Len(toSend) = 0
  BY DEF QueueTypes
<1>3. toRecv = <<>> <=> Len(toRecv) = 0
  BY DEF QueueTypes
<1>4. /\ piece \in Nat /\ bs \in Nat /\ blockCount \in Nat /\ blockSize \in Nat
      /\ len \in Nat /\ cfInBlock \in Nat /\ spc \in {"idle", "wait", "send"}
  BY IsoTpAssumption DEF LocalTypes
<1>5. spc # "idle" => msg \in Messages /\ Pieces[msg] \in Nat /\ piece >= 1
                        /\ piece <= Pieces[msg]
  BY IsoTpAssumption DEF SendLocals
<1>6. /\ rpc # "collect" => cfInBlock = 0 /\ buf = <<>> /\ len = 0
      /\ rpc = "collect" => Len(buf) >= 1 /\ Len(buf) < len
      /\ blockSize # 0 => cfInBlock < blockSize
  BY <1>1, <1>4 DEF RecvLocals
<1>. QED
  BY <1>1, <1>2, <1>3, <1>4, <1>5, <1>6

\* A call of send().
LEMMA SendCounts ==
  ASSUME QueueTypes, LocalTypes, SendLocals, RecvLocals, blockSize # 0, Counted,
         NEW m \in Messages, Send(m)
  PROVE  Counted'
<1>0. /\ spc = "idle" /\ ~closed /\ ~closed' /\ toSend' = toSend
      /\ rpc' = rpc /\ buf' = buf /\ len' = len /\ cfInBlock' = cfInBlock
      /\ blockSize' = blockSize
  BY DEF Send, recvVars
<1>1. toSend = <<>> /\ ~InTransfer
  BY <1>0 DEF Counted, GrantGiven, InTransfer
<1>2. PICK c \in 0..Len(toRecv) :
        /\ CfPrefix(toRecv, c)
        /\ c + cfInBlock <= blockSize
        /\ rpc = "collect" /\ ~closed /\ c + cfInBlock = blockSize
             => Len(buf) + c = len
  BY <1>1 DEF Counted, BlockEnds
<1>3. \A i \in 1..Len(toRecv) : toRecv[i].type # "FF"
  BY <1>0, <1>1 DEF Counted, BlockEnds
<1>4. \/ SendSingle(m) /\ Enters("SF", m, 0) /\ spc' = "idle"
      \/ SendFirst(m) /\ Enters("FF", m, Pieces[m]) /\ spc' = "wait" /\ piece' = 1
           /\ msg' = m
  <2>1. CASE SendSingle(m)
    BY <1>0, <2>1 DEF SendSingle, Enters
  <2>2. CASE SendFirst(m)
    BY <2>2 DEF SendFirst, Enters
  <2>. QED
    BY <2>1, <2>2 DEF Send
<1>5. ~InTransfer' /\ toSend' = <<>>
  BY <1>0, <1>1, <1>4 DEF InTransfer
<1>6. UNCHANGED <<rpc, buf, returned>> /\ Pieces[m] \in Nat
  BY IsoTpAssumption DEF Send, recvVars
<1>7. CASE UNCHANGED toRecv
  BY <1>0, <1>2, <1>3, <1>5, <1>7 DEF Counted, GrantGiven, BlockRuns, BlockEnds
<1>8. ASSUME NEW t \in {"SF", "FF"}, NEW k \in Nat, Grown(t, m, k),
             t = "FF" => spc' = "wait" /\ msg' = m
      PROVE  Counted'
  <2>1. /\ Len(toRecv') = Len(toRecv) + 1 /\ Len(toRecv) \in Nat
        /\ \A i \in 1..Len(toRecv) : toRecv'[i] = toRecv[i]
        /\ toRecv'[Len(toRecv) + 1].type = t
        /\ toRecv'[Len(toRecv) + 1].msg = m
        /\ c \in 0..Len(toRecv')
    BY <1>8, Counts DEF Grown
  <2>2. CfPrefix(toRecv', c)
    BY <1>2, <1>8, <2>1, PrefixKept
  <2>3. \A i \in 1..Len(toRecv') : i \in 1..Len(toRecv) \/ i = Len(toRecv')
    BY <2>1
  <2>4. \A i \in 1..Len(toRecv') : toRecv'[i].type = "FF" =>
          spc' = "wait" /\ i = Len(toRecv') /\ toRecv'[i].msg = msg'
    BY <1>3, <1>8, <2>1, <2>3
  <2>5. BlockEnds'
    BY <1>0, <1>2, <2>1, <2>2, <2>4 DEF BlockEnds
  <2>. QED
    BY <1>5, <2>5 DEF Counted, GrantGiven, BlockRuns
<1>. QED
  BY <1>4, <1>6, <1>7, <1>8, EntersGrows

LEMMA SenderCounts ==
  ASSUME QueueTypes, LocalTypes, SendLocals, RecvLocals, blockSize # 0, Counted,
         WaitFc \/ SendClosed
  PROVE  Counted'
<1>0. /\ rpc' = rpc /\ buf' = buf /\ len' = len /\ cfInBlock' = cfInBlock
      /\ blockSize' = blockSize /\ closed' = closed /\ toRecv' = toRecv
  BY DEF WaitFc, SendClosed, recvVars
<1>1. CASE WaitFc
  <2>1. /\ toSend # <<>> /\ spc' = "send" /\ spc = "wait" /\ blockCount' = 0
        /\ piece' = piece /\ msg' = msg /\ toSend' = Tail(toSend)
    BY <1>1 DEF WaitFc
  <2>2. /\ Len(toSend) = 1 /\ toRecv = <<>>
        /\ rpc = "collect" =>
             cfInBlock = 0 /\ Len(buf) = piece /\ len = Pieces[msg] + 1
    BY <2>1 DEF Counted, GrantGiven
  <2>3. toSend' = <<>>
    BY <2>1, <2>2 DEF QueueTypes
  <2>4. CfPrefix(toRecv', Len(toRecv'))
    BY <1>0, <2>2 DEF CfPrefix
  <2>5. InTransfer'
    BY <2>1 DEF InTransfer
  <2>6. BlockRuns'
    BY <1>0, <2>1, <2>2, <2>4, Counts DEF BlockRuns
  <2>. QED
    BY <2>3, <2>5, <2>6 DEF Counted, GrantGiven, BlockEnds
<1>2. CASE SendClosed
  <2>1. /\ closed /\ spc' = "idle" /\ toSend' = toSend
        /\ spc = "send" \/ (spc = "wait" /\ toSend = <<>>)
    BY <1>2 DEF SendClosed, SendReturns
  <2>2. toSend = <<>>
    BY <2>1 DEF Counted, GrantGiven
  <2>3. ~InTransfer'
    BY <2>1 DEF InTransfer
  <2>4. \E c \in 0..Len(toRecv) : CfPrefix(toRecv, c) /\ c + cfInBlock <= blockSize
    <3>1. CASE InTransfer
      <4>1. /\ CfPrefix(toRecv, Len(toRecv))
            /\ Len(toRecv) + cfInBlock <= blockCount /\ blockCount <= blockSize
        BY <2>2, <3>1, Counts DEF Counted, BlockRuns
      <4>2. Len(toRecv) \in 0..Len(toRecv) /\ Len(toRecv) + cfInBlock <= blockSize
        BY <4>1, Counts
      <4>. QED
        BY <4>1, <4>2
    <3>2. CASE ~InTransfer
      BY <3>2 DEF Counted, BlockEnds
    <3>. QED
      BY <3>1, <3>2
  <2>5. BlockEnds'
    BY <1>0, <2>1, <2>4 DEF BlockEnds
  <2>. QED
    BY <2>1, <2>2, <2>3, <2>5 DEF Counted, GrantGiven, BlockRuns
<1>. QED
  BY <1>1, <1>2

\* Numbers, with no frames.
LEMMA BothUp ==
  ASSUME NEW a \in Nat, NEW b \in Nat
  PROVE  (a + 1) - (b + 1) = a - b
OBVIOUS

LEMMA OneToTheOther ==
  ASSUME NEW n \in Nat, NEW c \in 0..n, NEW a \in Nat, NEW b \in Nat
  PROVE  (c - 1) + (b + 1) = c + b /\ (a + 1) + (c - 1) = a + c
OBVIOUS

LEMMA PieceCounts ==
  ASSUME QueueTypes, LocalTypes, SendLocals, RecvLocals, blockSize # 0, Counted,
         NextPiece \/ LastPiece
  PROVE  Counted'
<1>0. /\ rpc' = rpc /\ buf' = buf /\ len' = len /\ cfInBlock' = cfInBlock
      /\ blockSize' = blockSize /\ closed' = closed /\ toSend' = toSend
      /\ spc = "send" /\ ~closed /\ UNCHANGED <<rpc, buf, returned>>
      /\ Enters("CF", msg, piece) /\ bs = blockSize
  BY DEF NextPiece, LastPiece, recvVars, Enters, SendLocals
<1>1. InTransfer /\ toSend = <<>>
  BY <1>0 DEF InTransfer, Counted, GrantGiven
<1>2. /\ CfPrefix(toRecv, Len(toRecv))
      /\ Len(toRecv) + cfInBlock <= blockCount /\ blockCount < blockSize
      /\ rpc = "collect" =>
           Len(buf) - cfInBlock = piece - blockCount /\ len = Pieces[msg] + 1
  BY <1>0, <1>1 DEF Counted, BlockRuns
<1>3. /\ CfPrefix(toRecv', Len(toRecv'))
      /\ Len(toRecv') \in {Len(toRecv), Len(toRecv) + 1}
  <2>1. CASE UNCHANGED toRecv
    BY <1>2, <2>1
  <2>2. CASE Grown("CF", msg, piece)
    <3>1. /\ Len(toRecv') = Len(toRecv) + 1 /\ Len(toRecv) \in 0..Len(toRecv)
          /\ \A i \in 1..Len(toRecv) : toRecv'[i] = toRecv[i]
          /\ toRecv'[Len(toRecv) + 1].type = "CF"
      BY <2>2, Counts DEF Grown
    <3>2. CfPrefix(toRecv', Len(toRecv) + 1)
      <4>. DEFINE n == Len(toRecv)
      <4>1. n \in Nat /\ n \in 0..n /\ Len(toRecv') = n + 1 /\ CfPrefix(toRecv, n)
        BY <1>2, <3>1, Counts
      <4>. QED
        BY <3>1, <4>1, PrefixKept
    <3>. QED
      BY <3>1, <3>2
  <2>3. msg \in Messages /\ piece \in Nat
    BY <1>0, Counts
  <2>. QED
    BY <1>0, <2>1, <2>2, <2>3, EntersGrows
<1>4. CASE NextPiece
  <2>1. /\ piece' = piece + 1 /\ blockCount' = blockCount + 1 /\ msg' = msg
        /\ spc' = "send" => blockCount' < blockSize
        /\ spc' # "send" => spc' = "wait" /\ blockCount' >= blockSize
    BY <1>0, <1>4, Counts DEF NextPiece, MorePieces, EndOfBlock
  <2>2. InTransfer'
    BY <1>0, <2>1, Counts DEF InTransfer
  <2>3. Len(toRecv') + cfInBlock <= blockCount + 1
    BY <1>2, <1>3, Counts
  <2>4. BlockRuns'
    BY <1>0, <1>2, <1>3, <2>1, <2>3, Counts DEF BlockRuns
  <2>. QED
    BY <1>0, <1>1, <2>2, <2>4 DEF Counted, GrantGiven, BlockEnds
<1>5. CASE LastPiece
  <2>1. piece = Pieces[msg] /\ spc' = "idle"
    BY <1>5 DEF LastPiece, SendReturns
  <2>2. ~InTransfer'
    BY <2>1 DEF InTransfer
  <2>3. Len(toRecv') + cfInBlock <= blockSize
    BY <1>2, <1>3, Counts
  <2>4. rpc = "collect" /\ Len(toRecv') + cfInBlock = blockSize
          => Len(buf) + Len(toRecv') = len
    <3>1. ASSUME rpc = "collect", Len(toRecv') + cfInBlock = blockSize
          PROVE  Len(buf) + Len(toRecv') = piece + 1
      <4>. DEFINE a == Len(toRecv)
                  b == Len(toRecv')
                  c == Len(buf)
      <4>1. /\ a \in Nat /\ c \in Nat /\ cfInBlock \in Nat /\ piece \in Nat
            /\ blockCount \in Nat /\ blockSize \in Nat
        BY Counts
      <4>2. /\ b \in {a, a + 1} /\ b + cfInBlock = blockSize
            /\ a + cfInBlock <= blockCount /\ blockCount < blockSize
            /\ c - cfInBlock = piece - blockCount
        BY <1>2, <1>3, <3>1
      <4>. HIDE DEF a, b, c
      <4>3. c + b = piece + 1
        BY <4>1, <4>2
      <4>. QED
        BY <4>3 DEF b, c
    <3>. QED
      BY <1>2, <2>1, <3>1
  <2>5. Len(toRecv') \in 0..Len(toRecv')
    BY <1>3, Counts
  <2>6. \A i \in 1..Len(toRecv') : toRecv'[i].type # "FF"
    BY <1>3 DEF CfPrefix
  <2>7. BlockEnds'
    BY <1>0, <1>3, <2>3, <2>4, <2>5, <2>6 DEF BlockEnds
  <2>. QED
    BY <1>0, <1>1, <2>2, <2>7 DEF Counted, GrantGiven, BlockRuns
<1>. QED
  BY <1>4, <1>5

\* recv() takes a frame and gives nothing: its buffer and its count in the block
\* go up by one, or it is done.
LEMMA TakeCounts ==
  ASSUME QueueTypes, LocalTypes, SendLocals, RecvLocals, blockSize # 0, Counted,
         Take, NoReply,
         \/ rpc' # "collect" /\ cfInBlock' = 0
         \/ /\ rpc = "collect" /\ rpc' = "collect" /\ Incoming.type = "CF"
            /\ cfInBlock' = cfInBlock + 1 /\ Len(buf') = Len(buf) + 1 /\ len' = len
  PROVE  Counted'
<1>. DEFINE n == Len(toRecv')
<1>0. /\ n \in Nat /\ Len(toRecv) = n + 1 /\ Incoming = toRecv[1]
      /\ toRecv # <<>>
      /\ \A i \in 1..n : toRecv'[i] = toRecv[i + 1]
      /\ blockSize' = blockSize /\ closed' = closed /\ toSend' = toSend
      /\ spc' = spc /\ msg' = msg /\ piece' = piece /\ blockCount' = blockCount
  BY TakeFacts DEF Take, NoReply, sendVars
<1>1. toSend = <<>> /\ (InTransfer' <=> InTransfer)
  BY <1>0 DEF Counted, GrantGiven, InTransfer
<1>4. rpc' = "collect" =>
        /\ rpc = "collect" /\ cfInBlock' = cfInBlock + 1
        /\ Len(buf') = Len(buf) + 1 /\ len' = len
  OBVIOUS
<1>2. CASE InTransfer
  <2>1. /\ CfPrefix(toRecv, n + 1)
        /\ n + 1 + cfInBlock <= blockCount
        /\ IF spc = "send" THEN blockCount < blockSize ELSE blockCount = blockSize
        /\ rpc = "collect" =>
             Len(buf) - cfInBlock = piece - blockCount /\ len = Pieces[msg] + 1
    BY <1>0, <1>1, <1>2 DEF Counted, BlockRuns
  <2>2. CfPrefix(toRecv', n)
    <3>1. n + 1 \in 0..(n + 1) /\ n + 1 >= 1 /\ (n + 1) - 1 = n
      BY <1>0
    <3>. QED
      BY <1>0, <2>1, <3>1, PrefixTaken
  <2>3. n + cfInBlock' <= blockCount
    BY <1>0, <2>1, Counts
  <2>4. rpc' = "collect" =>
          Len(buf') - cfInBlock' = piece - blockCount /\ len' = Pieces[msg] + 1
    <3>1. (Len(buf) + 1) - (cfInBlock + 1) = Len(buf) - cfInBlock
      BY Counts, BothUp
    <3>. QED
      BY <1>4, <2>1, <3>1
  <2>. HIDE DEF n
  <2>5. BlockRuns'
    BY <1>0, <2>1, <2>2, <2>3, <2>4 DEF BlockRuns, n
  <2>. QED
    BY <1>0, <1>1, <1>2, <2>5 DEF Counted, GrantGiven, BlockEnds
<1>3. CASE ~InTransfer
  <2>1. PICK c \in 0..(n + 1) :
          /\ CfPrefix(toRecv, c)
          /\ c + cfInBlock <= blockSize
          /\ rpc = "collect" /\ ~closed /\ c + cfInBlock = blockSize
               => Len(buf) + c = len
    BY <1>0, <1>3 DEF Counted, BlockEnds
  <2>2. /\ Incoming.type = "CF" <=> c >= 1
        /\ c >= 1 => CfPrefix(toRecv', c - 1)
        /\ c = 0 => CfPrefix(toRecv', 0)
    BY <1>0, <2>1, PrefixTaken
  <2>3. \E d \in 0..n :
          /\ CfPrefix(toRecv', d)
          /\ d + cfInBlock' <= blockSize
          /\ rpc' = "collect" /\ ~closed /\ d + cfInBlock' = blockSize
               => Len(buf') + d = len'
    <3>1. CASE c >= 1
      <4>1. c - 1 \in 0..n /\ CfPrefix(toRecv', c - 1)
        BY <1>0, <2>2, <3>1
      <4>2. (c - 1) + cfInBlock' <= blockSize
        BY <1>0, <2>1, <3>1, Counts
      <4>3. rpc' = "collect" /\ ~closed /\ (c - 1) + cfInBlock' = blockSize
              => Len(buf') + (c - 1) = len'
        <5>1. /\ (c - 1) + (cfInBlock + 1) = c + cfInBlock
              /\ (Len(buf) + 1) + (c - 1) = Len(buf) + c
          BY <1>0, Counts, OneToTheOther
        <5>. QED
          BY <1>4, <2>1, <5>1
      <4>. QED
        BY <4>1, <4>2, <4>3
    <3>2. CASE c = 0
      <4>1. 0 \in 0..n /\ CfPrefix(toRecv', 0) /\ rpc' # "collect" /\ cfInBlock' = 0
        BY <1>0, <2>2, <3>2
      <4>2. 0 + cfInBlock' <= blockSize
        BY <4>1, Counts
      <4>. QED
        BY <4>1, <4>2
    <3>. QED
      BY <2>1, <3>1, <3>2
  <2>4. ASSUME NEW i \in 1..n, toRecv'[i].type = "FF", ~closed
        PROVE  spc = "wait" /\ i = n /\ toRecv'[i].msg = msg
    <3>1. i + 1 \in 1..Len(toRecv) /\ toRecv'[i] = toRecv[i + 1]
      BY <1>0
    <3>2. spc = "wait" /\ i + 1 = n + 1 /\ toRecv[i + 1].msg = msg
      BY <1>0, <1>3, <2>4, <3>1 DEF Counted, BlockEnds
    <3>. QED
      BY <1>0, <3>1, <3>2
  <2>. HIDE DEF n
  <2>5. BlockEnds'
    BY <1>0, <2>3, <2>4 DEF BlockEnds, n
  <2>. QED
    BY <1>0, <1>1, <1>3, <2>5 DEF Counted, GrantGiven, BlockRuns
<1>. QED
  BY <1>2, <1>3

\* recv() takes a first frame, or the last of a block, and gives the next.
LEMMA GrantCounts ==
  ASSUME QueueTypes, LocalTypes, SendLocals, RecvLocals, FramesKnown, blockSize # 0,
         Counted, BeginAndGrant \/ CollectAndGrant
  PROVE  Counted'
<1>. DEFINE n == Len(toRecv')
<1>0. /\ n \in Nat /\ Len(toRecv) = n + 1 /\ Incoming = toRecv[1]
      /\ toRecv # <<>> /\ 1 \in 1..Len(toRecv)
      /\ Take /\ Grant /\ rpc' = "collect" /\ cfInBlock' = 0
      /\ spc' = spc /\ msg' = msg /\ piece' = piece /\ ~closed
      /\ Incoming.msg \in Messages
  BY TakeFacts DEF BeginAndGrant, CollectAndGrant, Take, sendVars, Grant
<1>1. toSend = <<>>
  BY <1>0 DEF Counted, GrantGiven
<1>2. Len(toSend') = 1 /\ toSend' \in Seq(FcFrames)
  <2>1. ~Lost(toSend)
    BY <1>1, IsoTpAssumption DEF Lost
  <2>. QED
    BY <1>0, <1>1, <2>1, Counts, GrantFacts
<1>3. SUFFICES /\ toRecv' = <<>> /\ spc = "wait"
               /\ Len(buf') = piece /\ len' = Pieces[msg] + 1
  <2>1. toSend' # <<>>
    <3>1. toSend' = <<>> => Len(toSend') = 0
      BY <1>2
    <3>2. Len(toSend') = 1
      BY <1>2
    <3>. QED
      BY <3>1, <3>2
  <2>2. InTransfer'
    BY <1>0, <1>3, <2>1 DEF InTransfer
  <2>. QED
    BY <1>0, <1>2, <1>3, <2>1, <2>2 DEF Counted, GrantGiven, BlockRuns, BlockEnds
<1>4. n = 0 => toRecv' = <<>>
  BY <1>0, TakeFacts
<1>5. CASE BeginAndGrant
  <2>1. /\ rpc = "first" /\ Incoming.type = "FF" /\ len' = Incoming.k + 1
        /\ buf' = <<<<Incoming.msg, 0>>>>
    BY <1>5 DEF BeginAndGrant
  <2>2. ~InTransfer
    BY <1>0, <1>1, <2>1 DEF Counted, BlockRuns, CfPrefix
  <2>3. spc = "wait" /\ 1 = n + 1 /\ Incoming.msg = msg
    BY <1>0, <2>1, <2>2 DEF Counted, BlockEnds
  <2>4. piece = 1
    BY <2>2, <2>3, Counts DEF InTransfer
  <2>5. Incoming.k = Pieces[msg]
    BY <1>0, <2>1, <2>3 DEF FramesKnown, KnownIn
  <2>. QED
    BY <1>0, <1>4, <2>1, <2>3, <2>4, <2>5
<1>6. CASE CollectAndGrant
  <2>1. /\ rpc = "collect" /\ Incoming.type = "CF" /\ cfInBlock + 1 = blockSize
        /\ buf' = More /\ Len(More) < len /\ len' = len
    BY <1>6 DEF CollectAndGrant, Fits, IsConsecutive, BlockFull
  <2>2. Len(More) = Len(buf) + 1
    BY DEF More, LocalTypes
  <2>3. CASE InTransfer
    <3>1. /\ n + 1 + cfInBlock <= blockCount
          /\ IF spc = "send" THEN blockCount < blockSize ELSE blockCount = blockSize
          /\ Len(buf) - cfInBlock = piece - blockCount /\ len = Pieces[msg] + 1
      BY <1>0, <1>1, <2>1, <2>3 DEF Counted, BlockRuns
    <3>2. n = 0 /\ spc # "send" /\ Len(buf) + 1 = piece
      BY <1>0, <2>1, <3>1, Counts
    <3>3. spc = "wait"
      BY <2>3, <3>2 DEF InTransfer
    <3>. QED
      BY <1>4, <2>1, <2>2, <3>1, <3>2, <3>3
  <2>4. CASE ~InTransfer
    <3>1. PICK c \in 0..(n + 1) :
            /\ CfPrefix(toRecv, c)
            /\ c + cfInBlock <= blockSize
            /\ rpc = "collect" /\ ~closed /\ c + cfInBlock = blockSize
                 => Len(buf) + c = len
      BY <1>0, <2>4 DEF Counted, BlockEnds
    <3>2. 1 <= c
      BY <1>0, <2>1, <3>1 DEF CfPrefix
    <3>3. c = 1
      BY <1>0, <2>1, <3>1, <3>2, Counts
    <3>4. Len(buf) + 1 = len
      BY <1>0, <2>1, <3>1, <3>3, Counts
    <3>. QED
      BY <2>1, <2>2, <3>4, Counts
  <2>. QED
    BY <2>3, <2>4
<1>. QED
  BY <1>5, <1>6

\* Steps of recv() without a frame, and the end of the bus.
LEMMA OtherCounts ==
  ASSUME QueueTypes, LocalTypes, SendLocals, RecvLocals, blockSize # 0, Counted,
         \/ CallRecv \/ RecvClosed \/ (RecvTimeout /\ ~interrupted')
         \/ CloseBus \/ UNCHANGED vars
  PROVE  Counted'
<1>1. /\ UNCHANGED <<toRecv, toSend, spc, msg, piece, blockCount, blockSize>>
      /\ closed' = closed \/ closed'
      /\ \/ UNCHANGED <<rpc, buf, len, cfInBlock>>
         \/ rpc' # "collect" /\ cfInBlock' = cfInBlock
         \/ rpc' # "collect" /\ cfInBlock' = 0
  BY DEF CallRecv, RecvClosed, RecvTimeout, CloseBus, vars, sendVars, recvVars,
     lossVars, Fail, RecvReturns
<1>2. closed => closed'
  BY DEF CallRecv, RecvClosed, RecvTimeout, CloseBus, vars, sendVars, recvVars,
     lossVars, Fail, RecvReturns
<1>3. InTransfer' <=> InTransfer
  BY <1>1 DEF InTransfer
<1>4. cfInBlock' <= cfInBlock /\ cfInBlock' \in Nat
  BY <1>1, Counts
<1>5. GrantGiven'
  BY <1>1 DEF Counted, GrantGiven
<1>6. BlockRuns'
  BY <1>1, <1>3, <1>4, Counts DEF Counted, BlockRuns
<1>7. BlockEnds'
  <2>1. CASE InTransfer
    BY <1>3, <2>1 DEF BlockEnds
  <2>2. CASE ~InTransfer
    <3>1. PICK c \in 0..Len(toRecv) :
            /\ CfPrefix(toRecv, c)
            /\ c + cfInBlock <= blockSize
            /\ rpc = "collect" /\ ~closed /\ c + cfInBlock = blockSize
                 => Len(buf) + c = len
      BY <2>2 DEF Counted, BlockEnds
    <3>2. c + cfInBlock' <= blockSize
      BY <1>4, <3>1, Counts
    <3>3. rpc' = "collect" /\ ~closed' /\ c + cfInBlock' = blockSize
            => Len(buf') + c = len'
      BY <1>1, <1>2, <3>1
    <3>4. \A i \in 1..Len(toRecv) :
            toRecv[i].type = "FF" /\ ~closed' =>
              /\ spc = "wait" /\ i = Len(toRecv) /\ toRecv[i].msg = msg
      BY <1>2, <2>2 DEF Counted, BlockEnds
    <3>. QED
      BY <1>1, <3>1, <3>2, <3>3, <3>4 DEF BlockEnds
  <2>. QED
    BY <2>1, <2>2
<1>. QED
  BY <1>5, <1>6, <1>7 DEF Counted

\* What every step keeps, and what only FcTimeout and RecvTimeout change.
LEMMA Unchanging ==
  ASSUME [Next]_vars
  PROVE  /\ blockSize' = blockSize
         /\ ~interrupted' => ~interrupted /\ ~FcTimeout
<1>. USE DEF sendVars, recvVars, lossVars
<1>1. ASSUME NEW m \in Messages, Send(m)
      PROVE  blockSize' = blockSize /\ interrupted' = interrupted
  BY <1>1 DEF Send
<1>2. CASE RecvSingle \/ BeginAndGrant \/ Abandon \/ RecvLast \/ CollectQuietly
             \/ CollectAndGrant
  <2>1. Take
    BY <1>2
       DEF RecvSingle, BeginAndGrant, Abandon, RecvLast, CollectQuietly,
       CollectAndGrant
  <2>2. blockSize' = blockSize /\ interrupted' = interrupted
    BY <2>1 DEF Take
  <2>. QED
    BY <2>2 DEF FcTimeout
<1>3. CASE WaitFc \/ NextPiece \/ LastPiece \/ SendClosed \/ CallRecv \/ RecvClosed
             \/ CloseBus \/ UNCHANGED vars
  <2>1. blockSize' = blockSize /\ interrupted' = interrupted
    BY <1>3
       DEF WaitFc, NextPiece, LastPiece, SendClosed, CallRecv, RecvClosed, CloseBus,
       vars
  <2>. QED
    BY <2>1 DEF FcTimeout
<1>4. CASE RecvTimeout
  <2>1. blockSize' = blockSize
    BY <1>4 DEF RecvTimeout
  <2>2. ~interrupted' => ~interrupted
    BY <1>4 DEF RecvTimeout
  <2>. QED
    BY <2>1, <2>2 DEF FcTimeout
<1>5. FcTimeout => blockSize' = blockSize /\ interrupted'
  BY DEF FcTimeout
<1>6. ASSUME NEW m \in Messages, Send(m)
      PROVE  /\ blockSize' = blockSize
             /\ ~interrupted' => ~interrupted /\ ~FcTimeout
  BY <1>1, <1>5, <1>6
<1>. QED
  BY <1>2, <1>3, <1>4, <1>5, <1>6, StepKinds

LEMMA CreditPreserved ==
  ASSUME Known, Credit, [Next]_vars
  PROVE  Credit'
<1>. SUFFICES ASSUME ~interrupted', blockSize' # 0 PROVE Counted'
  BY DEF Credit
<1>1. blockSize # 0 /\ Counted /\ ~FcTimeout
  BY Unchanging DEF Credit
<1>2. QueueTypes /\ LocalTypes /\ SendLocals /\ RecvLocals /\ FramesKnown
  BY DEF Known
<1>3. ASSUME NEW m \in Messages, Send(m) PROVE Counted'
  BY <1>1, <1>2, <1>3, SendCounts
<1>4. CASE WaitFc \/ SendClosed
  BY <1>1, <1>2, <1>4, SenderCounts
<1>5. CASE NextPiece \/ LastPiece
  BY <1>1, <1>2, <1>5, PieceCounts
<1>6. CASE RecvSingle \/ RecvLast \/ Abandon
  <2>1. Take /\ NoReply /\ rpc' # "collect" /\ cfInBlock' = 0
    BY <1>6 DEF RecvSingle, RecvLast, Abandon, Return, Fail, RecvReturns
  <2>. QED
    BY <1>1, <1>2, <2>1, TakeCounts
<1>7. CASE CollectQuietly
  <2>1. /\ Take /\ NoReply /\ rpc = "collect" /\ rpc' = "collect"
        /\ Incoming.type = "CF" /\ cfInBlock' = cfInBlock + 1 /\ len' = len
        /\ buf' = More
    BY <1>7 DEF CollectQuietly, Fits, IsConsecutive
  <2>2. Len(buf') = Len(buf) + 1
    BY <1>2, <2>1 DEF More, LocalTypes
  <2>. QED
    BY <1>1, <1>2, <2>1, <2>2, TakeCounts
<1>8. CASE BeginAndGrant \/ CollectAndGrant
  BY <1>1, <1>2, <1>8, GrantCounts
<1>9. CASE CallRecv \/ RecvClosed \/ RecvTimeout \/ CloseBus \/ UNCHANGED vars
  BY <1>1, <1>2, <1>9, OtherCounts
<1>. QED
  BY <1>1, <1>3, <1>4, <1>5, <1>6, <1>7, <1>8, <1>9, StepKinds

LEMMA InitCredit == Init => Credit
<1>. SUFFICES ASSUME Init PROVE Counted
  BY DEF Credit
<1>1. /\ toRecv = <<>> /\ toSend = <<>> /\ spc = "idle" /\ rpc = "idle"
      /\ cfInBlock = 0 /\ blockSize \in Nat /\ Len(toRecv) = 0
  BY IsoTpAssumption DEF Init
<1>2. ~InTransfer
  BY <1>1 DEF InTransfer
<1>3. 0 \in 0..Len(toRecv) /\ CfPrefix(toRecv, 0) /\ 0 + cfInBlock <= blockSize
  BY <1>1 DEF CfPrefix
<1>4. BlockEnds
  BY <1>1, <1>3 DEF BlockEnds
<1>. QED
  BY <1>1, <1>2, <1>4 DEF Counted, GrantGiven, BlockRuns

LEMMA AlwaysCredit == Spec => [](Known /\ Credit)
<1>1. (Known /\ Orderly) /\ Credit /\ [Next]_vars => Credit'
  BY CreditPreserved
<1>. QED
  BY <1>1, InitCredit, AlwaysKnown, PTL DEF Spec

\* The consecutive frames of a prefix are as many as it is long.
LEMMA PrefixSize ==
  ASSUME NEW q, Len(q) \in Nat, NEW c \in 0..Len(q), CfPrefix(q, c)
  PROVE  Cardinality({i \in 1..Len(q) : q[i].type = "CF"}) = c
<1>1. {i \in 1..Len(q) : q[i].type = "CF"} = 1..c
  BY DEF CfPrefix
<1>2. Cardinality(1..c) = c
  BY FS_Interval
<1>. QED
  BY <1>1, <1>2

LEMMA CreditBoundsWindow ==
  ASSUME Known, Credit
  PROVE  WindowRespected
<1>. SUFFICES ASSUME ~interrupted, blockSize # 0
              PROVE  Cardinality({i \in 1..Len(toRecv) : toRecv[i].type = "CF"})
                       <= blockSize
  BY DEF WindowRespected
<1>0. QueueTypes /\ LocalTypes /\ SendLocals /\ RecvLocals
  BY DEF Known
<1>1. Counted
  BY DEF Credit
<1>2. \E c \in 0..Len(toRecv) : CfPrefix(toRecv, c) /\ c <= blockSize
  <2>1. CASE toSend # <<>>
    <3>1. toRecv = <<>>
      BY <1>1, <2>1 DEF Counted, GrantGiven
    <3>2. 0 \in 0..Len(toRecv) /\ CfPrefix(toRecv, 0) /\ 0 <= blockSize
      BY <1>0, <3>1, Counts DEF CfPrefix
    <3>. QED
      BY <3>2
  <2>2. CASE toSend = <<>> /\ InTransfer
    <3>1. /\ CfPrefix(toRecv, Len(toRecv))
          /\ Len(toRecv) + cfInBlock <= blockCount /\ blockCount <= blockSize
      BY <1>0, <1>1, <2>2, Counts DEF Counted, BlockRuns
    <3>2. Len(toRecv) \in 0..Len(toRecv) /\ Len(toRecv) <= blockSize
      BY <1>0, <3>1, Counts
    <3>. QED
      BY <3>1, <3>2
  <2>3. CASE ~InTransfer
    <3>1. PICK c \in 0..Len(toRecv) :
            CfPrefix(toRecv, c) /\ c + cfInBlock <= blockSize
      BY <1>1, <2>3 DEF Counted, BlockEnds
    <3>2. c <= blockSize
      BY <1>0, <3>1, Counts
    <3>. QED
      BY <3>1, <3>2
  <2>. QED
    BY <2>1, <2>2, <2>3
<1>3. Len(toRecv) \in Nat
  BY <1>0, Counts
<1>. QED
  BY <1>2, <1>3, PrefixSize

\* However the two calls interleave, and whatever is lost or left over, no more
\* consecutive frames wait for recv() than it granted, for any block size but 0
\* and queues of any depth, until a transfer times out.
THEOREM WindowIsRespected == Spec => []WindowRespected
<1>1. Known /\ Credit => WindowRespected
  BY CreditBoundsWindow
<1>. QED
  BY <1>1, AlwaysCredit, PTL

---------------------------------------------------------------------------
(* Without losses the two sides never wait for each other.                 *)

LossFree == ~interrupted /\ ~firstLost /\ ~otherLost /\ ~closed

LEMMA SendComplete ==
  ASSUME QueueTypes, LocalTypes, SendLocals, RecvLocals, Complete, LossFree',
         NEW m \in Messages, Send(m)
  PROVE  Complete'
<1>0. /\ spc = "idle" /\ toSend' = toSend /\ rpc' = rpc /\ buf' = buf /\ len' = len
      /\ UNCHANGED <<rpc, buf, returned>> /\ Len(toRecv) \in Nat
      /\ Pieces[m] \in Nat
  BY Counts, IsoTpAssumption DEF Send, recvVars
<1>1. toSend = <<>> /\ ~InTransfer
  BY <1>0 DEF Complete, OneGrant, InTransfer
<1>2. PICK c \in 0..Len(toRecv) :
        /\ CfPrefix(toRecv, c)
        /\ \A i \in 1..c : toRecv[i].k = Len(buf) + i - 1
        /\ IF rpc = "collect" THEN Len(buf) + c = len ELSE c = 0
  BY <1>1 DEF Complete, PiecesEnd
<1>3. \A i \in 1..Len(toRecv) : toRecv[i].type # "FF"
  BY <1>0, <1>1 DEF Complete, PiecesEnd
<1>4. \/ Grown("SF", m, 0) /\ spc' = "idle"
      \/ Grown("FF", m, Pieces[m]) /\ spc' = "wait" /\ piece' = 1 /\ msg' = m
  <2>1. CASE SendSingle(m)
    <3>1. /\ Enters("SF", m, 0) /\ spc' = "idle" /\ ~Lost(toRecv)
      BY <1>0, <2>1 DEF SendSingle, Enters, LossFree
    <3>. QED
      BY <1>0, <3>1, EntersGrows
  <2>2. CASE SendFirst(m)
    <3>1. /\ Enters("FF", m, Pieces[m]) /\ spc' = "wait" /\ piece' = 1 /\ msg' = m
          /\ ~Lost(toRecv)
      BY <2>2 DEF SendFirst, Enters, LossFree
    <3>. QED
      BY <1>0, <3>1, EntersGrows
  <2>. QED
    BY <2>1, <2>2 DEF Send
<1>5. /\ Len(toRecv') = Len(toRecv) + 1
      /\ \A i \in 1..Len(toRecv) : toRecv'[i] = toRecv[i]
      /\ toRecv'[Len(toRecv) + 1].type \in {"SF", "FF"}
      /\ toRecv'[Len(toRecv) + 1].msg = m
      /\ toRecv'[Len(toRecv) + 1].type = "FF" <=> spc' = "wait"
      /\ spc' = "wait" => msg' = m
      /\ c \in 0..Len(toRecv')
  BY <1>0, <1>4 DEF Grown
<1>6. ~InTransfer' /\ toSend' = <<>>
  BY <1>0, <1>1, <1>4 DEF InTransfer
<1>7. CfPrefix(toRecv', c)
  BY <1>0, <1>2, <1>5, PrefixKept
<1>8. \A i \in 1..c : toRecv'[i].k = Len(buf) + i - 1
  <2>1. \A i \in 1..c : i \in 1..Len(toRecv)
    BY <1>0
  <2>. QED
    BY <1>2, <1>5, <2>1
<1>9. \A i \in 1..Len(toRecv') : i \in 1..Len(toRecv) \/ i = Len(toRecv')
  BY <1>0, <1>5
<1>10. \A i \in 1..Len(toRecv) : i # Len(toRecv')
  BY <1>0, <1>5
<1>11. \A i \in 1..Len(toRecv') :
         (toRecv'[i].type = "FF") <=> (spc' = "wait" /\ i = Len(toRecv'))
  BY <1>3, <1>5, <1>9, <1>10
<1>12. toRecv' # <<>>
  <2>1. toRecv' = <<>> => Len(toRecv') = 0
    OBVIOUS
  <2>. QED
    BY <1>0, <1>5, <2>1
<1>13. PiecesEnd'
  BY <1>0, <1>2, <1>5, <1>7, <1>8, <1>11, <1>12 DEF PiecesEnd
<1>. QED
  BY <1>6, <1>13 DEF Complete, PiecesFollow, OneGrant

LEMMA SenderComplete ==
  ASSUME QueueTypes, LocalTypes, SendLocals, RecvLocals, Complete, LossFree',
         WaitFc \/ NextPiece \/ LastPiece
  PROVE  Complete'
<1>0. /\ rpc' = rpc /\ buf' = buf /\ len' = len /\ UNCHANGED <<rpc, buf, returned>>
      /\ Len(toRecv) \in Nat /\ Len(toSend) \in Nat
  BY Counts DEF WaitFc, NextPiece, LastPiece, recvVars
<1>1. CASE WaitFc
  <2>1. /\ toSend # <<>> /\ spc' = "send" /\ spc = "wait" /\ toRecv' = toRecv
        /\ piece' = piece /\ msg' = msg /\ toSend' = Tail(toSend)
    BY <1>1 DEF WaitFc
  <2>2. Len(toSend) = 1
    BY <2>1 DEF Complete, OneGrant
  <2>3. toSend' = <<>>
    BY <2>1, <2>2 DEF QueueTypes
  <2>4. InTransfer /\ InTransfer'
    BY <2>1 DEF InTransfer
  <2>5. PiecesFollow'
    BY <1>0, <2>1, <2>4 DEF Complete, PiecesFollow
  <2>. QED
    BY <2>3, <2>4, <2>5 DEF Complete, PiecesEnd, OneGrant
<1>2. CASE NextPiece \/ LastPiece
  <2>1. /\ spc = "send" /\ Enters("CF", msg, piece) /\ ~Lost(toRecv)
        /\ toSend' = toSend /\ msg \in Messages /\ piece \in Nat
    BY <1>2, Counts DEF NextPiece, LastPiece, Enters, LossFree
  <2>2. toSend = <<>> /\ InTransfer
    BY <2>1 DEF Complete, OneGrant, InTransfer
  <2>3. /\ rpc = "collect" /\ len = Pieces[msg] + 1
        /\ Len(buf) + Len(toRecv) = piece
        /\ \A i \in 1..Len(toRecv) :
             toRecv[i].type = "CF" /\ toRecv[i].k = Len(buf) + i - 1
    BY <2>2 DEF Complete, PiecesFollow
  <2>4. Grown("CF", msg, piece)
    BY <1>0, <2>1, EntersGrows
  <2>5. /\ Len(toRecv') = Len(toRecv) + 1
        /\ \A i \in 1..Len(toRecv) : toRecv'[i] = toRecv[i]
        /\ toRecv'[Len(toRecv) + 1].type = "CF"
        /\ toRecv'[Len(toRecv) + 1].k = piece
    BY <1>0, <2>4 DEF Grown
  <2>6. \A i \in 1..Len(toRecv') :
          toRecv'[i].type = "CF" /\ toRecv'[i].k = Len(buf) + i - 1
    <3>1. \A i \in 1..Len(toRecv') : i \in 1..Len(toRecv) \/ i = Len(toRecv) + 1
      BY <1>0, <2>5
    <3>2. Len(buf) + (Len(toRecv) + 1) - 1 = piece
      BY <1>0, <2>3, Counts
    <3>. QED
      BY <2>3, <2>5, <3>1, <3>2
  <2>7. Len(buf) + Len(toRecv') = piece + 1
    BY <1>0, <2>3, <2>5, Counts
  <2>8. CASE NextPiece
    <3>1. /\ piece' = piece + 1 /\ msg' = msg /\ spc' \in {"wait", "send"}
      BY <2>8 DEF NextPiece, MorePieces
    <3>2. InTransfer'
      BY <2>1, <3>1, Counts DEF InTransfer
    <3>3. PiecesFollow'
      BY <1>0, <2>3, <2>6, <2>7, <3>1 DEF PiecesFollow
    <3>. QED
      BY <2>1, <2>2, <3>2, <3>3 DEF Complete, PiecesEnd, OneGrant
  <2>9. CASE LastPiece
    <3>1. piece = Pieces[msg] /\ spc' = "idle"
      BY <2>9 DEF LastPiece, SendReturns
    <3>2. ~InTransfer'
      BY <3>1 DEF InTransfer
    <3>3. CfPrefix(toRecv', Len(toRecv')) /\ Len(toRecv') \in 0..Len(toRecv')
      BY <1>0, <2>5, <2>6 DEF CfPrefix
    <3>4. Len(buf) + Len(toRecv') = len
      BY <2>3, <2>7, <3>1
    <3>5. PiecesEnd'
      BY <1>0, <2>3, <2>6, <3>1, <3>3, <3>4 DEF PiecesEnd
    <3>. QED
      BY <2>1, <2>2, <3>2, <3>5 DEF Complete, PiecesFollow, OneGrant
  <2>. QED
    BY <1>2, <2>8, <2>9
<1>. QED
  BY <1>1, <1>2

\* The front of the queue, if it is to be taken without a loss.
LEMMA FrontComplete ==
  ASSUME QueueTypes, LocalTypes, SendLocals, RecvLocals, Complete, Take
  PROVE  /\ rpc = "collect" => /\ Incoming.type = "CF" /\ Incoming.k = Len(buf)
                               /\ Fits(Incoming)
         /\ rpc # "collect" => ~InTransfer /\ Incoming.type # "CF"
<1>0. /\ Len(toRecv) \in Nat /\ 1 \in 1..Len(toRecv) /\ Incoming = toRecv[1]
      /\ Len(buf) \in Nat
  BY TakeFacts, Counts
<1>1. ASSUME Incoming.type = "CF", Incoming.k = Len(buf) PROVE Fits(Incoming)
  BY <1>1 DEF Fits, IsConsecutive, Sn
<1>2. CASE InTransfer
  <2>1. /\ rpc = "collect" /\ Incoming.type = "CF"
        /\ Incoming.k = Len(buf) + 1 - 1
    BY <1>0, <1>2 DEF Complete, PiecesFollow
  <2>. QED
    BY <1>0, <1>1, <2>1
<1>3. CASE ~InTransfer
  <2>1. PICK c \in 0..Len(toRecv) :
          /\ CfPrefix(toRecv, c)
          /\ \A i \in 1..c : toRecv[i].k = Len(buf) + i - 1
          /\ IF rpc = "collect" THEN Len(buf) + c = len ELSE c = 0
    BY <1>3 DEF Complete, PiecesEnd
  <2>2. Incoming.type = "CF" <=> 1 <= c
    BY <1>0, <2>1 DEF CfPrefix
  <2>3. rpc = "collect" => 1 <= c
    BY <1>0, <2>1, Counts
  <2>4. 1 <= c => Incoming.k = Len(buf)
    <3>1. 1 <= c => 1 \in 1..c
      BY <1>0
    <3>. QED
      BY <1>0, <2>1, <3>1
  <2>. QED
    BY <1>1, <1>3, <2>1, <2>2, <2>3, <2>4
<1>. QED
  BY <1>2, <1>3

\* recv() takes a frame and gives nothing: its buffer goes up by one, or the
\* message was whole and it is done.
LEMMA TakeComplete ==
  ASSUME QueueTypes, LocalTypes, SendLocals, RecvLocals, Complete,
         Take, Incoming.type # "FF", NoReply,
         \/ /\ rpc' # "collect" /\ buf' = <<>>
            /\ rpc = "collect" => Len(buf) + 1 = len
         \/ rpc = "collect" /\ rpc' = "collect" /\ Len(buf') = Len(buf) + 1 /\ len' = len
  PROVE  Complete'
<1>. DEFINE n == Len(toRecv')
<1>0. /\ n \in Nat /\ Len(toRecv) = n + 1 /\ Incoming = toRecv[1]
      /\ toRecv # <<>>
      /\ \A i \in 1..n : toRecv'[i] = toRecv[i + 1] /\ i + 1 \in 1..(n + 1)
      /\ toSend' = toSend /\ spc' = spc /\ msg' = msg /\ piece' = piece
  <2>1. Take /\ QueueTypes
    OBVIOUS
  <2>2. n \in Nat /\ Len(toRecv) = n + 1 /\ Incoming = toRecv[1]
    BY <2>1, TakeFacts
  <2>3. \A i \in 1..n : toRecv'[i] = toRecv[i + 1]
    BY <2>1, TakeFacts
  <2>4. \A i \in 1..n : i + 1 \in 1..(n + 1)
    BY <2>2
  <2>. QED
    BY <2>2, <2>3, <2>4 DEF Take, NoReply, sendVars
<1>1. InTransfer' <=> InTransfer
  BY <1>0 DEF InTransfer
<1>2. /\ rpc' = "collect" => rpc = "collect" /\ Len(buf') = Len(buf) + 1 /\ len' = len
      /\ rpc' # "collect" => buf' = <<>> /\ (rpc = "collect" => Len(buf) + 1 = len)
  OBVIOUS
<1>3. OneGrant'
  BY <1>0 DEF Complete, OneGrant
<1>4. CASE InTransfer
  <2>1. /\ rpc = "collect" /\ len = Pieces[msg] + 1
        /\ Len(buf) + (n + 1) = piece
        /\ \A i \in 1..(n + 1) :
             toRecv[i].type = "CF" /\ toRecv[i].k = Len(buf) + i - 1
    BY <1>0, <1>4 DEF Complete, PiecesFollow
  <2>2. spc # "idle"
    BY <1>4 DEF InTransfer
  <2>3. rpc' = "collect"
    <3>1. Len(buf) + 1 # len
      BY <1>0, <2>1, <2>2, Counts
    <3>. QED
      BY <1>2, <2>1, <3>1
  <2>4. Len(buf') + n = piece
    <3>1. ASSUME NEW a \in Nat, a + (n + 1) = piece PROVE (a + 1) + n = piece
      BY <1>0, <3>1, Counts
    <3>. QED
      BY <1>2, <2>1, <2>3, <3>1, Counts
  <2>5. ASSUME NEW i \in 1..n
        PROVE  toRecv'[i].type = "CF" /\ toRecv'[i].k = Len(buf') + i - 1
    <3>1. toRecv'[i].type = "CF" /\ toRecv'[i].k = Len(buf) + (i + 1) - 1
      BY <1>0, <2>1
    <3>2. Len(buf) + (i + 1) - 1 = (Len(buf) + 1) + i - 1
      BY <1>0, Counts
    <3>3. Len(buf') = Len(buf) + 1
      BY <1>2, <2>3
    <3>. QED
      BY <3>1, <3>2, <3>3
  <2>. HIDE DEF n
  <2>6. PiecesFollow'
    BY <1>0, <1>2, <2>1, <2>3, <2>4, <2>5 DEF PiecesFollow, n
  <2>. QED
    BY <1>1, <1>3, <1>4, <2>6 DEF Complete, PiecesEnd
<1>5. CASE ~InTransfer
  <2>1. PICK c \in 0..(n + 1) :
          /\ CfPrefix(toRecv, c)
          /\ \A i \in 1..c : toRecv[i].k = Len(buf) + i - 1
          /\ IF rpc = "collect" THEN Len(buf) + c = len ELSE c = 0
    BY <1>0, <1>5 DEF Complete, PiecesEnd
  <2>2. /\ Incoming.type = "CF" <=> c >= 1
        /\ c >= 1 => CfPrefix(toRecv', c - 1)
        /\ c = 0 => CfPrefix(toRecv', 0)
    BY <1>0, <2>1, PrefixTaken
  <2>3. \E d \in 0..n :
          /\ CfPrefix(toRecv', d)
          /\ \A i \in 1..d : toRecv'[i].k = Len(buf') + i - 1
          /\ IF rpc' = "collect" THEN Len(buf') + d = len' ELSE d = 0
    <3>1. CASE rpc' = "collect"
      <4>1. /\ rpc = "collect" /\ Len(buf) + c = len /\ c >= 1
            /\ Len(buf') = Len(buf) + 1 /\ len' = len
        BY <1>0, <1>2, <2>1, <3>1, Counts
      <4>2. c - 1 \in 0..n /\ CfPrefix(toRecv', c - 1)
        BY <1>0, <2>2, <4>1
      <4>3. Len(buf') + (c - 1) = len'
        <5>1. ASSUME NEW a \in Nat, a + c = len PROVE (a + 1) + (c - 1) = len
          BY <1>0, <5>1, Counts
        <5>. QED
          BY <4>1, <5>1, Counts
      <4>4. ASSUME NEW i \in 1..(c - 1) PROVE toRecv'[i].k = Len(buf') + i - 1
        <5>1. i \in 1..n /\ i + 1 \in 1..c
          BY <1>0, <4>2
        <5>2. toRecv'[i].k = Len(buf) + (i + 1) - 1
          BY <1>0, <2>1, <5>1
        <5>3. Len(buf) + (i + 1) - 1 = (Len(buf) + 1) + i - 1
          BY <1>0, Counts
        <5>. QED
          BY <4>1, <5>2, <5>3
      <4>. QED
        BY <3>1, <4>2, <4>3, <4>4
    <3>2. CASE rpc' # "collect"
      <4>1. /\ c \in {0, 1}
        BY <1>0, <1>2, <2>1, <3>2, Counts
      <4>2. CfPrefix(toRecv', 0) /\ 0 \in 0..n
        BY <1>0, <2>2, <4>1
      <4>. QED
        BY <3>2, <4>2
    <3>. QED
      BY <3>1, <3>2
  <2>4. ASSUME NEW i \in 1..n
        PROVE  (toRecv'[i].type = "FF") <=> (spc = "wait" /\ i = n)
    <3>1. (toRecv[i + 1].type = "FF") <=> (spc = "wait" /\ i + 1 = n + 1)
      BY <1>0, <1>5 DEF Complete, PiecesEnd
    <3>2. i + 1 = n + 1 <=> i = n
      BY <1>0
    <3>. QED
      BY <1>0, <3>1, <3>2
  <2>5. ASSUME spc = "wait"
        PROVE  toRecv' # <<>> /\ toRecv'[n].msg = msg
    <3>1. /\ toRecv[n + 1].msg = msg
          /\ (toRecv[n + 1].type = "FF") <=> (spc = "wait" /\ n + 1 = n + 1)
      BY <1>0, <1>5, <2>5 DEF Complete, PiecesEnd
    <3>2. n # 0
      BY <1>0, <2>5, <3>1
    <3>3. toRecv' # <<>>
      <4>1. toRecv' = <<>> => Len(toRecv') = 0
        OBVIOUS
      <4>. QED
        BY <3>2, <4>1
    <3>4. toRecv'[n] = toRecv[n + 1]
      BY <1>0, <3>2
    <3>. QED
      BY <3>1, <3>3, <3>4
  <2>. HIDE DEF n
  <2>6. PiecesEnd'
    BY <1>0, <2>3, <2>4, <2>5 DEF PiecesEnd, n
  <2>. QED
    BY <1>1, <1>3, <1>5, <2>6 DEF Complete, PiecesFollow
<1>. QED
  BY <1>4, <1>5

\* recv() takes a first frame, or the last of a block, and gives the next.
LEMMA GrantComplete ==
  ASSUME QueueTypes, LocalTypes, SendLocals, RecvLocals, FramesKnown, Complete,
         blockSize # 0 => Counted, BeginAndGrant \/ CollectAndGrant
  PROVE  Complete'
<1>0. /\ Len(toRecv) \in Nat \ {0} /\ Incoming = toRecv[1]
      /\ Take /\ Grant /\ rpc' = "collect"
      /\ spc' = spc /\ msg' = msg /\ piece' = piece
      /\ toRecv' \in Seq(RecvFrames) /\ Len(toRecv') = Len(toRecv) - 1
      /\ Incoming.msg \in Messages
  BY TakeFacts DEF BeginAndGrant, CollectAndGrant, Take, sendVars
<1>1. SUFFICES /\ toSend' # <<>> /\ Len(toSend') = 1 /\ spc = "wait"
               /\ toRecv' = <<>> /\ Len(buf') = piece /\ len' = Pieces[msg] + 1
  <2>1. InTransfer'
    BY <1>0, <1>1 DEF InTransfer
  <2>2. PiecesFollow'
    BY <1>0, <1>1, Counts DEF PiecesFollow
  <2>. QED
    BY <1>0, <1>1, <2>1, <2>2 DEF Complete, PiecesEnd, OneGrant
<1>2. CASE BeginAndGrant
  <2>1. /\ rpc # "collect" /\ Incoming.type = "FF" /\ len' = Incoming.k + 1
        /\ buf' = <<<<Incoming.msg, 0>>>>
    BY <1>2 DEF BeginAndGrant
  <2>2. ~InTransfer
    BY <1>0, <2>1, FrontComplete
  <2>3. 1 \in 1..Len(toRecv)
    BY <1>0
  <2>4. /\ spc = "wait" /\ Len(toRecv) = 1 /\ Incoming.msg = msg
    BY <1>0, <2>1, <2>2, <2>3 DEF Complete, PiecesEnd
  <2>5. toSend = <<>> /\ piece = 1
    BY <2>2, <2>4, Counts DEF InTransfer
  <2>6. Incoming.k = Pieces[msg]
    BY <1>0, <2>1, <2>3, <2>4 DEF FramesKnown, KnownIn
  <2>7. Len(toSend') = 1 /\ toSend' \in Seq(FcFrames)
    <3>1. ~Lost(toSend)
      BY <2>5, IsoTpAssumption DEF Lost
    <3>. QED
      BY <1>0, <2>5, <3>1, Counts, GrantFacts
  <2>8. toSend' # <<>>
    <3>1. toSend' = <<>> => Len(toSend') = 0
      BY <2>7
    <3>. QED
      BY <2>7, <3>1
  <2>9. toRecv' = <<>>
    BY <1>0, <2>4
  <2>. QED
    BY <2>1, <2>4, <2>5, <2>6, <2>7, <2>8, <2>9
<1>3. CASE CollectAndGrant
  <2>1. blockSize # 0 /\ Counted
    BY <1>3 DEF CollectAndGrant, BlockFull
  <2>2. Counted'
    BY <1>3, <2>1, GrantCounts
  <2>3. toSend' # <<>>
    <3>1. /\ toSend' \in Seq(FcFrames) /\ Len(toSend) \in Nat
          /\ Lost(toSend) => toSend' = toSend
          /\ ~Lost(toSend) => Len(toSend') = Len(toSend) + 1
      BY <1>0, Counts, GrantFacts
    <3>2. Len(toSend') # 0
      BY <3>1, IsoTpAssumption DEF Lost
    <3>3. toSend' = <<>> => Len(toSend') = 0
      BY <3>1
    <3>. QED
      BY <3>2, <3>3
  <2>. QED
    BY <1>0, <2>2, <2>3 DEF Counted, GrantGiven
<1>. QED
  BY <1>2, <1>3

LEMMA LosslessPreserved ==
  ASSUME Known, Credit, Lossless, [Next]_vars
  PROVE  Lossless'
<1>. SUFFICES ASSUME LossFree' PROVE Complete'
  BY DEF Lossless, LossFree
<1>. USE DEF sendVars, recvVars, lossVars
<1>0. QueueTypes /\ LocalTypes /\ SendLocals /\ RecvLocals /\ FramesKnown
  BY DEF Known
<1>1. ~interrupted /\ ~FcTimeout
  BY Unchanging DEF LossFree
<1>2. ~firstLost /\ ~otherLost /\ ~closed
  <2>1. ~firstLost' /\ ~otherLost' /\ ~closed'
    BY DEF LossFree
  <2>2. ASSUME NEW m \in Messages, Send(m)
        PROVE  ~firstLost /\ ~otherLost /\ ~closed
    <3>1. CASE SendSingle(m)
      BY <2>1, <2>2, <3>1 DEF Send, SendSingle
    <3>2. CASE SendFirst(m)
      BY <2>1, <2>2, <3>2 DEF Send, SendFirst
    <3>. QED
      BY <2>2, <3>1, <3>2 DEF Send
  <2>3. CASE NextPiece \/ LastPiece
    <3>1. /\ firstLost' = firstLost /\ closed' = closed
          /\ otherLost' = (otherLost \/ Lost(toRecv))
      BY <2>3 DEF NextPiece, LastPiece
    <3>. QED
      BY <2>1, <3>1, Zenon
  <2>4. CASE RecvSingle \/ Abandon \/ RecvLast \/ CollectQuietly
    BY <2>1, <2>4 DEF RecvSingle, Abandon, RecvLast, CollectQuietly, Take, NoReply
  <2>5. CASE BeginAndGrant \/ CollectAndGrant
    <3>1. Take /\ Grant
      BY <2>5 DEF BeginAndGrant, CollectAndGrant
    <3>2. /\ firstLost' = firstLost /\ closed' = closed
          /\ otherLost' = (otherLost \/ Lost(toSend))
      BY <3>1 DEF Take, Grant
    <3>. QED
      BY <2>1, <3>2, Zenon
  <2>6. CASE WaitFc \/ SendClosed \/ CallRecv \/ RecvClosed \/ RecvTimeout \/ CloseBus
               \/ UNCHANGED vars
    BY <2>1, <2>6
       DEF WaitFc, SendClosed, CallRecv, RecvClosed, RecvTimeout, CloseBus, vars
  <2>. QED
    BY <1>1, <2>2, <2>3, <2>4, <2>5, <2>6, StepKinds
<1>3. Complete /\ (blockSize # 0 => Counted)
  BY <1>1, <1>2 DEF Lossless, Credit
<1>4. ASSUME NEW m \in Messages, Send(m) PROVE Complete'
  BY <1>0, <1>3, <1>4, SendComplete
<1>5. CASE WaitFc \/ NextPiece \/ LastPiece
  BY <1>0, <1>3, <1>5, SenderComplete
<1>6. CASE RecvSingle
  <2>1. /\ Take /\ Incoming.type # "FF" /\ NoReply /\ rpc' # "collect" /\ buf' = <<>>
        /\ rpc # "collect"
    BY <1>6 DEF RecvSingle, Return, RecvReturns
  <2>. QED
    BY <1>0, <1>3, <2>1, TakeComplete
<1>7. CASE RecvLast
  <2>1. /\ Take /\ Incoming.type # "FF" /\ NoReply /\ rpc' # "collect" /\ buf' = <<>>
        /\ Len(More) = len
    BY <1>7 DEF RecvLast, Return, RecvReturns, Fits, IsConsecutive
  <2>2. Len(buf) + 1 = len
    BY <1>0, <2>1 DEF More, LocalTypes
  <2>. QED
    BY <1>0, <1>3, <2>1, <2>2, TakeComplete
<1>8. CASE CollectQuietly
  <2>1. /\ Take /\ Incoming.type # "FF" /\ NoReply
        /\ rpc = "collect" /\ rpc' = "collect" /\ buf' = More /\ len' = len
    BY <1>8 DEF CollectQuietly, Fits, IsConsecutive
  <2>2. Len(buf') = Len(buf) + 1
    BY <1>0, <2>1 DEF More, LocalTypes
  <2>. QED
    BY <1>0, <1>3, <2>1, <2>2, TakeComplete
<1>9. CASE BeginAndGrant \/ CollectAndGrant
  BY <1>0, <1>3, <1>9, GrantComplete
<1>10. ~(Abandon /\ (RecvFirst \/ RecvStray \/ RecvMisfit \/ RecvPiece))
  <2>1. ASSUME Abandon, RecvFirst PROVE FALSE
    BY <1>2, <2>1 DEF RecvFirst, Abandon, Fail, RecvReturns, GrantFails
  <2>2. ASSUME Take, RecvStray \/ RecvMisfit PROVE FALSE
    BY <1>0, <1>3, <2>2, FrontComplete DEF RecvStray, RecvMisfit
  <2>3. ASSUME Abandon, RecvPiece PROVE FALSE
    BY <1>2, <2>3 DEF RecvPiece, Abandon, Fail, RecvReturns, GrantFails
  <2>. QED
    BY <2>1, <2>2, <2>3 DEF Abandon
<1>11. CASE CallRecv \/ RecvClosed \/ RecvTimeout \/ CloseBus \/ UNCHANGED vars
  <2>1. ~closed' /\ ~interrupted'
    BY DEF LossFree
  <2>2. ~RecvClosed /\ ~CloseBus /\ (RecvTimeout => rpc # "collect")
    BY <1>2, <2>1 DEF RecvClosed, CloseBus, RecvTimeout
  <2>3. /\ UNCHANGED <<toRecv, toSend, spc, msg, piece, buf, len>>
        /\ rpc' = rpc \/ (rpc # "collect" /\ rpc' # "collect")
    BY <1>0, <1>11, <2>2
       DEF CallRecv, RecvTimeout, Fail, RecvReturns, vars, RecvLocals
  <2>4. InTransfer' <=> InTransfer
    BY <2>3 DEF InTransfer
  <2>. QED
    BY <1>3, <2>3, <2>4 DEF Complete, PiecesFollow, PiecesEnd, OneGrant
<1>12. ~SendClosed
  BY <1>2 DEF SendClosed
<1>. QED
  BY <1>1, <1>4, <1>5, <1>6, <1>7, <1>8, <1>9, <1>10, <1>11, <1>12, StepKinds

LEMMA InitLossless == Init => Lossless
<1>. SUFFICES ASSUME Init PROVE Complete
  BY DEF Lossless
<1>1. /\ toRecv = <<>> /\ toSend = <<>> /\ spc = "idle" /\ rpc = "idle"
      /\ Len(toRecv) = 0
  BY DEF Init
<1>2. ~InTransfer
  BY <1>1 DEF InTransfer
<1>3. 0 \in 0..Len(toRecv) /\ CfPrefix(toRecv, 0)
  BY <1>1 DEF CfPrefix
<1>4. PiecesEnd
  BY <1>1, <1>3 DEF PiecesEnd
<1>. QED
  BY <1>1, <1>2, <1>4 DEF Complete, PiecesFollow, OneGrant

\* send() waits after a full block only, and then recv() has a frame of it to
\* read, or has read it and given the next.
LEMMA NoStandstillHolds ==
  ASSUME Known, Credit, Lossless
  PROVE  NoStandstill
<1>. SUFFICES ASSUME LossFree, spc = "wait", toSend = <<>>, toRecv = <<>> PROVE FALSE
  BY DEF NoStandstill, LossFree
<1>0. QueueTypes /\ LocalTypes /\ SendLocals /\ RecvLocals
  BY DEF Known
<1>1. Complete
  BY DEF Lossless, LossFree
<1>2. InTransfer
  BY <1>1 DEF Complete, PiecesEnd
<1>3. piece > 1 /\ blockSize # 0
  BY <1>2 DEF InTransfer, Known, SendLocals
<1>4. Counted
  BY <1>3 DEF Credit, LossFree
<1>5. /\ rpc = "collect" /\ Len(buf) + Len(toRecv) = piece
  BY <1>1, <1>2 DEF Complete, PiecesFollow
<1>6. blockCount = blockSize /\ Len(buf) - cfInBlock = piece - blockCount
  BY <1>2, <1>4, <1>5 DEF Counted, BlockRuns
<1>7. cfInBlock = blockSize
  BY <1>0, <1>5, <1>6, Counts
<1>. QED
  BY <1>0, <1>3, <1>7, Counts

\* If nothing is lost, timed out or closed, send() and recv() never wait for each
\* other, whatever the block size and the lengths of the messages.
THEOREM NeverStandsStill == Spec => []NoStandstill
<1>1. Known /\ Credit /\ Lossless /\ [Next]_vars => Lossless'
  BY LosslessPreserved
<1>2. Known /\ Credit /\ Lossless => NoStandstill
  BY NoStandstillHolds
<1>. QED
  BY <1>1, <1>2, InitLossless, AlwaysCredit, PTL DEF Spec
=============================================================================
