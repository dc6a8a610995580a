---------------------------- MODULE QuicIngress ----------------------------
(***************************************************************************)
(* One QUIC stream of the server, from Netty's event loop to the session   *)
(* thread: QuicServer.QuicStreamInboundHandler (event loop side),          *)
(* QuicStreamIO.input() (session side) and SpscChunkRing between them.     *)
(*                                                                         *)
(* Two threads work without a lock.  The event loop runs one handler or    *)
(* task at a time, but its ring operations interleave with the session     *)
(* thread's, so each read or update of the queue `q` and of the counter    *)
(* `bytes` is a step of its own.  A third thread, of the common pool, puts *)
(* the end-of-input marker.                                                *)
(*                                                                         *)
(* A chunk is its number in the order in which the peer sent it; only its  *)
(* length matters besides.                                                 *)
(***************************************************************************)
EXTENDS Integers, SequencesExt

CONSTANTS
  Length,   \* Length[n]: bytes in the n-th chunk the peer sends
  Slots,    \* quicIngressRingSlots: capacity of the queue, in chunks
  High,     \* highWatermarkBytes of the ring
  EOF,      \* the end-of-input marker (compared by identity in the code)
  None      \* a null reference

Low == High \div 2            \* lowWatermarkBytes
Chunk == DOMAIN Length
Item == Chunk \union {EOF}

ASSUME LengthAssumption == Length \in Seq(Nat)
ASSUME SizeAssumption == Slots \in Nat /\ Slots >= 2 /\ High \in Nat \ {0}
ASSUME MarkerAssumption == EOF \notin Chunk /\ None \notin Item

VARIABLES
  next,      \* chunks Netty has passed to channelRead
  closing,   \* the peer, a timer or the session closed the stream
  active,    \* channelInactive has not run
  autoRead,  \* the channel's auto-read setting
  pending,   \* the chunk the full ring refused
  loop,      \* what the event loop thread is in the middle of
  tasks,     \* flushPending tasks in the event loop's queue
  q,         \* SpscChunkRing.q
  bytes,     \* SpscChunkRing.bytes
  eofTask,   \* the common pool task of endInput: none, queued or run
  reader,    \* where the session thread is in read()
  cur,       \* the item it took last
  got        \* chunks it has read so far

loopVars == <<pending, autoRead, loop>>
readerVars == <<reader, cur, got>>
vars == <<next, closing, active, autoRead, pending, loop, tasks, q, bytes,
          eofTask, reader, cur, got>>

(***************************************************************************)
(* The event loop: idle, inside SpscChunkRing.offer(chunk) on behalf of a  *)
(* handler `by`, or inside channelInactive between q.clear and the rest.   *)
(***************************************************************************)
Idle == [at |-> "idle"]
Offering == [at : {"bytes", "enqueue", "account"}, chunk : Chunk,
             by : {"channelRead", "flushPending"}]
LoopState == {Idle, [at |-> "cleared"]} \union Offering

TypeOK ==
  /\ next \in 0..Len(Length)
  /\ closing \in BOOLEAN /\ active \in BOOLEAN /\ autoRead \in BOOLEAN
  /\ pending \in Chunk \union {None}
  /\ loop \in LoopState
  /\ tasks \in Nat
  /\ q \in Seq(Item) /\ Len(q) <= Slots
  /\ bytes \in Int
  /\ eofTask \in {"none", "queued", "run"}
  /\ reader \in {"take", "took", "check", "closed"}
  /\ cur \in Item \union {None}
  /\ got \in Seq(Chunk)

Init ==
  /\ next = 0 /\ closing = FALSE /\ active = TRUE /\ autoRead = TRUE
  /\ pending = None /\ loop = Idle /\ tasks = 0
  /\ q = <<>> /\ bytes = 0 /\ eofTask = "none"
  /\ reader = "take" /\ cur = None /\ got = <<>>

-----------------------------------------------------------------------------
ItemLength(i) == IF i \in Chunk THEN Length[i] ELSE 0

\* Mutant: the limit forgets the chunk on offer.
OverHighWithoutChunk(c) == bytes > High

\* SpscChunkRing.offer's two limits, in bytes and in slots.
OverHigh(c) == bytes + Length[c] > High
RingFull == Len(q) >= Slots

\* SpscChunkRing.offer begins with q.isEmpty(): an empty queue takes any chunk.
OfferBegin(c, handler) ==
  loop' = [at |-> IF q = <<>> THEN "enqueue" ELSE "bytes", chunk |-> c, by |-> handler]

\* Mutant: channelRead keeps the refused chunk but does not stop reading.
OfferRefusedKeepsReading ==
  /\ loop' = Idle
  /\ IF loop.by = "channelRead" THEN pending' = loop.chunk ELSE UNCHANGED pending
  /\ UNCHANGED autoRead

\* offer returned false: channelRead keeps the chunk and stops reading,
\* flushPending leaves things as they are.
OfferRefused ==
  /\ loop' = Idle
  /\ IF loop.by = "channelRead"
       THEN pending' = loop.chunk /\ autoRead' = FALSE
       ELSE UNCHANGED <<pending, autoRead>>

\* offer returned true: flushPending forgets the chunk and reads again.
OfferAccepted ==
  /\ loop' = Idle
  /\ IF loop.by = "flushPending"
       THEN pending' = None /\ autoRead' = TRUE
       ELSE UNCHANGED <<pending, autoRead>>

\* channelRead(): Netty passes on the next chunk; it does so only while
\* auto-read is on.
ChannelRead ==
  /\ loop = Idle /\ active /\ autoRead /\ next < Len(Length)
  /\ next' = next + 1
  /\ OfferBegin(next + 1, "channelRead")
  /\ UNCHANGED <<closing, active, autoRead, pending, tasks, q, bytes, eofTask, readerVars>>

\* A flushPending task runs on the event loop.
FlushPending ==
  /\ loop = Idle /\ tasks > 0
  /\ tasks' = tasks - 1
  /\ IF pending = None THEN UNCHANGED loop ELSE OfferBegin(pending, "flushPending")
  /\ UNCHANGED <<next, closing, active, autoRead, pending, q, bytes, eofTask, readerVars>>

\* The byte limit of offer: bytes.get() + len > highWatermarkBytes refuses.
OfferBytes ==
  /\ loop.at = "bytes"
  /\ IF OverHigh(loop.chunk)
       THEN OfferRefused
       ELSE loop' = [loop EXCEPT !.at = "enqueue"] /\ UNCHANGED <<pending, autoRead>>
  /\ UNCHANGED <<next, closing, active, tasks, q, bytes, eofTask, readerVars>>

\* q.offer(chunk): refused when every slot is taken.
OfferEnqueue ==
  /\ loop.at = "enqueue"
  /\ IF RingFull
       THEN OfferRefused /\ UNCHANGED q
       ELSE /\ q' = Append(q, loop.chunk)
            /\ loop' = [loop EXCEPT !.at = "account"]
            /\ UNCHANGED <<pending, autoRead>>
  /\ UNCHANGED <<next, closing, active, tasks, bytes, eofTask, readerVars>>

\* bytes.addAndGet(len), after which offer returns true.
OfferAccount ==
  /\ loop.at = "account"
  /\ bytes' = bytes + Length[loop.chunk]
  /\ OfferAccepted
  /\ UNCHANGED <<next, closing, active, tasks, q, eofTask, readerVars>>

\* Mutant: channelInactive returns early when no chunk is held back.
ChannelInactiveOnlyPending ==
  /\ loop = Idle /\ closing /\ active
  /\ active' = FALSE
  /\ pending' = None
  /\ IF pending = None
       THEN UNCHANGED <<q, loop>>
       ELSE q' = <<>> /\ loop' = [at |-> "cleared"]
  /\ UNCHANGED <<next, closing, autoRead, tasks, bytes, eofTask, readerVars>>

\* channelInactive(), first half: drop the pending chunk and clear the queue.
ChannelInactive ==
  /\ loop = Idle /\ closing /\ active
  /\ active' = FALSE
  /\ pending' = None
  /\ q' = <<>>
  /\ loop' = [at |-> "cleared"]
  /\ UNCHANGED <<next, closing, autoRead, tasks, bytes, eofTask, readerVars>>

\* channelInactive(), second half: bytes.set(0), then endInput() hands the
\* marker to the common pool, once.
EndInput ==
  /\ loop.at = "cleared"
  /\ bytes' = 0
  /\ eofTask' = IF eofTask = "none" THEN "queued" ELSE eofTask
  /\ loop' = Idle
  /\ UNCHANGED <<next, closing, active, autoRead, pending, tasks, q, readerVars>>

\* The common pool runs ring.put(EOF), which waits for a free slot.
PutEof ==
  /\ eofTask = "queued" /\ ~RingFull
  /\ q' = Append(q, EOF)
  /\ eofTask' = "run"
  /\ UNCHANGED <<next, closing, active, loopVars, tasks, bytes, readerVars>>

-----------------------------------------------------------------------------
\* The session thread in read(): q.take(), which waits for an item.
Take ==
  /\ reader = "take" /\ q # <<>>
  /\ q' = Tail(q)
  /\ cur' = Head(q)
  /\ reader' = "took"
  /\ UNCHANGED <<next, closing, active, loopVars, tasks, bytes, eofTask, got>>

\* bytes.addAndGet(-len), the second half of SpscChunkRing.take().
TakeAccount ==
  /\ reader = "took"
  /\ bytes' = bytes - ItemLength(cur)
  /\ reader' = "check"
  /\ UNCHANGED <<next, closing, active, loopVars, tasks, q, eofTask, cur, got>>

\* Mutant: The marker is told apart by its length instead of its identity.
IsEofByLength(i) == ItemLength(i) = 0

IsEof(i) == i = EOF
\* Mutant: The low watermark is tested against the ring as it was before the take.
BelowLowWatermarkBeforeTake == bytes + ItemLength(cur) <= Low

BelowLowWatermark == bytes <= Low

\* read() goes on with the item: the marker ends the input, a chunk is
\* delivered; onSpace queues a flush once the ring is down to its low mark.
Deliver ==
  /\ reader = "check"
  /\ IF IsEof(cur)
       THEN reader' = "closed" /\ tasks' = tasks + 1 /\ UNCHANGED got
       ELSE /\ reader' = "take"
            /\ got' = Append(got, cur)
            /\ tasks' = IF BelowLowWatermark THEN tasks + 1 ELSE tasks
  /\ UNCHANGED <<next, closing, active, loopVars, q, bytes, eofTask, cur>>

\* The session ends between two reads (an error, or its work is done) and
\* closes the stream.
SessionEnds ==
  /\ reader = "take"
  /\ reader' = "closed"
  /\ closing' = TRUE
  /\ UNCHANGED <<next, active, loopVars, tasks, q, bytes, eofTask, cur, got>>

\* The peer or the handshake timer closes the stream at any moment.
StreamCloses ==
  /\ ~closing
  /\ closing' = TRUE
  /\ UNCHANGED <<next, active, loopVars, tasks, q, bytes, eofTask, readerVars>>

LoopStep == OfferBytes \/ OfferEnqueue \/ OfferAccount \/ EndInput
ReaderStep == Take \/ TakeAccount \/ Deliver

Next ==
  \/ ChannelRead \/ FlushPending \/ ChannelInactive \/ LoopStep
  \/ PutEof \/ ReaderStep \/ SessionEnds \/ StreamCloses

(***************************************************************************)
(* Threads that can run do run: the event loop finishes the handler it is  *)
(* in and drains its task queue, the common pool runs its task, and the    *)
(* session thread reads as long as it has not ended.  Nothing obliges the  *)
(* peer to send or to close.                                               *)
(***************************************************************************)
Fairness ==
  /\ WF_vars(LoopStep) /\ WF_vars(FlushPending) /\ WF_vars(ChannelInactive)
  /\ WF_vars(PutEof) /\ WF_vars(ReaderStep)

Spec == Init /\ [][Next]_vars /\ Fairness

-----------------------------------------------------------------------------
\* The chunk the event loop side still holds: in pending, or being offered.
InHand ==
  CASE loop.at \in {"bytes", "enqueue"} -> <<loop.chunk>>
    [] loop.at = "account" -> <<>>
    [] OTHER -> IF pending = None THEN <<>> ELSE <<pending>>

Taken == IF reader \in {"took", "check"} /\ cur \in Chunk THEN <<cur>> ELSE <<>>

\* Back-pressure loses, repeats and reorders nothing: while the channel is
\* active, what the session has read, what is in the ring and what the event
\* loop holds back are together the chunks sent so far, in order.
Conservation ==
  active => got \o Taken \o q \o InHand = [i \in 1..next |-> i]

\* Closing the stream cuts the input off at one point, without a hole before
\* it, and the session sees the end of its input only after that, never
\* because a chunk happens to be empty.
CutOff ==
  /\ got = [i \in 1..Len(got) |-> i]
  /\ reader = "closed" => closing

\* The bytes in a sequence of items.
BytesIn(s) ==
  LET sum[n \in 0..Len(s)] == IF n = 0 THEN 0 ELSE sum[n - 1] + ItemLength(s[n])
  IN  sum[Len(s)]

\* Both limits hold in spite of the unlocked counter: the ring has no more
\* chunks than slots, and with more than one chunk never holds more bytes than
\* the high watermark (a single chunk may exceed it, which is what keeps a
\* large chunk from blocking for good).
RingBounded ==
  /\ Len(q) <= Slots
  /\ Len(q) > 1 => BytesIn(q) <= High

\* No wake-up is lost (hysteresis of QuicStreamIO.read): every chunk Netty
\* passes on, however it was held back, is read, or the stream closes.
EveryChunkIsRead ==
  \A n \in Chunk : next >= n ~> (Len(got) >= n \/ closing)

\* Once the stream is closed the session thread gets the end of its input and
\* does not stay in take() for good.
CloseReachesReader == closing ~> (reader = "closed")
=============================================================================
