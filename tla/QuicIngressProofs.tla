------------------------- MODULE QuicIngressProofs -------------------------
(***************************************************************************)
(* Proofs, for any input of the peer, any number of slots and any limit,   *)
(* that the event loop and the session thread, which share the ring of a   *)
(* QUIC stream without a lock, lose, repeat and reorder nothing, that a    *)
(* close cuts the input off at one point, and that the ring stays within   *)
(* its limits of slots and bytes.                                          *)
(***************************************************************************)
EXTENDS QuicIngress, SequenceTheorems, WellFoundedInduction, TLAPS

InOffer == loop.at \in {"bytes", "enqueue", "account"}
InRead == reader \in {"took", "check"}

\* How many chunks the session thread and the event loop have in their hands.
TakenCount == IF InRead /\ cur \in Chunk THEN 1 ELSE 0
HandCount ==
  IF loop.at \in {"bytes", "enqueue"} \/ (loop.at # "account" /\ pending # None) THEN 1 ELSE 0

\* A chunk is held back only while nothing more is read from the network.  A
\* handler offers the held-back chunk or, with none held back, a new one.
HoldInv ==
  /\ InOffer => active
  /\ InOffer /\ loop.by = "flushPending" => pending = loop.chunk
  /\ InOffer /\ loop.by = "channelRead" => pending = None
  /\ pending # None => active /\ ~autoRead

\* The end of the input is in the ring, or taken, only of a stream that is no
\* longer active, and then nothing else is in the ring.
EndInv ==
  /\ ~active => closing /\ \A i \in 1 .. Len(q) : q[i] = EOF
  /\ active => loop.at # "cleared" /\ eofTask = "none" /\ \A i \in 1 .. Len(q) : q[i] \in Chunk
  /\ InRead => cur \in Item
  /\ InRead /\ cur = EOF => ~active
  /\ reader = "closed" => closing

\* What was read, what was taken, what is in the ring and what the event loop
\* has in its hands follow one another without a gap.
ReadInv ==
  /\ \A i \in 1 .. Len(got) : got[i] = i
  /\ TakenCount = 1 => cur = Len(got) + 1
RingInv ==
  active => \A i \in 1 .. Len(q) : q[i] = Len(got) + TakenCount + i
HeldInv ==
  active => /\ next = Len(got) + TakenCount + Len(q) + HandCount
            /\ loop.at \in {"bytes", "enqueue"} => loop.chunk = next
            /\ ~InOffer /\ pending # None => pending = next

OrderInv == ReadInv /\ RingInv /\ HeldInv
StreamInv == TypeOK /\ HoldInv /\ EndInv /\ OrderInv

-----------------------------------------------------------------------------
\* Chunks are numbered from 1.
LEMMA Chunks == Len(Length) \in Nat /\ Chunk = 1 .. Len(Length) /\ EOF \notin Chunk
BY LengthAssumption, MarkerAssumption DEF Chunk

\* The event loop's position.
LEMMA LoopShapes ==
  ASSUME loop \in LoopState
  PROVE  /\ InOffer => loop \in Offering
         /\ InOffer => loop.chunk \in Chunk /\ loop.by \in {"channelRead", "flushPending"}
         /\ loop.at \in {"idle", "cleared", "bytes", "enqueue", "account"}
         /\ loop.at = "idle" => loop = Idle
         /\ loop = Idle => loop.at = "idle"
BY DEF LoopState, Offering, Idle, InOffer

LEMMA StreamStarts == Init => StreamInv
<1> SUFFICES ASSUME Init PROVE StreamInv
  OBVIOUS
<1>1. q = <<>> /\ got = <<>> /\ Len(q) = 0 /\ Len(got) = 0 /\ q \in Seq(Item) /\ got \in Seq(Chunk)
  BY DEF Init
<1>2. loop = Idle /\ loop.at = "idle" /\ loop \in LoopState
  BY DEF Init, Idle, LoopState
<1>3. TypeOK
  <2>1. next \in 0 .. Len(Length) /\ tasks \in Nat /\ bytes \in Int /\ Len(q) <= Slots
    BY <1>1, Chunks, SizeAssumption DEF Init
  <2>2. closing \in BOOLEAN /\ active \in BOOLEAN /\ autoRead \in BOOLEAN
    BY DEF Init
  <2> QED BY <2>1, <2>2, <1>1, <1>2 DEF Init, TypeOK
<1>4. HoldInv /\ EndInv
  BY <1>1, <1>2 DEF Init, HoldInv, EndInv, InOffer, InRead
<1>5. TakenCount = 0 /\ HandCount = 0
  BY <1>2 DEF Init, TakenCount, HandCount, InRead
<1>6. OrderInv
  BY <1>1, <1>2, <1>5 DEF Init, OrderInv, ReadInv, RingInv, HeldInv, InOffer
<1> QED BY <1>3, <1>4, <1>6 DEF StreamInv

\* What the steps below need of the invariant.
LEMMA StreamFacts ==
  ASSUME StreamInv
  PROVE  /\ Len(got) \in Nat /\ Len(q) \in Nat /\ next \in Nat /\ TakenCount \in {0, 1} /\ HandCount \in {0, 1}
         /\ loop \in LoopState /\ q \in Seq(Item) /\ got \in Seq(Chunk)
BY LenProperties, Chunks DEF StreamInv, TypeOK, TakenCount, HandCount

-----------------------------------------------------------------------------
\* Steps of the event loop.

\* Netty passes on a chunk.
LEMMA ChannelReadKeeps == ASSUME StreamInv, ChannelRead PROVE StreamInv'
<1>f. /\ Len(got) \in Nat /\ Len(q) \in Nat /\ next \in Nat /\ TakenCount \in {0, 1} /\ HandCount \in {0, 1}
      /\ loop.at = "idle" /\ next < Len(Length) /\ active /\ autoRead /\ pending = None
  BY StreamFacts, LoopShapes DEF ChannelRead, StreamInv, HoldInv
<1>1. next + 1 \in Chunk
  BY <1>f, Chunks
<1>2. /\ loop' \in Offering /\ loop'.at \in {"bytes", "enqueue"}
      /\ loop'.chunk = next + 1 /\ loop'.by = "channelRead" /\ loop' \in LoopState
  BY <1>1 DEF ChannelRead, OfferBegin, Offering, LoopState
<1>3. next' = next + 1 /\ UNCHANGED <<closing, active, autoRead, pending, tasks, q, bytes, eofTask, reader, cur, got>>
  BY DEF ChannelRead, readerVars
<1>4. TypeOK'
  BY <1>f, <1>2, <1>3, Chunks DEF StreamInv, TypeOK
<1>5. HoldInv' /\ EndInv'
  BY <1>f, <1>2, <1>3 DEF StreamInv, HoldInv, EndInv, InOffer, InRead
<1>6. TakenCount' = TakenCount /\ HandCount = 0 /\ HandCount' = 1
  BY <1>f, <1>2, <1>3 DEF TakenCount, HandCount, InRead
<1>7. OrderInv'
  BY <1>f, <1>2, <1>3, <1>6 DEF StreamInv, OrderInv, ReadInv, RingInv, HeldInv, InOffer
<1> QED BY <1>4, <1>5, <1>7 DEF StreamInv

LEMMA FlushKeeps == ASSUME StreamInv, FlushPending PROVE StreamInv'
<1>f. /\ Len(got) \in Nat /\ Len(q) \in Nat /\ next \in Nat /\ TakenCount \in {0, 1} /\ HandCount \in {0, 1}
      /\ loop.at = "idle" /\ loop \in LoopState
  BY StreamFacts, LoopShapes DEF FlushPending
<1>1. tasks' \in Nat /\ UNCHANGED <<next, closing, active, autoRead, pending, q, bytes, eofTask, reader, cur, got>>
  BY DEF FlushPending, readerVars, StreamInv, TypeOK
<1>2. CASE pending = None
  <2>1. loop' = loop
    BY <1>2 DEF FlushPending
  <2>2. TypeOK' /\ HoldInv' /\ EndInv'
    BY <2>1, <1>1 DEF StreamInv, TypeOK, HoldInv, EndInv, InOffer, InRead
  <2>3. OrderInv'
    BY <2>1, <1>1 DEF StreamInv, OrderInv, ReadInv, RingInv, HeldInv, TakenCount, HandCount, InOffer, InRead
  <2> QED BY <2>2, <2>3 DEF StreamInv
<1>3. CASE pending # None
  <2>1. pending \in Chunk /\ active /\ ~autoRead
    BY <1>3 DEF StreamInv, TypeOK, HoldInv
  <2>2. /\ loop' \in Offering /\ loop'.at \in {"bytes", "enqueue"}
        /\ loop'.chunk = pending /\ loop'.by = "flushPending" /\ loop' \in LoopState
    BY <1>3, <2>1 DEF FlushPending, OfferBegin, Offering, LoopState
  <2>3. TypeOK'
    BY <1>1, <2>2 DEF StreamInv, TypeOK
  <2>4. HoldInv' /\ EndInv'
    BY <1>1, <2>1, <2>2 DEF StreamInv, HoldInv, EndInv, InOffer, InRead
  <2>5. TakenCount' = TakenCount /\ HandCount = 1 /\ HandCount' = 1
    BY <1>f, <1>1, <1>3, <2>2 DEF TakenCount, HandCount, InRead
  <2>6. OrderInv'
    BY <1>f, <1>1, <1>3, <2>1, <2>2, <2>5 DEF StreamInv, OrderInv, ReadInv, RingInv, HeldInv, InOffer
  <2> QED BY <2>3, <2>4, <2>6 DEF StreamInv
<1> QED BY <1>2, <1>3

\* The ring refuses a chunk: the handler still has it.
LEMMA RefusedKeeps ==
  ASSUME StreamInv, loop.at \in {"bytes", "enqueue"}, OfferRefused,
         UNCHANGED <<next, closing, active, tasks, q, bytes, eofTask, readerVars>>
  PROVE  StreamInv'
<1>f. /\ Len(got) \in Nat /\ Len(q) \in Nat /\ next \in Nat /\ TakenCount \in {0, 1} /\ HandCount \in {0, 1}
      /\ loop.chunk \in Chunk /\ loop.by \in {"channelRead", "flushPending"} /\ active
  BY StreamFacts, LoopShapes DEF StreamInv, HoldInv, InOffer
<1>1. UNCHANGED <<next, closing, active, tasks, q, bytes, eofTask, reader, cur, got>>
  BY DEF readerVars
<1>2. loop' = Idle /\ loop'.at = "idle" /\ loop' \in LoopState
  BY DEF OfferRefused, Idle, LoopState
<1>h. loop.chunk # None /\ (loop.by = "flushPending" => pending = loop.chunk)
  BY <1>f, MarkerAssumption DEF Item, StreamInv, HoldInv, InOffer
<1>3. pending' = loop.chunk /\ ~autoRead' /\ autoRead' \in BOOLEAN
  <2>1. CASE loop.by = "channelRead"
    BY <2>1 DEF OfferRefused
  <2>2. CASE loop.by = "flushPending"
    <3>1. UNCHANGED <<pending, autoRead>>
      BY <2>2 DEF OfferRefused
    <3>2. ~autoRead /\ autoRead \in BOOLEAN
      BY <2>2, <1>h DEF StreamInv, HoldInv, TypeOK
    <3> QED BY <3>1, <3>2, <2>2, <1>h
  <2> QED BY <2>1, <2>2, <1>f
<1>4. TypeOK'
  BY <1>f, <1>1, <1>2, <1>3 DEF StreamInv, TypeOK
<1>5. HoldInv' /\ EndInv'
  BY <1>f, <1>1, <1>2, <1>3 DEF StreamInv, HoldInv, EndInv, InOffer, InRead
<1>6. TakenCount' = TakenCount /\ HandCount = 1 /\ HandCount' = 1
  BY <1>f, <1>1, <1>2, <1>3, MarkerAssumption DEF TakenCount, HandCount, InRead, Item
<1>7. OrderInv'
  BY <1>f, <1>1, <1>2, <1>3, <1>6 DEF StreamInv, OrderInv, ReadInv, RingInv, HeldInv, InOffer
<1> QED BY <1>4, <1>5, <1>7 DEF StreamInv

LEMMA BytesKeeps == ASSUME StreamInv, OfferBytes PROVE StreamInv'
<1>1. CASE OfferRefused
  BY <1>1, RefusedKeeps DEF OfferBytes
<1>2. CASE loop' = [loop EXCEPT !.at = "enqueue"] /\ UNCHANGED <<pending, autoRead>>
  <2>1. UNCHANGED <<next, closing, active, autoRead, pending, tasks, q, bytes, eofTask, reader, cur, got>>
    BY <1>2 DEF OfferBytes, readerVars
  <2>2. loop.at = "bytes" /\ loop \in Offering
    BY StreamFacts, LoopShapes DEF OfferBytes, InOffer
  <2>3. /\ loop' \in Offering /\ loop'.at = "enqueue" /\ loop'.chunk = loop.chunk /\ loop'.by = loop.by
        /\ loop' \in LoopState
    BY <1>2, <2>2 DEF Offering, LoopState
  <2>4. TypeOK'
    BY <2>1, <2>3 DEF StreamInv, TypeOK
  <2>5. HoldInv' /\ EndInv'
    BY <2>1, <2>2, <2>3 DEF StreamInv, HoldInv, EndInv, InOffer, InRead
  <2>6. TakenCount' = TakenCount /\ HandCount' = HandCount
    BY <2>1, <2>2, <2>3 DEF TakenCount, HandCount, InRead
  <2>7. OrderInv'
    BY <2>1, <2>2, <2>3, <2>6 DEF StreamInv, OrderInv, ReadInv, RingInv, HeldInv, InOffer
  <2> QED BY <2>4, <2>5, <2>7 DEF StreamInv
<1> QED BY <1>1, <1>2 DEF OfferBytes

\* The chunk goes to the end of the ring.
LEMMA EnqueueKeeps == ASSUME StreamInv, OfferEnqueue PROVE StreamInv'
<1>f. /\ Len(got) \in Nat /\ Len(q) \in Nat /\ next \in Nat /\ TakenCount \in {0, 1} /\ HandCount \in {0, 1}
      /\ loop.at = "enqueue" /\ loop \in Offering /\ loop.chunk \in Chunk /\ active /\ q \in Seq(Item)
  BY StreamFacts, LoopShapes DEF OfferEnqueue, StreamInv, HoldInv, InOffer
<1>1. CASE OfferRefused /\ UNCHANGED q
  BY <1>1, <1>f, RefusedKeeps DEF OfferEnqueue
<1>2. CASE /\ ~RingFull /\ q' = Append(q, loop.chunk) /\ loop' = [loop EXCEPT !.at = "account"]
           /\ UNCHANGED <<pending, autoRead>>
  <2>1. UNCHANGED <<next, closing, active, autoRead, pending, tasks, bytes, eofTask, reader, cur, got>>
    BY <1>2 DEF OfferEnqueue, readerVars
  <2>2. /\ loop' \in Offering /\ loop'.at = "account" /\ loop'.chunk = loop.chunk /\ loop'.by = loop.by
        /\ loop' \in LoopState
    BY <1>2, <1>f DEF Offering, LoopState
  <2>3. /\ q' \in Seq(Item) /\ Len(q') = Len(q) + 1 /\ q'[Len(q) + 1] = loop.chunk
        /\ \A i \in 1 .. Len(q) : q'[i] = q[i]
    BY <1>2, <1>f, AppendProperties DEF Item
  <2>4. TypeOK'
    <3>1. Len(q') <= Slots
      BY <1>2, <1>f, <2>3, SizeAssumption DEF RingFull
    <3> QED BY <2>1, <2>2, <2>3, <3>1 DEF StreamInv, TypeOK
  <2>5. HoldInv'
    BY <1>f, <2>1, <2>2 DEF StreamInv, HoldInv, InOffer
  <2>6. EndInv'
    <3>1. \A i \in 1 .. Len(q') : q'[i] \in Chunk
      BY <1>f, <2>3 DEF StreamInv, EndInv
    <3> QED BY <1>f, <2>1, <2>2, <3>1 DEF StreamInv, EndInv, InRead
  <2>7. TakenCount' = TakenCount /\ HandCount = 1 /\ HandCount' = 0
    BY <1>f, <2>1, <2>2 DEF TakenCount, HandCount, InRead
  <2>8. OrderInv'
    <3>1. next = Len(got) + TakenCount + Len(q) + 1 /\ loop.chunk = next
      BY <1>f, <2>7 DEF StreamInv, OrderInv, HeldInv
    <3>2. RingInv'
      <4> SUFFICES ASSUME NEW i \in 1 .. Len(q') PROVE q'[i] = Len(got) + TakenCount + i
        BY <2>1, <2>7 DEF RingInv
      <4>1. CASE i \in 1 .. Len(q)
        BY <4>1, <1>f, <2>3 DEF StreamInv, OrderInv, RingInv
      <4>2. CASE i = Len(q) + 1
        BY <4>2, <1>f, <2>3, <3>1
      <4> QED BY <4>1, <4>2, <1>f, <2>3
    <3>3. HeldInv'
      BY <1>f, <2>1, <2>2, <2>3, <2>7, <3>1 DEF HeldInv, InOffer
    <3>4. ReadInv'
      BY <2>1, <2>7 DEF StreamInv, OrderInv, ReadInv
    <3> QED BY <3>2, <3>3, <3>4 DEF OrderInv
  <2> QED BY <2>4, <2>5, <2>6, <2>8 DEF StreamInv
<1> QED BY <1>1, <1>2 DEF OfferEnqueue

\* The offer is over: a chunk that was held back is no longer.
LEMMA AccountKeeps == ASSUME StreamInv, OfferAccount PROVE StreamInv'
<1>f. /\ Len(got) \in Nat /\ Len(q) \in Nat /\ next \in Nat /\ TakenCount \in {0, 1}
      /\ loop.at = "account" /\ loop.chunk \in Chunk /\ loop.by \in {"channelRead", "flushPending"} /\ active
  BY StreamFacts, LoopShapes DEF OfferAccount, StreamInv, HoldInv, InOffer
<1>1. UNCHANGED <<next, closing, active, tasks, q, eofTask, reader, cur, got>>
  BY DEF OfferAccount, readerVars
<1>2. loop' = Idle /\ loop'.at = "idle" /\ loop' \in LoopState
  BY DEF OfferAccount, OfferAccepted, Idle, LoopState
<1>3. pending' = None
  BY <1>f DEF OfferAccount, OfferAccepted, StreamInv, HoldInv, InOffer
<1>4. autoRead' \in BOOLEAN
  BY DEF OfferAccount, OfferAccepted, StreamInv, TypeOK
<1>5. bytes' \in Int
  <2>1. Length[loop.chunk] \in Nat /\ bytes \in Int
    BY <1>f, Chunks, LengthAssumption DEF StreamInv, TypeOK
  <2> QED BY <2>1 DEF OfferAccount
<1>6. TypeOK'
  BY <1>1, <1>2, <1>3, <1>4, <1>5 DEF StreamInv, TypeOK
<1>7. HoldInv' /\ EndInv'
  BY <1>f, <1>1, <1>2, <1>3 DEF StreamInv, HoldInv, EndInv, InOffer, InRead
<1>8. TakenCount' = TakenCount /\ HandCount = 0 /\ HandCount' = 0
  BY <1>f, <1>1, <1>2, <1>3 DEF TakenCount, HandCount, InRead
<1>9. OrderInv'
  BY <1>f, <1>1, <1>2, <1>3, <1>8 DEF StreamInv, OrderInv, ReadInv, RingInv, HeldInv, InOffer
<1> QED BY <1>6, <1>7, <1>9 DEF StreamInv

LEMMA InactiveKeeps == ASSUME StreamInv, ChannelInactive PROVE StreamInv'
<1>1. /\ ~active' /\ active' \in BOOLEAN /\ pending' = None /\ q' = <<>> /\ closing
      /\ UNCHANGED <<next, closing, autoRead, tasks, bytes, eofTask, reader, cur, got>>
  BY DEF ChannelInactive, readerVars
<1>2. loop'.at = "cleared" /\ loop' \in LoopState
  BY DEF ChannelInactive, LoopState
<1>3. Len(q') = 0 /\ q' \in Seq(Item)
  BY <1>1
<1>4. TypeOK'
  <2>1. Len(q') <= Slots
    BY <1>3, SizeAssumption
  <2> QED BY <2>1, <1>1, <1>2, <1>3 DEF StreamInv, TypeOK
<1>5. HoldInv' /\ EndInv'
  BY <1>1, <1>2, <1>3 DEF StreamInv, HoldInv, EndInv, InOffer, InRead
<1>6. OrderInv'
  BY <1>1 DEF StreamInv, OrderInv, ReadInv, RingInv, HeldInv, TakenCount, InRead
<1> QED BY <1>4, <1>5, <1>6 DEF StreamInv

LEMMA EndInputKeeps == ASSUME StreamInv, EndInput PROVE StreamInv'
<1>1. /\ UNCHANGED <<next, closing, active, autoRead, pending, tasks, q, reader, cur, got>>
      /\ bytes' \in Int /\ eofTask' \in {"none", "queued", "run"}
  BY DEF EndInput, readerVars, StreamInv, TypeOK
<1>2. loop' = Idle /\ loop'.at = "idle" /\ loop' \in LoopState /\ ~active
  BY DEF EndInput, Idle, LoopState, StreamInv, EndInv
<1>3. TypeOK'
  BY <1>1, <1>2 DEF StreamInv, TypeOK
<1>4. HoldInv' /\ EndInv'
  BY <1>1, <1>2 DEF StreamInv, HoldInv, EndInv, InOffer, InRead
<1>5. OrderInv'
  BY <1>1, <1>2 DEF StreamInv, OrderInv, ReadInv, RingInv, HeldInv, TakenCount, InRead
<1> QED BY <1>3, <1>4, <1>5 DEF StreamInv

-----------------------------------------------------------------------------
\* The common pool and the session thread.

LEMMA PutEofKeeps == ASSUME StreamInv, PutEof PROVE StreamInv'
<1>1. /\ UNCHANGED <<next, closing, active, pending, autoRead, loop, tasks, bytes, reader, cur, got>>
      /\ eofTask' = "run" /\ q' = Append(q, EOF) /\ ~RingFull /\ ~active
  BY DEF PutEof, readerVars, loopVars, StreamInv, EndInv
<1>2. Len(q) \in Nat /\ q \in Seq(Item)
  BY StreamFacts
<1>3. /\ q' \in Seq(Item) /\ Len(q') = Len(q) + 1 /\ q'[Len(q) + 1] = EOF
      /\ \A i \in 1 .. Len(q) : q'[i] = q[i]
  BY <1>1, <1>2, AppendProperties DEF Item
<1>4. TypeOK'
  <2>1. Len(q') <= Slots
    BY <1>1, <1>2, <1>3, SizeAssumption DEF RingFull
  <2> QED BY <2>1, <1>1, <1>3 DEF StreamInv, TypeOK
<1>5. HoldInv'
  BY <1>1 DEF StreamInv, HoldInv, InOffer
<1>6. EndInv'
  <2>1. \A i \in 1 .. Len(q') : q'[i] = EOF
    BY <1>1, <1>2, <1>3 DEF StreamInv, EndInv
  <2> QED BY <2>1, <1>1 DEF StreamInv, EndInv, InRead
<1>7. OrderInv'
  BY <1>1 DEF StreamInv, OrderInv, ReadInv, RingInv, HeldInv, TakenCount, InRead
<1> QED BY <1>4, <1>5, <1>6, <1>7 DEF StreamInv

\* The first item of the ring is in the session thread's hand.
LEMMA TakeKeeps == ASSUME StreamInv, Take PROVE StreamInv'
<1>1. /\ UNCHANGED <<next, closing, active, pending, autoRead, loop, tasks, bytes, eofTask, got>>
      /\ q # <<>> /\ q' = Tail(q) /\ cur' = Head(q) /\ reader = "take" /\ reader' = "took"
  BY DEF Take, loopVars
<1>2. Len(q) \in Nat /\ Len(got) \in Nat /\ next \in Nat /\ HandCount \in {0, 1} /\ q \in Seq(Item)
  BY StreamFacts
<1>3. /\ q' \in Seq(Item) /\ Len(q') = Len(q) - 1 /\ Len(q) > 0 /\ cur' \in Item /\ cur' = q[1]
      /\ \A i \in 1 .. Len(q') : q'[i] = q[i + 1]
  <2>1. Len(q) > 0
    BY <1>1, <1>2, EmptySeq
  <2>2. Head(q) = q[1]
    BY <1>2
  <2> QED BY <1>1, <1>2, <2>1, <2>2, HeadTailProperties
<1>4. TypeOK'
  <2>1. Len(q') <= Slots
    BY <1>2, <1>3, SizeAssumption DEF StreamInv, TypeOK
  <2> QED BY <2>1, <1>1, <1>3 DEF StreamInv, TypeOK
<1>5. HoldInv'
  BY <1>1 DEF StreamInv, HoldInv, InOffer
<1>6. EndInv'
  <2>1. \A i \in 1 .. Len(q') : i + 1 \in 1 .. Len(q) /\ q'[i] = q[i + 1]
    BY <1>2, <1>3
  <2>2. 1 \in 1 .. Len(q)
    BY <1>2, <1>3
  <2> QED BY <2>1, <2>2, <1>1, <1>3, Chunks DEF StreamInv, EndInv, InRead
<1>7. TakenCount = 0 /\ HandCount' = HandCount /\ (active => TakenCount' = 1)
  BY <1>1, <1>2, <1>3 DEF TakenCount, HandCount, InRead, StreamInv, EndInv
<1>8. ReadInv'
  <2>1. CASE active
    <3>1. q[1] = Len(got) + TakenCount + 1
      BY <2>1, <1>2, <1>3 DEF StreamInv, OrderInv, RingInv
    <3> QED BY <3>1, <1>1, <1>2, <1>3, <1>7 DEF StreamInv, OrderInv, ReadInv
  <2>2. CASE ~active
    <3>1. cur' = EOF
      BY <2>2, <1>2, <1>3 DEF StreamInv, EndInv
    <3>2. TakenCount' = 0
      BY <3>1, Chunks DEF TakenCount
    <3> QED BY <3>2, <1>1 DEF StreamInv, OrderInv, ReadInv
  <2> QED BY <2>1, <2>2
<1>9. RingInv'
  <2> SUFFICES ASSUME active, NEW i \in 1 .. Len(q') PROVE q'[i] = Len(got) + TakenCount' + i
    BY <1>1 DEF RingInv
  <2>1. i + 1 \in 1 .. Len(q)
    BY <1>2, <1>3
  <2>2. q[i + 1] = Len(got) + TakenCount + (i + 1)
    BY <2>1 DEF StreamInv, OrderInv, RingInv
  <2> QED BY <2>2, <1>2, <1>3, <1>7
<1>10. HeldInv'
  BY <1>1, <1>2, <1>3, <1>7 DEF StreamInv, OrderInv, HeldInv, InOffer
<1> QED BY <1>4, <1>5, <1>6, <1>8, <1>9, <1>10 DEF StreamInv, OrderInv

LEMMA TakeAccountKeeps == ASSUME StreamInv, TakeAccount PROVE StreamInv'
<1>1. /\ UNCHANGED <<next, closing, active, pending, autoRead, loop, tasks, q, eofTask, cur, got>>
      /\ reader = "took" /\ reader' = "check"
  BY DEF TakeAccount, loopVars
<1>2. bytes' \in Int
  <2>1. ItemLength(cur) \in Nat
    BY Chunks, LengthAssumption DEF ItemLength
  <2>2. bytes \in Int
    BY DEF StreamInv, TypeOK
  <2> QED BY <2>1, <2>2 DEF TakeAccount
<1>3. TypeOK'
  BY <1>1, <1>2 DEF StreamInv, TypeOK
<1>4. HoldInv' /\ EndInv'
  BY <1>1 DEF StreamInv, HoldInv, EndInv, InOffer, InRead
<1>5. TakenCount' = TakenCount /\ HandCount' = HandCount
  BY <1>1 DEF TakenCount, HandCount, InRead
<1>6. OrderInv'
  BY <1>1, <1>5 DEF StreamInv, OrderInv, ReadInv, RingInv, HeldInv, InOffer
<1> QED BY <1>3, <1>4, <1>6 DEF StreamInv

\* The marker ends the input, a chunk is read.
LEMMA DeliverKeeps == ASSUME StreamInv, Deliver PROVE StreamInv'
<1>1. /\ UNCHANGED <<next, closing, active, pending, autoRead, loop, q, bytes, eofTask, cur>>
      /\ reader = "check"
  BY DEF Deliver, loopVars
<1>2. /\ Len(q) \in Nat /\ Len(got) \in Nat /\ next \in Nat /\ HandCount \in {0, 1} /\ got \in Seq(Chunk)
      /\ cur \in Item /\ tasks' \in Nat /\ HandCount' = HandCount
  <2>1. tasks' \in Nat
    BY DEF Deliver, StreamInv, TypeOK
  <2>2. cur \in Item
    BY <1>1 DEF StreamInv, EndInv, InRead
  <2>3. HandCount' = HandCount
    BY <1>1 DEF HandCount
  <2> QED BY <2>1, <2>2, <2>3, StreamFacts
<1>3. CASE cur = EOF
  <2>1. reader' = "closed" /\ got' = got /\ ~active /\ closing
    BY <1>1, <1>3 DEF Deliver, IsEof, StreamInv, EndInv, InRead
  <2>2. TypeOK'
    BY <1>1, <1>2, <2>1 DEF StreamInv, TypeOK
  <2>3. HoldInv' /\ EndInv'
    BY <1>1, <2>1 DEF StreamInv, HoldInv, EndInv, InOffer, InRead
  <2>4. OrderInv'
    BY <1>1, <2>1 DEF StreamInv, OrderInv, ReadInv, RingInv, HeldInv, TakenCount, InRead
  <2> QED BY <2>2, <2>3, <2>4 DEF StreamInv
<1>4. CASE cur # EOF
  <2>1. reader' = "take" /\ got' = Append(got, cur) /\ cur \in Chunk
    BY <1>1, <1>2, <1>4 DEF Deliver, IsEof, Item
  <2>2. TakenCount = 1 /\ TakenCount' = 0
    BY <1>1, <2>1 DEF TakenCount, InRead
  <2>3. /\ got' \in Seq(Chunk) /\ Len(got') = Len(got) + 1 /\ got'[Len(got) + 1] = cur
        /\ \A i \in 1 .. Len(got) : got'[i] = got[i]
    BY <2>1, <1>2, AppendProperties
  <2>4. TypeOK'
    BY <1>1, <1>2, <2>1, <2>3 DEF StreamInv, TypeOK
  <2>5. HoldInv' /\ EndInv'
    BY <1>1, <2>1 DEF StreamInv, HoldInv, EndInv, InOffer, InRead
  <2>6. ReadInv'
    BY <1>2, <2>2, <2>3 DEF StreamInv, OrderInv, ReadInv
  <2>7. RingInv' /\ HeldInv'
    BY <1>1, <1>2, <2>2, <2>3 DEF StreamInv, OrderInv, RingInv, HeldInv, InOffer
  <2> QED BY <2>4, <2>5, <2>6, <2>7 DEF StreamInv, OrderInv
<1> QED BY <1>3, <1>4

LEMMA CloseKeeps == ASSUME StreamInv, SessionEnds \/ StreamCloses \/ UNCHANGED vars PROVE StreamInv'
<1>1. /\ UNCHANGED <<next, active, pending, autoRead, loop, tasks, q, bytes, eofTask, cur, got>>
      /\ (closing' = TRUE \/ closing' = closing)
      /\ reader' = reader \/ (reader = "take" /\ reader' = "closed" /\ closing' = TRUE)
  BY DEF SessionEnds, StreamCloses, vars, loopVars, readerVars
<1>2. TypeOK'
  BY <1>1 DEF StreamInv, TypeOK
<1>3. HoldInv' /\ EndInv'
  BY <1>1 DEF StreamInv, HoldInv, EndInv, InOffer, InRead
<1>4. TakenCount' = TakenCount /\ HandCount' = HandCount
  BY <1>1 DEF TakenCount, HandCount, InRead
<1>5. OrderInv'
  BY <1>1, <1>4 DEF StreamInv, OrderInv, ReadInv, RingInv, HeldInv, InOffer
<1> QED BY <1>2, <1>3, <1>5 DEF StreamInv

-----------------------------------------------------------------------------
\* Every step preserves the invariant.
LEMMA StreamStep == StreamInv /\ [Next]_vars => StreamInv'
BY ChannelReadKeeps, FlushKeeps, BytesKeeps, EnqueueKeeps, AccountKeeps, InactiveKeeps, EndInputKeeps,
     PutEofKeeps, TakeKeeps, TakeAccountKeeps, DeliverKeeps, CloseKeeps DEF Next, LoopStep, ReaderStep

\* The inductive invariant.  Conservation alone is not one: that a refused chunk
\* is not overtaken rests on HoldInv (nothing is read while one is held back),
\* and that a close leaves no hole on EndInv.
THEOREM StreamInvariant == Spec => []StreamInv
BY StreamStarts, StreamStep, PTL DEF Spec

\* Closing a QUIC stream, from either side and in any state of the handlers,
\* cuts its input off at one point, and the session sees the end only after the
\* close (QuicStreamIO.read, QuicStreamInboundHandler.channelInactive).
THEOREM ClosesCutOff == Spec => []CutOff
<1>1. StreamInv => CutOff
  <2> SUFFICES ASSUME StreamInv PROVE CutOff
    OBVIOUS
  <2>1. got \in Seq(Chunk) /\ \A i \in 1 .. Len(got) : got[i] = i
    BY DEF StreamInv, TypeOK, OrderInv, ReadInv
  <2>2. got = [i \in 1 .. Len(got) |-> i]
    BY <2>1
  <2> QED BY <2>2 DEF CutOff, StreamInv, EndInv
<1> QED BY <1>1, StreamInvariant, PTL

\* Back-pressure loses, repeats and reorders nothing, whatever the peer sends
\* and however the two threads' unlocked steps interleave (SpscChunkRing.offer,
\* take; QuicStreamInboundHandler.channelRead, flushPending).
THEOREM NothingLost == Spec => []Conservation
<1>1. StreamInv => Conservation
  <2> SUFFICES ASSUME StreamInv, active
               PROVE  got \o Taken \o q \o InHand = [i \in 1 .. next |-> i]
    BY DEF Conservation
  <2>f. /\ Len(got) \in Nat /\ Len(q) \in Nat /\ next \in Nat /\ q \in Seq(Item) /\ got \in Seq(Item)
        /\ loop \in LoopState
    BY StreamFacts, SeqMonotonic DEF Item
  <2>1. Taken \in Seq(Item) /\ Len(Taken) = TakenCount /\ (TakenCount = 1 => Taken[1] = cur) /\ TakenCount \in {0, 1}
    <3>1. CASE InRead /\ cur \in Chunk
      <4>1. Taken = <<cur>> /\ TakenCount = 1 /\ cur \in Item
        BY <3>1 DEF Taken, TakenCount, InRead, Item
      <4> QED BY <4>1
    <3>2. CASE ~(InRead /\ cur \in Chunk)
      <4>1. Taken = <<>> /\ TakenCount = 0
        BY <3>2 DEF Taken, TakenCount, InRead
      <4> QED BY <4>1
    <3> QED BY <3>1, <3>2
  <2>2. /\ InHand \in Seq(Item) /\ Len(InHand) = HandCount /\ HandCount \in {0, 1}
        /\ HandCount = 1 => InHand[1] = next
    <3>1. CASE loop.at \in {"bytes", "enqueue"}
      <4>1. loop.chunk \in Item /\ loop.chunk = next
        BY <3>1, <2>f, LoopShapes DEF InOffer, Item, StreamInv, OrderInv, HeldInv
      <4>2. InHand = <<loop.chunk>> /\ HandCount = 1
        BY <3>1 DEF InHand, HandCount
      <4> QED BY <4>1, <4>2
    <3>2. CASE loop.at = "account"
      <4>1. InHand = <<>> /\ HandCount = 0
        BY <3>2 DEF InHand, HandCount
      <4> QED BY <4>1
    <3>3. CASE loop.at \notin {"bytes", "enqueue", "account"}
      <4>1. CASE pending = None
        <5>1. InHand = <<>> /\ HandCount = 0
          BY <3>3, <4>1 DEF InHand, HandCount
        <5> QED BY <5>1
      <4>2. CASE pending # None
        <5>1. InHand = <<pending>> /\ HandCount = 1
          BY <3>3, <4>2 DEF InHand, HandCount
        <5>2. pending \in Item /\ pending = next
          BY <3>3, <4>2 DEF InOffer, Item, StreamInv, TypeOK, OrderInv, HeldInv
        <5> QED BY <5>1, <5>2
      <4> QED BY <4>1, <4>2
    <3> QED BY <3>1, <3>2, <3>3
  <2> DEFINE a == got \o Taken
             b == a \o q
             c == b \o InHand
  <2>3. a \in Seq(Item) /\ Len(a) = Len(got) + TakenCount /\ \A i \in 1 .. Len(a) : a[i] = i
    <3>1. /\ a \in Seq(Item) /\ Len(a) = Len(got) + Len(Taken)
          /\ \A i \in 1 .. Len(got) + Len(Taken) : a[i] = IF i <= Len(got) THEN got[i] ELSE Taken[i - Len(got)]
      BY <2>f, <2>1, ConcatProperties
    <3> HIDE DEF a
    <3>2. \A i \in 1 .. Len(got) : got[i] = i
      BY DEF StreamInv, OrderInv, ReadInv
    <3>3. TakenCount = 1 => cur = Len(got) + 1
      BY DEF StreamInv, OrderInv, ReadInv
    <3> QED BY <3>1, <3>2, <3>3, <2>f, <2>1
  <2> HIDE DEF a
  <2>4. b \in Seq(Item) /\ Len(b) = Len(a) + Len(q) /\ \A i \in 1 .. Len(b) : b[i] = i
    <3>1. /\ b \in Seq(Item) /\ Len(b) = Len(a) + Len(q)
          /\ \A i \in 1 .. Len(a) + Len(q) : b[i] = IF i <= Len(a) THEN a[i] ELSE q[i - Len(a)]
      BY <2>f, <2>3, ConcatProperties
    <3> HIDE DEF b
    <3>2. \A i \in 1 .. Len(q) : q[i] = Len(a) + i
      BY <2>3 DEF StreamInv, OrderInv, RingInv
    <3>3. ASSUME NEW i \in 1 .. Len(b) PROVE b[i] = i
      <4>1. CASE i <= Len(a)
        BY <4>1, <3>1, <2>f, <2>1, <2>3
      <4>2. CASE i > Len(a)
        <5>1. i - Len(a) \in 1 .. Len(q) /\ Len(a) \in Nat
          BY <4>2, <3>1, <2>f, <2>1, <2>3
        <5>2. q[i - Len(a)] = Len(a) + (i - Len(a))
          BY <5>1, <3>2
        <5> QED BY <4>2, <5>1, <5>2, <3>1
      <4> QED BY <4>1, <4>2, <2>f, <2>1, <2>3
    <3> QED BY <3>1, <3>3
  <2> HIDE DEF b
  <2>5. c \in Seq(Item) /\ Len(c) = next /\ \A i \in 1 .. Len(c) : c[i] = i
    <3>1. /\ c \in Seq(Item) /\ Len(c) = Len(b) + Len(InHand)
          /\ \A i \in 1 .. Len(b) + Len(InHand) : c[i] = IF i <= Len(b) THEN b[i] ELSE InHand[i - Len(b)]
      BY <2>2, <2>4, ConcatProperties
    <3> HIDE DEF c
    <3>2. next = Len(got) + TakenCount + Len(q) + HandCount
      BY DEF StreamInv, OrderInv, HeldInv
    <3> QED BY <3>1, <3>2, <2>f, <2>1, <2>2, <2>3, <2>4
  <2> HIDE DEF c
  <2>6. c = [i \in 1 .. next |-> i]
    BY <2>5, <2>f
  <2> QED BY <2>6 DEF c, b, a
<1> QED BY <1>1, StreamInvariant, PTL

-----------------------------------------------------------------------------
\* Sums over the ring.

\* A set of naturals has a least one.
LEMMA LeastNatural ==
  ASSUME NEW T \in SUBSET Nat, T # {}
  PROVE  \E x \in T : \A y \in T : x <= y
<1> DEFINE R == {ss \in Nat \X Nat : ss[1] < ss[2]}
<1>1. IsWellFoundedOn(R, Nat)
  BY NatLessThanWellFounded DEF OpToRel
<1> HIDE DEF R
<1>2. PICK x \in T : \A y \in T : <<y, x>> \notin R
  BY <1>1, WFMin
<1>3. ASSUME NEW y \in T PROVE x <= y
  <2>1. <<y, x>> \notin R /\ x \in Nat /\ y \in Nat
    BY <1>2
  <2> QED BY <2>1 DEF R
<1> QED BY <1>3

\* Induction, for a set in place of a predicate.
LEMMA InductionOnSet ==
  ASSUME NEW S, 0 \in S, \A n \in Nat : n \in S => n + 1 \in S
  PROVE  Nat \subseteq S
<1> SUFFICES ASSUME NEW k \in Nat, k \notin S PROVE FALSE
  OBVIOUS
<1> DEFINE T == {n \in Nat : n \notin S}
<1>1. T \in SUBSET Nat /\ T # {}
  OBVIOUS
<1> HIDE DEF T
<1>2. PICK x \in T : \A y \in T : x <= y
  BY <1>1, LeastNatural
<1> USE DEF T
<1>3. x \in Nat /\ x # 0 /\ x \notin S
  BY <1>2
<1>4. x - 1 \in Nat /\ ~(x <= x - 1)
  BY <1>3
<1>5. x - 1 \in S
  BY <1>4, <1>2
<1> QED BY <1>5, <1>3, <1>4

\* What the definition of BytesIn promises is there: the function of the sums.
IsSum(g, s) ==
  /\ g \in [0 .. Len(s) -> Int] /\ g[0] = 0
  /\ \A n \in 1 .. Len(s) : g[n] = g[n - 1] + ItemLength(s[n])

LEMMA ItemLengths == \A i : ItemLength(i) \in Nat
BY Chunks, LengthAssumption DEF ItemLength

LEMMA SumExists == ASSUME NEW s, Len(s) \in Nat PROVE \E g : IsSum(g, s)
<1> DEFINE Up(g, m) == /\ g \in [0 .. m -> Int] /\ g[0] = 0
                       /\ \A n \in 1 .. m : g[n] = g[n - 1] + ItemLength(s[n])
           S == {m \in Nat : \E g : Up(g, m)}
<1>1. 0 \in S
  <2>1. Up([n \in 0 .. 0 |-> 0], 0)
    OBVIOUS
  <2> QED BY <2>1
<1>2. ASSUME NEW m \in Nat, m \in S PROVE m + 1 \in S
  <2>1. PICK g : Up(g, m)
    BY <1>2
  <2> DEFINE h == [n \in 0 .. m + 1 |-> IF n = m + 1 THEN g[m] + ItemLength(s[n]) ELSE g[n]]
  <2>2. Up(h, m + 1)
    <3>1. h \in [0 .. m + 1 -> Int]
      BY <2>1, ItemLengths
    <3>2. h[0] = 0
      BY <2>1
    <3>3. ASSUME NEW n \in 1 .. m + 1 PROVE h[n] = h[n - 1] + ItemLength(s[n])
      BY <2>1
    <3> QED BY <3>1, <3>2, <3>3
  <2> HIDE DEF h, Up
  <2> QED BY <2>2
<1> HIDE DEF S
<1>3. Nat \subseteq S
  BY <1>1, <1>2, InductionOnSet
<1> QED BY <1>3 DEF S, IsSum

LEMMA BytesInIsSum == ASSUME NEW s, Len(s) \in Nat PROVE \E g : IsSum(g, s) /\ BytesIn(s) = g[Len(s)]
<1> DEFINE f == CHOOSE f : f = [n \in 0 .. Len(s) |-> IF n = 0 THEN 0 ELSE f[n - 1] + ItemLength(s[n])]
<1>1. BytesIn(s) = f[Len(s)]
  BY DEF BytesIn
<1>2. PICK g : IsSum(g, s)
  BY SumExists
<1>3. g = [n \in 0 .. Len(s) |-> IF n = 0 THEN 0 ELSE g[n - 1] + ItemLength(s[n])]
  BY <1>2 DEF IsSum
<1>4. f = [n \in 0 .. Len(s) |-> IF n = 0 THEN 0 ELSE f[n - 1] + ItemLength(s[n])]
  BY <1>3
<1> HIDE DEF f
<1>5. f = g
  <2> DEFINE S == {n \in Nat : n <= Len(s) => f[n] = g[n]}
  <2>1. 0 \in S
    BY <1>3, <1>4
  <2>2. ASSUME NEW n \in Nat, n \in S PROVE n + 1 \in S
    <3> SUFFICES ASSUME n + 1 <= Len(s) PROVE f[n + 1] = g[n + 1]
      OBVIOUS
    <3>1. f[n] = g[n] /\ n + 1 \in 0 .. Len(s) /\ n + 1 # 0 /\ (n + 1) - 1 = n
      BY <2>2
    <3>2. f[n + 1] = f[n] + ItemLength(s[n + 1]) /\ g[n + 1] = g[n] + ItemLength(s[n + 1])
      BY <3>1, <1>3, <1>4
    <3> QED BY <3>1, <3>2
  <2> HIDE DEF S
  <2>3. Nat \subseteq S
    BY <2>1, <2>2, InductionOnSet
  <2>4. \A n \in 0 .. Len(s) : f[n] = g[n]
    BY <2>3 DEF S
  <2> QED BY <2>4, <1>3, <1>4
<1> QED BY <1>1, <1>2, <1>5

LEMMA SumOfNone == BytesIn(<<>>) = 0
BY BytesInIsSum DEF IsSum

LEMMA SumOfAppend ==
  ASSUME NEW s \in Seq(Item), NEW x \in Item
  PROVE  BytesIn(Append(s, x)) = BytesIn(s) + ItemLength(x)
<1> DEFINE t == Append(s, x)
<1>1. /\ Len(s) \in Nat /\ Len(t) = Len(s) + 1 /\ t[Len(s) + 1] = x
      /\ \A i \in 1 .. Len(s) : t[i] = s[i]
  BY AppendProperties
<1> HIDE DEF t
<1>2. PICK g : IsSum(g, s) /\ BytesIn(s) = g[Len(s)]
  BY <1>1, BytesInIsSum
<1>3. PICK h : IsSum(h, t) /\ BytesIn(t) = h[Len(t)]
  BY <1>1, BytesInIsSum
<1> DEFINE S == {n \in Nat : n <= Len(s) => h[n] = g[n]}
<1>4. 0 \in S
  BY <1>2, <1>3 DEF IsSum
<1>5. ASSUME NEW n \in Nat, n \in S PROVE n + 1 \in S
  <2> SUFFICES ASSUME n + 1 <= Len(s) PROVE h[n + 1] = g[n + 1]
    OBVIOUS
  <2>1. h[n] = g[n] /\ n + 1 \in 1 .. Len(s) /\ n + 1 \in 1 .. Len(t) /\ (n + 1) - 1 = n /\ t[n + 1] = s[n + 1]
    BY <1>1, <1>5
  <2>2. h[n + 1] = h[n] + ItemLength(s[n + 1]) /\ g[n + 1] = g[n] + ItemLength(s[n + 1])
    BY <2>1, <1>2, <1>3 DEF IsSum
  <2> QED BY <2>1, <2>2
<1> HIDE DEF S
<1>6. Nat \subseteq S
  BY <1>4, <1>5, InductionOnSet
<1>7. h[Len(s)] = g[Len(s)]
  BY <1>1, <1>6 DEF S
<1>8. h[Len(t)] = h[Len(s)] + ItemLength(x)
  <2>1. Len(s) + 1 \in 1 .. Len(t) /\ (Len(s) + 1) - 1 = Len(s)
    BY <1>1
  <2> QED BY <2>1, <1>1, <1>3 DEF IsSum
<1> QED BY <1>2, <1>3, <1>7, <1>8 DEF t

LEMMA SumOfTail ==
  ASSUME NEW s \in Seq(Item), s # <<>>
  PROVE  BytesIn(s) = ItemLength(Head(s)) + BytesIn(Tail(s))
<1> DEFINE t == Tail(s)
<1>1. /\ Len(s) \in Nat /\ Len(s) > 0 /\ Len(t) = Len(s) - 1 /\ Len(t) \in Nat
      /\ \A i \in 1 .. Len(t) : t[i] = s[i + 1]
  BY EmptySeq, HeadTailProperties
<1>0. Head(s) = s[1]
  OBVIOUS
<1> HIDE DEF t
<1>2. PICK g : IsSum(g, s) /\ BytesIn(s) = g[Len(s)]
  BY <1>1, BytesInIsSum
<1>3. PICK h : IsSum(h, t) /\ BytesIn(t) = h[Len(t)]
  BY <1>1, BytesInIsSum
<1> DEFINE S == {n \in Nat : n <= Len(t) => g[n + 1] = ItemLength(s[1]) + h[n]}
<1>4. 0 \in S
  <2>1. 1 \in 1 .. Len(s)
    BY <1>1
  <2>2. g[1] = g[1 - 1] + ItemLength(s[1]) /\ g[0] = 0 /\ h[0] = 0
    BY <2>1, <1>2, <1>3 DEF IsSum
  <2> QED BY <2>2, ItemLengths
<1>5. ASSUME NEW n \in Nat, n \in S PROVE n + 1 \in S
  <2> SUFFICES ASSUME n + 1 <= Len(t) PROVE g[n + 1 + 1] = ItemLength(s[1]) + h[n + 1]
    OBVIOUS
  <2>1. /\ g[n + 1] = ItemLength(s[1]) + h[n] /\ n + 1 \in 1 .. Len(t) /\ n + 1 + 1 \in 1 .. Len(s)
        /\ (n + 1) - 1 = n /\ (n + 1 + 1) - 1 = n + 1 /\ t[n + 1] = s[n + 1 + 1]
    BY <1>1, <1>5
  <2>2. /\ g[n + 1 + 1] = g[n + 1] + ItemLength(s[n + 1 + 1]) /\ h[n + 1] = h[n] + ItemLength(s[n + 1 + 1])
        /\ h[n] \in Int
    BY <2>1, <1>2, <1>3 DEF IsSum
  <2> QED BY <2>1, <2>2, ItemLengths
<1> HIDE DEF S
<1>6. Nat \subseteq S
  BY <1>4, <1>5, InductionOnSet
<1>7. g[Len(t) + 1] = ItemLength(s[1]) + h[Len(t)]
  BY <1>1, <1>6 DEF S
<1>8. Len(t) + 1 = Len(s)
  BY <1>1
<1> QED BY <1>0, <1>2, <1>3, <1>7, <1>8 DEF t

\* A sum is not negative, and zero over markers.
LEMMA SumIsNatural ==
  ASSUME NEW s \in Seq(Item)
  PROVE  /\ BytesIn(s) \in Nat
         /\ (\A i \in 1 .. Len(s) : s[i] = EOF) => BytesIn(s) = 0
<1>1. Len(s) \in Nat
  OBVIOUS
<1>2. PICK g : IsSum(g, s) /\ BytesIn(s) = g[Len(s)]
  BY <1>1, BytesInIsSum
<1> DEFINE S == {n \in Nat : n <= Len(s) => g[n] \in Nat /\ ((\A i \in 1 .. Len(s) : s[i] = EOF) => g[n] = 0)}
<1>3. 0 \in S
  BY <1>2 DEF IsSum
<1>4. ASSUME NEW n \in Nat, n \in S PROVE n + 1 \in S
  <2> SUFFICES ASSUME n + 1 <= Len(s)
               PROVE  g[n + 1] \in Nat /\ ((\A i \in 1 .. Len(s) : s[i] = EOF) => g[n + 1] = 0)
    OBVIOUS
  <2>1. /\ n + 1 \in 1 .. Len(s) /\ (n + 1) - 1 = n
        /\ g[n] \in Nat /\ ((\A i \in 1 .. Len(s) : s[i] = EOF) => g[n] = 0)
    BY <1>1, <1>4
  <2>2. g[n + 1] = g[n] + ItemLength(s[n + 1])
    BY <2>1, <1>2 DEF IsSum
  <2>3. ItemLength(EOF) = 0
    BY Chunks DEF ItemLength
  <2>4. g[n + 1] \in Nat
    BY <2>1, <2>2, ItemLengths
  <2>5. ASSUME \A i \in 1 .. Len(s) : s[i] = EOF PROVE g[n + 1] = 0
    <3>1. s[n + 1] = EOF /\ g[n] = 0
      BY <2>1, <2>5
    <3> QED BY <3>1, <2>2, <2>3
  <2> QED BY <2>4, <2>5
<1> HIDE DEF S
<1>5. Nat \subseteq S
  BY <1>3, <1>4, InductionOnSet
<1> QED BY <1>1, <1>2, <1>5 DEF S

-----------------------------------------------------------------------------
\* Bytes taken from the ring or put into it that the counter does not show yet.
InTake == IF reader = "took" THEN ItemLength(cur) ELSE 0
InAccount == IF loop.at = "account" THEN ItemLength(loop.chunk) ELSE 0

\* The counter is exact but for the two, so what the byte limit was tested
\* against is at least what the ring holds; the ring only shrinks until the
\* chunk it was tested for goes in.
ByteInv ==
  /\ active => bytes = BytesIn(q) + InTake - InAccount
  /\ loop.at = "enqueue" => q = <<>> \/ BytesIn(q) + ItemLength(loop.chunk) <= High
  /\ Len(q) > 1 => BytesIn(q) <= High

LEMMA ByteFacts ==
  ASSUME StreamInv
  PROVE  /\ BytesIn(q) \in Nat /\ Len(q) \in Nat /\ bytes \in Int /\ High \in Nat
         /\ InTake \in Nat /\ InAccount \in Nat
         /\ q \in Seq(Item) /\ loop \in LoopState
         /\ ~active => BytesIn(q) = 0
         /\ InOffer => active /\ ItemLength(loop.chunk) = Length[loop.chunk]
<1>1. q \in Seq(Item) /\ bytes \in Int /\ loop \in LoopState /\ High \in Nat
  BY SizeAssumption DEF StreamInv, TypeOK
<1>2. BytesIn(q) \in Nat /\ (~active => BytesIn(q) = 0)
  BY <1>1, SumIsNatural DEF StreamInv, EndInv
<1>3. InTake \in Nat /\ InAccount \in Nat
  BY ItemLengths DEF InTake, InAccount
<1>4. InOffer => active /\ ItemLength(loop.chunk) = Length[loop.chunk]
  BY <1>1, LoopShapes DEF StreamInv, HoldInv, ItemLength
<1> QED BY <1>1, <1>2, <1>3, <1>4

LEMMA BytesStart == Init => ByteInv
<1> SUFFICES ASSUME Init PROVE ByteInv
  OBVIOUS
<1>1. q = <<>> /\ Len(q) = 0 /\ bytes = 0 /\ loop.at = "idle" /\ reader = "take"
  BY DEF Init, Idle
<1>2. BytesIn(q) = 0 /\ InTake = 0 /\ InAccount = 0
  BY <1>1, SumOfNone DEF InTake, InAccount
<1> QED BY <1>1, <1>2 DEF ByteInv

\* A step that leaves ring and counter alone, adds nothing to what they do not
\* show and does not come to the point where a chunk goes in, disturbs nothing.
LEMMA QuietBytes ==
  ASSUME ByteInv, UNCHANGED <<q, bytes>>, active' => active, InTake' = InTake, InAccount' = InAccount,
         loop'.at # "enqueue" \/ q = <<>>
  PROVE  ByteInv'
<1>1. BytesIn(q)' = BytesIn(q)
  OBVIOUS
<1> QED BY <1>1 DEF ByteInv

LEMMA ChannelReadBytes == ASSUME StreamInv, ByteInv, ChannelRead \/ FlushPending PROVE ByteInv'
<1>1. UNCHANGED <<q, bytes, active, reader, cur>> /\ loop = Idle
  BY DEF ChannelRead, FlushPending, readerVars
<1>2. loop' = loop \/ \E c \in {next + 1, pending}, h \in {"channelRead", "flushPending"} : OfferBegin(c, h)
  BY DEF ChannelRead, FlushPending
<1>3. loop.at = "idle" /\ loop'.at \in {"idle", "enqueue", "bytes"} /\ (loop'.at = "enqueue" => q = <<>>)
  BY <1>1, <1>2 DEF OfferBegin, Idle
<1>4. InTake' = InTake /\ InAccount' = InAccount
  BY <1>1, <1>3 DEF InTake, InAccount
<1> QED BY <1>1, <1>3, <1>4, QuietBytes

LEMMA RefusedBytes ==
  ASSUME StreamInv, ByteInv, loop.at \in {"bytes", "enqueue"}, OfferRefused, UNCHANGED <<q, bytes, active, reader, cur>>
  PROVE  ByteInv'
<1>1. loop'.at = "idle"
  BY DEF OfferRefused, Idle
<1>2. InTake' = InTake /\ InAccount' = InAccount
  BY <1>1 DEF InTake, InAccount
<1> QED BY <1>1, <1>2, QuietBytes

\* The limit is tested against at least what the ring holds.
LEMMA OfferBytesBytes == ASSUME StreamInv, ByteInv, OfferBytes PROVE ByteInv'
<1>1. UNCHANGED <<q, bytes, active, reader, cur>> /\ loop.at = "bytes"
  BY DEF OfferBytes, readerVars
<1>2. CASE OfferRefused
  BY <1>1, <1>2, RefusedBytes
<1>3. CASE ~OverHigh(loop.chunk) /\ loop' = [loop EXCEPT !.at = "enqueue"]
  <2>1. InOffer /\ loop \in Offering
    BY <1>1, ByteFacts, LoopShapes DEF InOffer
  <2>2. loop'.at = "enqueue" /\ loop'.chunk = loop.chunk
    BY <1>3, <2>1 DEF Offering
  <2>3. InTake' = InTake /\ InAccount' = InAccount /\ InAccount = 0
    BY <1>1, <2>2 DEF InTake, InAccount
  <2>4. bytes = BytesIn(q) + InTake - InAccount /\ bytes + ItemLength(loop.chunk) <= High
    <3>1. bytes + Length[loop.chunk] <= High
      <4>1. Length[loop.chunk] \in Nat
        BY <2>1, ByteFacts, ItemLengths
      <4> QED BY <1>3, <4>1, ByteFacts DEF OverHigh
    <3> QED BY <3>1, <2>1, ByteFacts DEF ByteInv
  <2>5. BytesIn(q) + ItemLength(loop.chunk) <= High
    BY <2>3, <2>4, ByteFacts, ItemLengths
  <2>6. BytesIn(q)' = BytesIn(q)
    BY <1>1
  <2> QED BY <1>1, <2>2, <2>3, <2>5, <2>6 DEF ByteInv
<1> QED BY <1>2, <1>3 DEF OfferBytes

LEMMA EnqueueBytes == ASSUME StreamInv, ByteInv, OfferEnqueue PROVE ByteInv'
<1>1. UNCHANGED <<bytes, active, reader, cur>> /\ loop.at = "enqueue"
  BY DEF OfferEnqueue, readerVars
<1>2. CASE OfferRefused /\ UNCHANGED q
  BY <1>1, <1>2, RefusedBytes
<1>3. CASE q' = Append(q, loop.chunk) /\ loop' = [loop EXCEPT !.at = "account"]
  <2>1. InOffer /\ loop \in Offering /\ loop.chunk \in Item /\ active
    BY <1>1, ByteFacts, LoopShapes DEF InOffer, Item
  <2>2. loop'.at = "account" /\ loop'.chunk = loop.chunk
    BY <1>3, <2>1 DEF Offering
  <2>3. InTake' = InTake /\ InAccount' = ItemLength(loop.chunk) /\ InAccount = 0
    BY <1>1, <2>2 DEF InTake, InAccount
  <2>4. BytesIn(q)' = BytesIn(q) + ItemLength(loop.chunk) /\ Len(q') = Len(q) + 1
    BY <1>3, <2>1, ByteFacts, SumOfAppend, AppendProperties
  <2>5. bytes = BytesIn(q) + InTake - InAccount
    BY <2>1 DEF ByteInv
  <2>6. Len(q') > 1 => BytesIn(q)' <= High
    <3>1. CASE q = <<>>
      <4>1. Len(q) = 0
        BY <3>1
      <4> QED BY <4>1, <2>4
    <3>2. CASE BytesIn(q) + ItemLength(loop.chunk) <= High
      BY <3>2, <2>4
    <3> QED BY <3>1, <3>2, <1>1 DEF ByteInv
  <2>7. bytes' = BytesIn(q)' + InTake' - InAccount'
    BY <1>1, <2>3, <2>4, <2>5, ByteFacts, ItemLengths
  <2> QED BY <2>2, <2>6, <2>7 DEF ByteInv
<1> QED BY <1>2, <1>3 DEF OfferEnqueue

LEMMA AccountBytes == ASSUME StreamInv, ByteInv, OfferAccount PROVE ByteInv'
<1>1. UNCHANGED <<q, active, reader, cur>> /\ loop.at = "account" /\ loop'.at = "idle" /\ bytes' = bytes + Length[loop.chunk]
  BY DEF OfferAccount, OfferAccepted, readerVars, Idle
<1>2. InOffer /\ active /\ ItemLength(loop.chunk) = Length[loop.chunk]
  BY <1>1, ByteFacts DEF InOffer
<1>3. InTake' = InTake /\ InAccount' = 0 /\ InAccount = ItemLength(loop.chunk) /\ BytesIn(q)' = BytesIn(q)
  BY <1>1 DEF InTake, InAccount
<1>4. bytes' = BytesIn(q)' + InTake' - InAccount'
  <2>1. bytes = BytesIn(q) + InTake - InAccount
    BY <1>2 DEF ByteInv
  <2> QED BY <2>1, <1>1, <1>2, <1>3, ByteFacts, ItemLengths
<1> QED BY <1>1, <1>3, <1>4 DEF ByteInv

\* A stream that is no longer active has markers in its ring or nothing.
LEMMA InactiveBytes ==
  ASSUME StreamInv', ~active', loop'.at # "enqueue" PROVE ByteInv'
<1>1. BytesIn(q') = 0 /\ High \in Nat
  BY SumIsNatural, SizeAssumption DEF StreamInv, TypeOK, EndInv
<1>2. BytesIn(q)' = BytesIn(q')
  OBVIOUS
<1> QED BY <1>1, <1>2 DEF ByteInv

LEMMA CloseBytes == ASSUME StreamInv, ByteInv, ChannelInactive \/ EndInput \/ PutEof PROVE ByteInv'
<1>1. StreamInv'
  BY InactiveKeeps, EndInputKeeps, PutEofKeeps
<1>2. ~active' /\ loop'.at # "enqueue"
  <2>1. CASE ChannelInactive
    BY <2>1 DEF ChannelInactive
  <2>2. CASE EndInput
    BY <2>2 DEF EndInput, StreamInv, EndInv, Idle
  <2>3. CASE PutEof
    <3>1. ~active /\ active' = active /\ loop' = loop
      BY <2>3 DEF PutEof, loopVars, StreamInv, EndInv
    <3>2. loop.at # "enqueue"
      BY <3>1, ByteFacts DEF InOffer
    <3> QED BY <3>1, <3>2
  <2> QED BY <2>1, <2>2, <2>3
<1> QED BY <1>1, <1>2, InactiveBytes

LEMMA TakeBytes == ASSUME StreamInv, ByteInv, Take PROVE ByteInv'
<1>1. /\ UNCHANGED <<bytes, active, loop>> /\ q # <<>> /\ q' = Tail(q) /\ cur' = Head(q)
      /\ reader = "take" /\ reader' = "took"
  BY DEF Take, loopVars
<1>2. BytesIn(q) = ItemLength(cur') + BytesIn(q)' /\ Len(q') = Len(q) - 1
  <2>1. BytesIn(q) = ItemLength(Head(q)) + BytesIn(Tail(q)) /\ Len(Tail(q)) = Len(q) - 1
    BY <1>1, ByteFacts, SumOfTail, HeadTailProperties
  <2> QED BY <2>1, <1>1
<1>3. InTake = 0 /\ InTake' = ItemLength(cur') /\ InAccount' = InAccount
  BY <1>1 DEF InTake, InAccount
<1>4. BytesIn(q)' \in Int /\ BytesIn(q)' <= BytesIn(q)
  <2>1. BytesIn(Tail(q)) \in Nat
    BY <1>1, ByteFacts, SumIsNatural, HeadTailProperties
  <2> QED BY <2>1, <1>1, <1>2, ByteFacts, ItemLengths
<1>5. active' => bytes' = BytesIn(q)' + InTake' - InAccount'
  <2>1. active => bytes = BytesIn(q) + InTake - InAccount
    BY DEF ByteInv
  <2> QED BY <2>1, <1>1, <1>2, <1>3, <1>4, ByteFacts, ItemLengths
<1>6. loop'.at = "enqueue" => BytesIn(q)' + ItemLength(loop'.chunk) <= High
  <2>1. loop.at = "enqueue" => BytesIn(q) + ItemLength(loop.chunk) <= High
    BY <1>1 DEF ByteInv
  <2> QED BY <2>1, <1>1, <1>4, ByteFacts, ItemLengths
<1>7. Len(q') > 1 => BytesIn(q)' <= High
  <2>1. Len(q) > 1 => BytesIn(q) <= High
    BY DEF ByteInv
  <2> QED BY <2>1, <1>2, <1>4, ByteFacts
<1> QED BY <1>5, <1>6, <1>7 DEF ByteInv

LEMMA TakeAccountBytes == ASSUME StreamInv, ByteInv, TakeAccount PROVE ByteInv'
<1>1. UNCHANGED <<q, active, loop, cur>> /\ reader = "took" /\ reader' = "check" /\ bytes' = bytes - ItemLength(cur)
  BY DEF TakeAccount, loopVars
<1>2. InTake = ItemLength(cur) /\ InTake' = 0 /\ InAccount' = InAccount /\ BytesIn(q)' = BytesIn(q)
  BY <1>1 DEF InTake, InAccount
<1>3. active' => bytes' = BytesIn(q)' + InTake' - InAccount'
  <2>1. active => bytes = BytesIn(q) + InTake - InAccount
    BY DEF ByteInv
  <2> QED BY <2>1, <1>1, <1>2, ByteFacts, ItemLengths
<1> QED BY <1>1, <1>2, <1>3 DEF ByteInv

LEMMA RestBytes ==
  ASSUME StreamInv, ByteInv, Deliver \/ SessionEnds \/ StreamCloses \/ UNCHANGED vars PROVE ByteInv'
<1>1. UNCHANGED <<q, bytes, active, loop, cur>>
  BY DEF Deliver, SessionEnds, StreamCloses, vars, loopVars, readerVars
<1>2. reader' = reader \/ (reader # "took" /\ reader' # "took")
  BY DEF Deliver, SessionEnds, StreamCloses, vars, readerVars
<1>3. InTake' = InTake /\ InAccount' = InAccount /\ BytesIn(q)' = BytesIn(q)
  BY <1>1, <1>2 DEF InTake, InAccount
<1> QED BY <1>1, <1>3 DEF ByteInv

\* Both limits of the ring hold although counter and queue are updated in steps
\* of their own (SpscChunkRing.offer, take).
THEOREM RingIsBounded == Spec => []RingBounded
<1>1. StreamInv /\ ByteInv => RingBounded
  BY DEF StreamInv, TypeOK, ByteInv, RingBounded
<1>2. Init => StreamInv /\ ByteInv
  BY StreamStarts, BytesStart
<1>3. StreamInv /\ ByteInv /\ [Next]_vars => (StreamInv /\ ByteInv)'
  <2> SUFFICES ASSUME StreamInv, ByteInv, [Next]_vars PROVE (StreamInv /\ ByteInv)'
    OBVIOUS
  <2>1. StreamInv'
    BY StreamStep
  <2>2. ByteInv'
    BY ChannelReadBytes, OfferBytesBytes, EnqueueBytes, AccountBytes, CloseBytes, TakeBytes, TakeAccountBytes,
       RestBytes DEF Next, LoopStep, ReaderStep
  <2> QED BY <2>1, <2>2
<1> QED BY <1>1, <1>2, <1>3, PTL DEF Spec

=============================================================================
