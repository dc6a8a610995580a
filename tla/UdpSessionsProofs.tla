------------------------- MODULE UdpSessionsProofs -------------------------
(***************************************************************************)
(* Proofs, for any number of client channels, flows and sessions, that the *)
(* table of UdpSessions holds open channels only, that every open channel  *)
(* is accounted for, and that the table outgrows its cap by no more than   *)
(* the handlers that run and the evictions made in vain account for.       *)
(***************************************************************************)
EXTENDS UdpSessions, FunctionTheorems, FiniteSetTheorems, TLAPS

Stages == {"none", "read", "evict", "evictClose", "create", "put", "send",
           "sendClose", "leave", "sweep", "sweepClose", "gone"}

\* Stages at which a handler has a frame, and at which it has a session.
WithFrame == {"evict", "evictClose", "create", "put", "send", "sendClose"}
WithSession == {"evictClose", "put", "send", "sendClose", "sweepClose"}

\* What the threads have in hand is what their stage needs.
HandInv ==
  /\ \A w \in Writer :
       /\ hpc[w] \in WithFrame => HKey(w) \in Key
       /\ hpc[w] \in WithSession => hand[w] \in Session
       /\ hpc[w] = "evictClose" => evicted[w] < EvictBatch
  /\ spc \in {"read", "close"} => target \in Session

\* A session about to be put is open, belongs to its handler's key and is
\* still unknown to the table.
PutInv == \A w \in Writer : hpc[w] = "put" =>
  /\ hand[w] \in opened /\ KeyOf(hand[w]) = HKey(w)
  /\ \A k \in Key : table[k] # hand[w]

TableInv == \A k \in Key : table[k] # NoSession => table[k] \in opened /\ KeyOf(table[k]) = k

OpenInv == \A s \in opened :
  \/ table[KeyOf(s)] = s
  \/ \E w \in Writer : hpc[w] = "put" /\ hand[w] = s
  \/ s \in orphans \union stray

UdpInv == TypeOK /\ HandInv /\ PutInv /\ TableInv /\ OpenInv

\* Sessions are built from a key and carry it; none of them is the null one.
LEMMA SessionFacts ==
  /\ \A s \in Session : KeyOf(s) \in Key
  /\ NoSession \notin Session
BY NameAssumption DEF KeyOf, NoSession

\* Two handlers never work on the same key.
LEMMA KeysApart == \A v, w \in Writer : v # w => HKey(v) # HKey(w)
BY DEF HKey

\* The invariant is what ChannelsAccounted says.
LEMMA Accounted == UdpInv => ChannelsAccounted
<1> SUFFICES ASSUME UdpInv PROVE ChannelsAccounted
  OBVIOUS
<1>1. \A s \in Mapped : s \in opened /\ table[KeyOf(s)] = s
  BY DEF UdpInv, TableInv, Mapped
<1> QED BY <1>1 DEF UdpInv, OpenInv, ChannelsAccounted

\* A step that leaves the table alone and moves no handler into or out of
\* the moment before the put keeps the table's side of the invariant.
LEMMA TableUntouched ==
  ASSUME PutInv, TableInv, OpenInv, UNCHANGED <<table, opened, orphans, stray>>,
         \A w \in Writer :
           /\ hpc'[w] = "put" <=> hpc[w] = "put"
           /\ hpc[w] = "put" => hand'[w] = hand[w] /\ hflow'[w] = hflow[w]
  PROVE PutInv' /\ TableInv' /\ OpenInv'
<1>1. PutInv'
  BY DEF PutInv, HKey
<1>2. TableInv'
  BY DEF TableInv
<1>3. OpenInv'
  BY DEF OpenInv
<1> QED BY <1>1, <1>2, <1>3

\* closeSession, whichever thread calls it and however stale its session.
LEMMA CloseKeeps ==
  ASSUME TypeOK, PutInv, TableInv, OpenInv, NEW k \in Key, NEW s \in Session, CloseSession(k, s),
         \A w \in Writer :
           /\ hpc'[w] = "put" <=> hpc[w] = "put"
           /\ hpc[w] = "put" => hand'[w] = hand[w] /\ hflow'[w] = hflow[w]
  PROVE /\ PutInv' /\ TableInv' /\ OpenInv'
        /\ table' \in [Key -> Session \union {NoSession}]
        /\ opened' \subseteq created' /\ created' \subseteq Session /\ orphans' \subseteq Session
        /\ stray' = stray /\ blind' \in Nat
<1>t. /\ table \in [Key -> Session \union {NoSession}]
      /\ opened \subseteq created /\ created \subseteq Session /\ orphans \subseteq Session
  BY DEF TypeOK
<1>1. /\ table' = [table EXCEPT ![k] = NoSession] /\ created' = created /\ stray' = stray
      /\ opened' = (IF table[k] = s THEN opened \ {s} ELSE opened)
      /\ orphans' = orphans \union ({table[k]} \ {NoSession, s})
  BY DEF CloseSession
<1>2. table'[k] = NoSession /\ \A j \in Key : j # k => table'[j] = table[j]
  BY <1>1, <1>t
<1>3. \A t \in opened : (t = s /\ table[k] = s) \/ t \in opened'
  BY <1>1
<1>4. TableInv'
  BY <1>1, <1>2, <1>3 DEF TableInv
<1>5. PutInv'
  <2> SUFFICES ASSUME NEW w \in Writer, hpc'[w] = "put"
               PROVE /\ hand'[w] \in opened' /\ KeyOf(hand'[w]) = HKey(w)'
                     /\ \A j \in Key : table'[j] # hand'[w]
    BY DEF PutInv
  <2>1. hpc[w] = "put" /\ hand'[w] = hand[w] /\ HKey(w)' = HKey(w)
    BY DEF HKey
  <2>2. /\ hand[w] \in opened /\ KeyOf(hand[w]) = HKey(w)
        /\ \A j \in Key : table[j] # hand[w]
    BY <2>1 DEF PutInv
  <2>3. hand[w] \in opened'
    BY <2>2, <1>3
  <2>4. NoSession # hand[w]
    BY <2>2, <1>t, SessionFacts
  <2> QED BY <2>1, <2>2, <2>3, <2>4, <1>2
<1>6. OpenInv'
  <2> SUFFICES ASSUME NEW t \in opened'
               PROVE \/ table'[KeyOf(t)] = t
                     \/ \E w \in Writer : hpc'[w] = "put" /\ hand'[w] = t
                     \/ t \in orphans' \union stray'
    BY DEF OpenInv
  <2>1. t \in opened /\ t \in Session /\ KeyOf(t) \in Key /\ t # NoSession
    BY <1>1, <1>t, SessionFacts
  <2>2. CASE table[KeyOf(t)] = t
    <3>1. CASE KeyOf(t) # k
      BY <3>1, <2>1, <2>2, <1>2
    <3>2. CASE KeyOf(t) = k
      <4>1. t # s
        BY <3>2, <2>2, <1>1
      <4> QED BY <4>1, <3>2, <2>1, <2>2, <1>1
    <3> QED BY <3>1, <3>2
  <2>3. CASE \E w \in Writer : hpc[w] = "put" /\ hand[w] = t
    BY <2>3
  <2>4. CASE t \in orphans \union stray
    BY <2>4, <1>1
  <2> QED BY <2>1, <2>2, <2>3, <2>4 DEF OpenInv
<1>7. /\ table' \in [Key -> Session \union {NoSession}]
      /\ opened' \subseteq created' /\ created' \subseteq Session /\ orphans' \subseteq Session
  <2>1. table[k] \in Session \union {NoSession}
    BY <1>t
  <2>2. orphans' \subseteq Session
    BY <2>1, <1>1, <1>t
  <2>3. table' \in [Key -> Session \union {NoSession}]
    BY <1>1, <1>t
  <2> QED BY <2>2, <2>3, <1>1, <1>t
<1>8. stray' = stray /\ blind' \in Nat
  BY DEF CloseSession, TypeOK
<1> QED BY <1>4, <1>5, <1>6, <1>7, <1>8

\* The handler's and the selector's steps that do not touch the table.
LEMMA QuietSteps ==
  ASSUME UdpInv,
         \/ \E w \in Writer :
              \/ ChannelOpens(w) \/ ReadFails(w) \/ EvictIfNeeded(w)
              \/ Send(w) \/ SendFails(w) \/ RemoveWriter(w) \/ Sweep(w)
              \/ \E f \in Flow : ReadFrame(w, f)
         \/ \E s \in Session : Select(s) \/ CleanupIdle(s)
         \/ SelectorDies \/ ReadReply \/ ReadReplyFails
  PROVE UdpInv'
<1>i. TypeOK /\ HandInv /\ PutInv /\ TableInv /\ OpenInv
  BY DEF UdpInv
<1>m. Mapped \subseteq Session
  BY <1>i DEF TypeOK, Mapped
<1>1. ASSUME NEW w \in Writer, ChannelOpens(w) \/ ReadFails(w) \/ SendFails(w) \/ RemoveWriter(w)
      PROVE UdpInv'
  <2> USE DEF ChannelOpens, ReadFails, SendFails, RemoveWriter, HGoto, selectorVars
  <2>1. TypeOK'
    BY <1>1, <1>i DEF TypeOK, tableVars
  <2>2. HandInv'
    BY <1>1, <1>i DEF TypeOK, HandInv, HKey, WithFrame, WithSession, tableVars
  <2>3. PutInv' /\ TableInv' /\ OpenInv'
    BY <1>1, <1>i, TableUntouched DEF TypeOK, tableVars
  <2> QED BY <2>1, <2>2, <2>3 DEF UdpInv
<1>2. ASSUME NEW w \in Writer, NEW f \in Flow, ReadFrame(w, f)
      PROVE UdpInv'
  <2> USE DEF ReadFrame, HGoto, selectorVars
  <2>0. <<w, f>> \in Key /\ table[<<w, f>>] \in Session \union {NoSession}
    BY <1>2, <1>i DEF TypeOK
  <2>1. TypeOK'
    BY <1>2, <1>i, <2>0 DEF TypeOK, tableVars
  <2>2. HandInv'
    BY <1>2, <1>i, <2>0 DEF TypeOK, HandInv, HKey, WithFrame, WithSession, tableVars
  <2>3. UNCHANGED <<table, opened, orphans, stray>>
    BY <1>2 DEF tableVars
  <2>4. PutInv' /\ TableInv' /\ OpenInv'
    BY <1>2, <2>3, <1>i, TableUntouched DEF TypeOK
  <2> QED BY <2>1, <2>2, <2>4 DEF UdpInv
<1>4. ASSUME NEW w \in Writer, EvictIfNeeded(w)
      PROVE UdpInv'
  <2> USE DEF HGoto, selectorVars
  <2>1. TypeOK'
    BY <1>4, <1>i, <1>m, LimitAssumption DEF EvictIfNeeded, TypeOK
  <2>2. HandInv'
    BY <1>4, <1>i, <1>m DEF EvictIfNeeded, TypeOK, HandInv, HKey, WithFrame, WithSession
  <2>3. PutInv' /\ TableInv' /\ OpenInv'
    BY <1>4, <1>i, TableUntouched DEF EvictIfNeeded, TypeOK
  <2> QED BY <2>1, <2>2, <2>3 DEF UdpInv
<1>5. ASSUME NEW w \in Writer, Send(w)
      PROVE UdpInv'
  <2> USE DEF Send, HGoto, selectorVars
  <2>1. TypeOK'
    BY <1>5, <1>i, LimitAssumption DEF TypeOK, tableVars
  <2>2. HandInv'
    BY <1>5, <1>i DEF TypeOK, HandInv, HKey, WithFrame, WithSession, tableVars
  <2>3. PutInv' /\ TableInv' /\ OpenInv'
    BY <1>5, <1>i, TableUntouched DEF TypeOK, tableVars
  <2> QED BY <2>1, <2>2, <2>3 DEF UdpInv
<1>6. ASSUME NEW w \in Writer, Sweep(w)
      PROVE UdpInv'
  <2> USE DEF HGoto, selectorVars
  <2>1. TypeOK'
    BY <1>6, <1>i, <1>m DEF Sweep, TypeOK, tableVars
  <2>2. HandInv'
    BY <1>6, <1>i, <1>m DEF Sweep, TypeOK, HandInv, HKey, WithFrame, WithSession, tableVars
  <2>3. PutInv' /\ TableInv' /\ OpenInv'
    BY <1>6, <1>i, TableUntouched DEF Sweep, TypeOK, tableVars
  <2> QED BY <2>1, <2>2, <2>3 DEF UdpInv
<1>7. ASSUME \/ \E s \in Session : Select(s) \/ CleanupIdle(s)
             \/ SelectorDies \/ ReadReply \/ ReadReplyFails
      PROVE UdpInv'
  <2> USE DEF Select, CleanupIdle, SelectorDies, ReadReply, ReadReplyFails, SGoto, handlerVars
  <2>1. TypeOK'
    BY <1>7, <1>i DEF TypeOK, HandInv, tableVars
  <2>2. HandInv'
    BY <1>7, <1>i DEF TypeOK, HandInv, HKey, tableVars
  <2>3. PutInv' /\ TableInv' /\ OpenInv'
    BY <1>7, <1>i, TableUntouched DEF tableVars
  <2> QED BY <2>1, <2>2, <2>3 DEF UdpInv
<1> QED BY <1>1, <1>2, <1>4, <1>5, <1>6, <1>7

\* The four callers of closeSession.
LEMMA ClosingSteps ==
  ASSUME UdpInv,
         \/ \E w \in Writer : EvictClose(w) \/ SendClose(w) \/ SweepClose(w)
         \/ SelectorClose
  PROVE UdpInv'
<1>i. TypeOK /\ HandInv /\ PutInv /\ TableInv /\ OpenInv
  BY DEF UdpInv
<1>1. ASSUME NEW w \in Writer, EvictClose(w) \/ SendClose(w) \/ SweepClose(w)
      PROVE UdpInv'
  <2> USE DEF EvictClose, SendClose, SweepClose, HGoto, selectorVars
  <2>1. PICK k \in Key : CloseSession(k, hand[w]) /\ hand[w] \in Session
    BY <1>1, <1>i, SessionFacts DEF HandInv, WithFrame, WithSession
  <2>2. \A v \in Writer :
          /\ hpc'[v] = "put" <=> hpc[v] = "put"
          /\ hpc[v] = "put" => hand'[v] = hand[v] /\ hflow'[v] = hflow[v]
    BY <1>1, <1>i DEF TypeOK
  <2>3. /\ PutInv' /\ TableInv' /\ OpenInv'
        /\ table' \in [Key -> Session \union {NoSession}]
        /\ opened' \subseteq created' /\ created' \subseteq Session /\ orphans' \subseteq Session
        /\ stray' = stray /\ blind' \in Nat
    BY <2>1, <2>2, <1>i, CloseKeeps
  <2>4. evicted' \in [Writer -> 0..EvictBatch]
    BY <1>1, <1>i, LimitAssumption DEF TypeOK, HandInv
  <2>5. TypeOK'
    BY <1>1, <1>i, <2>3, <2>4 DEF TypeOK
  <2>6. HandInv'
    BY <1>1, <1>i DEF TypeOK, HandInv, HKey, WithFrame, WithSession
  <2> QED BY <2>3, <2>5, <2>6 DEF UdpInv
<1>2. ASSUME SelectorClose
      PROVE UdpInv'
  <2> USE DEF SelectorClose, SGoto, handlerVars
  <2>1. CloseSession(KeyOf(target), target) /\ target \in Session /\ KeyOf(target) \in Key
    BY <1>2, <1>i, SessionFacts DEF HandInv
  <2>2. /\ PutInv' /\ TableInv' /\ OpenInv'
        /\ table' \in [Key -> Session \union {NoSession}]
        /\ opened' \subseteq created' /\ created' \subseteq Session /\ orphans' \subseteq Session
        /\ stray' = stray /\ blind' \in Nat
    BY <2>1, <1>2, <1>i, CloseKeeps
  <2>3. TypeOK'
    BY <1>2, <1>i, <2>2 DEF TypeOK
  <2>4. HandInv'
    BY <1>2, <1>i DEF HandInv, HKey
  <2> QED BY <2>2, <2>3, <2>4 DEF UdpInv
<1> QED BY <1>1, <1>2

\* createSession: a channel that was opened is a new one of the handler's key.
LEMMA OpenFacts ==
  ASSUME UdpInv, NEW w \in Writer, NEW s \in Session, OpenChannel(w, s)
  PROVE  /\ KeyOf(s) = HKey(w) /\ s \notin created
         /\ opened' = opened \union {s} /\ created' = created \union {s}
         /\ \A k \in Key : table[k] # s
<1> DEFINE fresh == {t \in Session \ created : KeyOf(t) = HKey(w)}
<1>1. fresh # {} /\ s = CHOOSE t \in fresh : TRUE
  BY DEF OpenChannel
<1>2. s \in fresh
  BY <1>1
<1>3. \A k \in Key : table[k] # s
  BY <1>2, SessionFacts DEF UdpInv, TypeOK, TableInv
<1> QED BY <1>2, <1>3 DEF OpenChannel

\* A createSession that fails, with or without a channel.
LEMMA CreateFailsStep == ASSUME UdpInv, NEW w \in Writer, CreateFails(w) PROVE UdpInv'
<1>i. TypeOK /\ HandInv /\ PutInv /\ TableInv /\ OpenInv
  BY DEF UdpInv
<1>1. /\ hpc[w] = "create" /\ hpc' = [hpc EXCEPT ![w] = "leave"] /\ hflow' = [hflow EXCEPT ![w] = None]
      /\ UNCHANGED <<table, orphans, blind, hand, evicted, useful, spc, target>>
  BY DEF CreateFails, HGoto, selectorVars
<1>2. /\ opened \subseteq opened' /\ opened' \subseteq created' /\ created' \subseteq Session
      /\ stray \subseteq stray' /\ stray' \subseteq Session /\ opened' \subseteq opened \union stray'
  <2>1. CASE UNCHANGED <<opened, created, stray>>
    BY <2>1, <1>i DEF TypeOK
  <2>2. CASE \E s \in Session : OpenChannel(w, s) /\ stray' = stray \union {s}
    BY <2>2, <1>i, OpenFacts DEF TypeOK
  <2> QED BY <2>1, <2>2 DEF CreateFails
<1>3. TypeOK'
  BY <1>1, <1>2, <1>i DEF TypeOK
<1>4. HandInv'
  BY <1>1, <1>i DEF TypeOK, HandInv, HKey, WithFrame, WithSession
<1>5. \A v \in Writer : hpc'[v] = "put" <=> hpc[v] = "put"
  BY <1>1, <1>i DEF TypeOK
<1>6. \A v \in Writer : hpc[v] = "put" => HKey(v)' = HKey(v)
  BY <1>1, <1>i DEF HKey, TypeOK
<1>7. TableInv'
  BY <1>1, <1>2, <1>i DEF TableInv
<1>8. PutInv'
  BY <1>1, <1>2, <1>5, <1>6, <1>i DEF PutInv
<1>9. OpenInv'
  BY <1>1, <1>2, <1>5, <1>i DEF OpenInv
<1> QED BY <1>3, <1>4, <1>7, <1>8, <1>9 DEF UdpInv

\* createSession: the new channel is in its handler's hand.
LEMMA CreateStep == ASSUME UdpInv, NEW w \in Writer, Create(w) PROVE UdpInv'
<1>i. TypeOK /\ HandInv /\ PutInv /\ TableInv /\ OpenInv
  BY DEF UdpInv
<1>0. PICK s \in Session : OpenChannel(w, s) /\ hand' = [hand EXCEPT ![w] = s]
  BY DEF Create
<1>1. /\ hpc[w] = "create" /\ hpc' = [hpc EXCEPT ![w] = "put"]
      /\ opened' = opened \union {s} /\ created' = created \union {s}
      /\ UNCHANGED <<table, orphans, stray, blind, hflow, evicted, useful, spc, target>>
  BY <1>0, OpenFacts DEF Create, HGoto, selectorVars
<1>2. HKey(w) \in Key
  BY <1>1, <1>i DEF HandInv, WithFrame
<1>4. KeyOf(s) = HKey(w) /\ s \notin created
  BY <1>0, OpenFacts
<1>5. TypeOK'
  BY <1>0, <1>1, <1>4, <1>i DEF TypeOK
<1>6. HandInv'
  BY <1>0, <1>1, <1>2, <1>4, <1>i DEF TypeOK, HandInv, HKey, WithFrame, WithSession
<1>7. \A v \in Writer : HKey(v)' = HKey(v)
  BY <1>1 DEF HKey
<1>8. hpc'[w] = "put" /\ hand'[w] = s
      /\ \A v \in Writer : v # w => hpc'[v] = hpc[v] /\ hand'[v] = hand[v]
  BY <1>0, <1>1, <1>i DEF TypeOK
<1>9. TableInv'
  BY <1>1, <1>i DEF TableInv
<1>10. \A k \in Key : table[k] # s
  BY <1>0, OpenFacts
<1>11. PutInv'
  BY <1>1, <1>4, <1>7, <1>8, <1>10, <1>i DEF PutInv
<1>12. OpenInv'
  BY <1>1, <1>8, <1>i DEF OpenInv
<1> QED BY <1>5, <1>6, <1>9, <1>11, <1>12 DEF UdpInv

\* putIfAbsent, won or lost.
LEMMA PutStep == ASSUME UdpInv, NEW w \in Writer, Put(w) PROVE UdpInv'
<1>i. TypeOK /\ HandInv /\ PutInv /\ TableInv /\ OpenInv
  BY DEF UdpInv
<1>1. /\ hpc[w] = "put" /\ hpc' = [hpc EXCEPT ![w] = "send"]
      /\ UNCHANGED <<orphans, created, stray, blind, hflow, evicted, useful, spc, target>>
  BY DEF Put, HGoto, selectorVars
<1> DEFINE k == HKey(w)
<1> DEFINE s == hand[w]
<1>2. k \in Key /\ s \in Session /\ s \in opened /\ KeyOf(s) = k /\ s # NoSession
  BY <1>1, <1>i, SessionFacts DEF HandInv, PutInv, WithFrame, WithSession
<1>3. \A j \in Key : table[j] # s
  BY <1>1, <1>i DEF PutInv
<1>4. \A v \in Writer : v # w => hpc'[v] = hpc[v]
  BY <1>1, <1>i DEF TypeOK
<1>5. hpc'[w] = "send"
  BY <1>1, <1>i DEF TypeOK
<1>6. \A v \in Writer : HKey(v)' = HKey(v)
  BY <1>1 DEF HKey
<1>7. \A v \in Writer : v # w /\ hpc[v] = "put" => hand[v] # s
  BY <1>2, <1>i, KeysApart DEF PutInv
<1>8. CASE table[k] = NoSession
  <2>1. table' = [table EXCEPT ![k] = s] /\ opened' = opened /\ hand' = hand
    BY <1>8 DEF Put
  <2>2. table'[k] = s /\ \A j \in Key : j # k => table'[j] = table[j]
    BY <2>1, <1>2, <1>i DEF TypeOK
  <2>3. TypeOK'
    BY <2>1, <1>1, <1>2, <1>i DEF TypeOK
  <2>4. HandInv'
    BY <2>1, <1>1, <1>i DEF TypeOK, HandInv, HKey, WithFrame, WithSession
  <2>5. TableInv'
    BY <2>1, <2>2, <1>2, <1>i DEF TableInv
  <2>6. PutInv'
    BY <2>1, <2>2, <1>4, <1>5, <1>6, <1>7, <1>i DEF PutInv
  <2>7. OpenInv'
    <3> SUFFICES ASSUME NEW t \in opened
                 PROVE \/ table'[KeyOf(t)] = t
                       \/ \E v \in Writer : hpc'[v] = "put" /\ hand'[v] = t
                       \/ t \in orphans' \union stray'
      BY <2>1 DEF OpenInv
    <3>0. t \in Session /\ KeyOf(t) \in Key /\ t # NoSession
      BY <1>i, SessionFacts DEF TypeOK
    <3>1. CASE t = s
      BY <3>1, <2>2, <1>2
    <3>2. CASE t # s /\ table[KeyOf(t)] = t
      BY <3>0, <3>2, <2>2, <1>8
    <3>3. CASE t # s /\ \E v \in Writer : hpc[v] = "put" /\ hand[v] = t
      BY <3>3, <2>1, <1>4
    <3>4. CASE t \in orphans \union stray
      BY <3>4, <1>1
    <3> QED BY <3>1, <3>2, <3>3, <3>4, <1>i DEF OpenInv
  <2> QED BY <2>3, <2>4, <2>5, <2>6, <2>7 DEF UdpInv
<1>9. CASE table[k] # NoSession
  <2>1. table' = table /\ opened' = opened \ {s} /\ hand' = [hand EXCEPT ![w] = table[k]]
    BY <1>9 DEF Put
  <2>2. table[k] \in Session
    BY <1>2, <1>9, <1>i DEF TypeOK
  <2>3. hand'[w] = table[k] /\ \A v \in Writer : v # w => hand'[v] = hand[v]
    BY <2>1, <1>i DEF TypeOK
  <2>4. TypeOK'
    BY <2>1, <2>2, <1>1, <1>i DEF TypeOK
  <2>5. HandInv'
    BY <2>2, <2>3, <1>1, <1>i DEF TypeOK, HandInv, HKey, WithFrame, WithSession
  <2>6. TableInv'
    BY <2>1, <1>3, <1>i DEF TableInv
  <2>7. PutInv'
    BY <2>1, <2>3, <1>4, <1>5, <1>6, <1>7, <1>i DEF PutInv
  <2>8. OpenInv'
    BY <2>1, <2>3, <1>1, <1>4, <1>i DEF OpenInv
  <2> QED BY <2>4, <2>5, <2>6, <2>7, <2>8 DEF UdpInv
<1> QED BY <1>8, <1>9

\* The invariant holds of the empty table and is kept by every step.
THEOREM UdpInvariant == Spec => []UdpInv
<1>1. Init => UdpInv
  <2> SUFFICES ASSUME Init PROVE UdpInv
    OBVIOUS
  <2>2. TypeOK
    BY LimitAssumption DEF Init, TypeOK
  <2>3. HandInv /\ PutInv /\ TableInv /\ OpenInv
    BY DEF Init, HandInv, PutInv, TableInv, OpenInv, WithFrame, WithSession
  <2> QED BY <2>2, <2>3 DEF UdpInv
<1>2. UdpInv /\ [Next]_vars => UdpInv'
  <2> SUFFICES ASSUME UdpInv, [Next]_vars PROVE UdpInv'
    OBVIOUS
  <2>1. CASE UNCHANGED vars
    <3>1. TypeOK' /\ HandInv'
      BY <2>1 DEF vars, tableVars, handlerVars, selectorVars, UdpInv, TypeOK, HandInv, HKey
    <3>2. PutInv' /\ TableInv' /\ OpenInv'
      BY <2>1, TableUntouched DEF vars, tableVars, handlerVars, UdpInv
    <3> QED BY <3>1, <3>2 DEF UdpInv
  <2>2. CASE \E w \in Writer : ChannelOpens(w) \/ ReadFails(w) \/ Handler(w)
                              \/ \E f \in Flow : ReadFrame(w, f)
    BY <2>2, QuietSteps, ClosingSteps, CreateStep, CreateFailsStep, PutStep DEF Handler
  <2>3. CASE (\E s \in Session : Select(s) \/ CleanupIdle(s)) \/ Selector
    BY <2>3, QuietSteps, ClosingSteps DEF Selector
  <2> QED BY <2>1, <2>2, <2>3 DEF Next
<1> QED BY <1>1, <1>2, PTL DEF Spec

\* UdpSessions never serves a closed channel from its table, and loses an open
\* one only where closeSession removes by key a session it did not mean, or
\* createSession fails with its channel open.
THEOREM ChannelsAreAccounted == Spec => []ChannelsAccounted
BY UdpInvariant, Accounted, PTL

-----------------------------------------------------------------------------
(***************************************************************************)
(* The cap.  A handler that goes on to create a session has seen the table *)
(* below its cap, or has removed a session, or has counted EVICT_BATCH     *)
(* evictions in vain.  The handlers with a session to their credit are     *)
(* those that will put one, or have removed one and may put one; with the  *)
(* table they stay within the cap, the number of handlers and the passes   *)
(* in vain: whenever the table is below its cap this is so for any         *)
(* credits, and no step but a pass in vain adds to the sum.                *)
(***************************************************************************)

Credit == {w \in Writer : hpc[w] \in {"create", "put"} \/ w \in useful}

\* A handler has evictions to its credit only while it evicts.
UsefulInv == \A w \in useful : hpc[w] \in {"evict", "evictClose"}

HandlersInv == Cardinality(Handling) <= MaxHandlers

CapInv == Cardinality(Mapped) + Cardinality(Credit) <= (MaxSessions - 1) + MaxHandlers + blind

LoadInv == UsefulInv /\ HandlersInv /\ IsFiniteSet(Mapped) /\ CapInv

LEMMA WriterFinite == \A H \in SUBSET Writer : IsFiniteSet(H) /\ Cardinality(H) \in Nat
BY NameAssumption, FS_Subset, FS_CardinalityType

\* No more credits than handlers.
LEMMA CreditSmall ==
  UdpInv /\ UsefulInv /\ HandlersInv =>
    /\ IsFiniteSet(Credit) /\ Cardinality(Credit) \in Nat /\ Cardinality(Credit) <= MaxHandlers
<1> SUFFICES ASSUME UdpInv, UsefulInv, HandlersInv
             PROVE  IsFiniteSet(Credit) /\ Cardinality(Credit) \in Nat /\ Cardinality(Credit) <= MaxHandlers
  OBVIOUS
<1>1. Credit \subseteq Handling /\ Handling \in SUBSET Writer /\ Credit \in SUBSET Writer
  BY DEF Credit, Handling, UsefulInv
<1>2. IsFiniteSet(Handling) /\ Cardinality(Handling) \in Nat /\ IsFiniteSet(Credit) /\ Cardinality(Credit) \in Nat
  BY <1>1, WriterFinite
<1>3. Cardinality(Credit) <= Cardinality(Handling)
  BY <1>1, <1>2, FS_Subset
<1> QED BY <1>2, <1>3, LimitAssumption DEF HandlersInv

\* Below the cap the sum is within its bound by itself.
LEMMA BelowCap ==
  UdpInv /\ UsefulInv /\ HandlersInv /\ IsFiniteSet(Mapped) /\ Cardinality(Mapped) < MaxSessions => CapInv
<1> SUFFICES ASSUME UdpInv, UsefulInv, HandlersInv, IsFiniteSet(Mapped), Cardinality(Mapped) < MaxSessions
             PROVE  CapInv
  OBVIOUS
<1>1. Cardinality(Mapped) \in Nat /\ Cardinality(Credit) \in Nat /\ Cardinality(Credit) <= MaxHandlers
  BY CreditSmall, FS_CardinalityType
<1>2. MaxSessions \in Nat /\ MaxHandlers \in Nat /\ blind \in Nat
  BY LimitAssumption DEF UdpInv, TypeOK
<1> QED BY <1>1, <1>2 DEF CapInv

\* The same facts, of the state a step leads to.
LEMMA NextState ==
  ASSUME UdpInv', UsefulInv', HandlersInv'
  PROVE  /\ IsFiniteSet(Credit') /\ Cardinality(Credit') \in Nat
         /\ IsFiniteSet(Mapped') /\ Cardinality(Mapped') < MaxSessions => CapInv'
<1>1. (UdpInv /\ UsefulInv /\ HandlersInv =>
         /\ IsFiniteSet(Credit) /\ Cardinality(Credit) \in Nat /\ Cardinality(Credit) <= MaxHandlers)'
  BY CreditSmall, PTL
<1>2. (UdpInv /\ UsefulInv /\ HandlersInv /\ IsFiniteSet(Mapped) /\ Cardinality(Mapped) < MaxSessions
         => CapInv)'
  BY BelowCap, PTL
<1> QED BY <1>1, <1>2

\* The sum after a step: sessions and credits that come and go.
LEMMA LoadStep ==
  ASSUME UdpInv, LoadInv, UdpInv', UsefulInv', HandlersInv', NEW w \in Writer,
         \/ /\ Mapped' = Mapped /\ blind' = blind /\ Credit' \subseteq Credit
         \/ /\ Mapped' = Mapped /\ blind' = blind + 1 /\ Credit' \subseteq Credit \cup {w}
         \/ /\ \E r \in Mapped : Mapped' = Mapped \ {r}
            /\ blind' = blind /\ Credit' \subseteq Credit \cup {w}
         \/ /\ \E s : s \notin Mapped /\ Mapped' = Mapped \cup {s}
            /\ blind' = blind /\ w \in Credit /\ Credit' \subseteq Credit \ {w}
  PROVE  LoadInv'
<1>i. UsefulInv /\ HandlersInv /\ IsFiniteSet(Mapped) /\ CapInv
  BY DEF LoadInv
<1>1. /\ IsFiniteSet(Credit) /\ Cardinality(Credit) \in Nat
      /\ IsFiniteSet(Credit') /\ Cardinality(Credit') \in Nat /\ Cardinality(Mapped) \in Nat
  BY <1>i, CreditSmall, NextState, FS_CardinalityType
<1>2. MaxSessions \in Nat /\ MaxHandlers \in Nat /\ blind \in Nat /\ blind' \in Nat
  BY LimitAssumption DEF UdpInv, TypeOK
<1>3. Credit' \subseteq Credit => Cardinality(Credit') <= Cardinality(Credit)
  BY <1>1, FS_Subset
<1>4. Credit' \subseteq Credit \cup {w} => Cardinality(Credit') <= Cardinality(Credit) + 1
  <2> SUFFICES ASSUME Credit' \subseteq Credit \cup {w} PROVE Cardinality(Credit') <= Cardinality(Credit) + 1
    OBVIOUS
  <2>1. /\ IsFiniteSet(Credit \cup {w})
        /\ Cardinality(Credit \cup {w}) = IF w \in Credit THEN Cardinality(Credit) ELSE Cardinality(Credit) + 1
    BY <1>1, FS_AddElement
  <2>2. Cardinality(Credit') <= Cardinality(Credit \cup {w})
    BY <2>1, FS_Subset
  <2> QED BY <2>1, <2>2, <1>1
<1>5. w \in Credit /\ Credit' \subseteq Credit \ {w} => Cardinality(Credit') <= Cardinality(Credit) - 1
  <2> SUFFICES ASSUME w \in Credit, Credit' \subseteq Credit \ {w} PROVE Cardinality(Credit') <= Cardinality(Credit) - 1
    OBVIOUS
  <2>1. IsFiniteSet(Credit \ {w}) /\ Cardinality(Credit \ {w}) = Cardinality(Credit) - 1
    BY <1>1, FS_RemoveElement
  <2>2. Cardinality(Credit') <= Cardinality(Credit \ {w})
    BY <2>1, FS_Subset
  <2> QED BY <2>1, <2>2, <1>1
<1>6. CASE Mapped' = Mapped
  <2>1. IsFiniteSet(Mapped') /\ Cardinality(Mapped') = Cardinality(Mapped)
    BY <1>6, <1>i
  <2>2. \/ blind' = blind /\ Credit' \subseteq Credit
        \/ blind' = blind + 1 /\ Credit' \subseteq Credit \cup {w}
        \/ \E r \in Mapped : Mapped' = Mapped \ {r}
        \/ \E s : s \notin Mapped /\ Mapped' = Mapped \cup {s}
    OBVIOUS
  <2>3. ~ \E r \in Mapped : Mapped' = Mapped \ {r}
    BY <1>6
  <2>4. ~ \E s : s \notin Mapped /\ Mapped' = Mapped \cup {s}
    BY <1>6
  <2>5. CapInv'
    BY <2>1, <2>2, <2>3, <2>4, <1>i, <1>1, <1>2, <1>3, <1>4 DEF CapInv
  <2> QED BY <2>1, <2>5 DEF LoadInv
<1>7. ASSUME NEW r \in Mapped, Mapped' = Mapped \ {r}, blind' = blind, Credit' \subseteq Credit \cup {w}
      PROVE  LoadInv'
  <2>1. IsFiniteSet(Mapped') /\ Cardinality(Mapped') = Cardinality(Mapped) - 1
    BY <1>7, <1>i, FS_RemoveElement
  <2>2. CapInv'
    BY <2>1, <1>7, <1>i, <1>1, <1>2, <1>4 DEF CapInv
  <2> QED BY <2>1, <2>2 DEF LoadInv
<1>8. ASSUME NEW s, s \notin Mapped, Mapped' = Mapped \cup {s}, blind' = blind,
             w \in Credit, Credit' \subseteq Credit \ {w}
      PROVE  LoadInv'
  <2>1. IsFiniteSet(Mapped') /\ Cardinality(Mapped') = Cardinality(Mapped) + 1
    BY <1>8, <1>i, FS_AddElement
  <2>2. CapInv'
    BY <2>1, <1>8, <1>i, <1>1, <1>2, <1>5 DEF CapInv
  <2> QED BY <2>1, <2>2 DEF LoadInv
<1> QED BY <1>6, <1>7, <1>8

\* What is to a handler's credit, and the number of handlers, whatever the step.
LEMMA UsefulStep == ASSUME UdpInv, UsefulInv, Next PROVE UsefulInv'
<1> USE DEF UsefulInv, HGoto
<1>t. hpc \in [Writer -> Stages] /\ useful \subseteq Writer
  BY DEF UdpInv, TypeOK, Stages
<1>1. ASSUME NEW w \in Writer,
             ChannelOpens(w) \/ ReadFails(w) \/ Send(w) \/ SendFails(w) \/ RemoveWriter(w)
             \/ Put(w) \/ SendClose(w) \/ SweepClose(w) \/ \E f \in Flow : ReadFrame(w, f)
      PROVE UsefulInv'
  BY <1>1, <1>t DEF ChannelOpens, ReadFails, Send, SendFails, RemoveWriter, Put, SendClose, SweepClose, ReadFrame
<1>2. ASSUME NEW w \in Writer, EvictIfNeeded(w) \/ Sweep(w) \/ EvictClose(w) \/ Create(w) \/ CreateFails(w)
      PROVE UsefulInv'
  BY <1>2, <1>t DEF EvictIfNeeded, Sweep, EvictClose, Create, CreateFails
<1>3. ASSUME (\E s \in Session : Select(s) \/ CleanupIdle(s)) \/ Selector
      PROVE UsefulInv'
  BY <1>3 DEF Select, CleanupIdle, Selector, SelectorDies, ReadReply, ReadReplyFails, SelectorClose, handlerVars
<1> QED BY <1>1, <1>2, <1>3 DEF Next, Handler

LEMMA HandlersStep == ASSUME UdpInv, HandlersInv, Next PROVE HandlersInv'
<1>t. hpc \in [Writer -> Stages]
  BY DEF UdpInv, TypeOK, Stages
<1>f. /\ IsFiniteSet(Handling) /\ IsFiniteSet(Handling')
      /\ Cardinality(Handling) \in Nat /\ Cardinality(Handling') \in Nat /\ MaxHandlers \in Nat
  BY WriterFinite, LimitAssumption DEF Handling
<1>1. ASSUME NEW w \in Writer, ChannelOpens(w) PROVE HandlersInv'
  <2>1. Handling' \subseteq Handling \cup {w} /\ Cardinality(Handling) < MaxHandlers
    BY <1>1, <1>t DEF ChannelOpens, HGoto, Handling
  <2>2. IsFiniteSet(Handling \cup {w}) /\ Cardinality(Handling \cup {w}) <= Cardinality(Handling) + 1
    <3>1. /\ IsFiniteSet(Handling \cup {w})
          /\ Cardinality(Handling \cup {w}) = IF w \in Handling THEN Cardinality(Handling) ELSE Cardinality(Handling) + 1
      BY <1>f, FS_AddElement
    <3> QED BY <3>1, <1>f
  <2>3. Cardinality(Handling') <= Cardinality(Handling \cup {w}) /\ Cardinality(Handling \cup {w}) \in Nat
    BY <2>1, <2>2, FS_Subset, FS_CardinalityType
  <2> QED BY <2>1, <2>2, <2>3, <1>f DEF HandlersInv
<1>2. ASSUME Handling' \subseteq Handling PROVE HandlersInv'
  <2>1. Cardinality(Handling') <= Cardinality(Handling)
    BY <1>2, <1>f, FS_Subset
  <2> QED BY <2>1, <1>f DEF HandlersInv
<1> USE DEF HGoto, Handling
<1>3. ASSUME NEW w \in Writer,
             ReadFails(w) \/ Send(w) \/ SendFails(w) \/ RemoveWriter(w)
             \/ Put(w) \/ SendClose(w) \/ SweepClose(w) \/ \E f \in Flow : ReadFrame(w, f)
      PROVE Handling' \subseteq Handling
  BY <1>3, <1>t DEF ReadFails, Send, SendFails, RemoveWriter, Put, SendClose, SweepClose, ReadFrame
<1>4. ASSUME NEW w \in Writer, EvictIfNeeded(w) \/ Sweep(w) \/ EvictClose(w) \/ Create(w) \/ CreateFails(w)
      PROVE Handling' \subseteq Handling
  BY <1>4, <1>t DEF EvictIfNeeded, Sweep, EvictClose, Create, CreateFails
<1>5. ASSUME (\E s \in Session : Select(s) \/ CleanupIdle(s)) \/ Selector
      PROVE Handling' \subseteq Handling
  BY <1>5 DEF Select, CleanupIdle, Selector, SelectorDies, ReadReply, ReadReplyFails, SelectorClose, handlerVars
<1> QED BY <1>1, <1>2, <1>3, <1>4, <1>5 DEF Next, Handler

\* The steps that neither add to the table nor take from it.
LEMMA QuietLoad ==
  ASSUME UdpInv, LoadInv, UdpInv', UsefulInv', HandlersInv', NEW w \in Writer,
         \/ ChannelOpens(w) \/ ReadFails(w) \/ Create(w) \/ CreateFails(w) \/ Send(w) \/ SendFails(w)
         \/ RemoveWriter(w) \/ Sweep(w) \/ \E f \in Flow : ReadFrame(w, f)
         \/ \E s \in Session : Select(s) \/ CleanupIdle(s)
         \/ SelectorDies \/ ReadReply \/ ReadReplyFails
  PROVE  LoadInv'
<1>t. hpc \in [Writer -> Stages]
  BY DEF UdpInv, TypeOK, Stages
<1>1. Mapped' = Mapped /\ blind' = blind
  BY DEF ChannelOpens, ReadFails, Create, CreateFails, Send, SendFails, RemoveWriter, Sweep, ReadFrame,
         Select, CleanupIdle, SelectorDies, ReadReply, ReadReplyFails, tableVars, Mapped
<1>2. useful' = useful
  BY DEF ChannelOpens, ReadFails, Create, CreateFails, Send, SendFails, RemoveWriter, Sweep, ReadFrame,
         Select, CleanupIdle, SelectorDies, ReadReply, ReadReplyFails, handlerVars
<1>3. \A v \in Writer : hpc'[v] \in {"create", "put"} => hpc[v] \in {"create", "put"}
  BY <1>t DEF ChannelOpens, ReadFails, Create, CreateFails, Send, SendFails, RemoveWriter, Sweep, ReadFrame,
         Select, CleanupIdle, SelectorDies, ReadReply, ReadReplyFails, handlerVars, HGoto
<1>4. Credit' \subseteq Credit
  BY <1>2, <1>3 DEF Credit
<1> QED BY <1>1, <1>4, LoadStep

\* One turn of evictIfNeeded, and its end.
LEMMA EvictLoad ==
  ASSUME UdpInv, LoadInv, UdpInv', UsefulInv', HandlersInv', NEW w \in Writer, EvictIfNeeded(w)
  PROVE  LoadInv'
<1>t. hpc \in [Writer -> Stages] /\ IsFiniteSet(Mapped)
  BY DEF UdpInv, TypeOK, Stages, LoadInv
<1>1. Mapped' = Mapped
  BY DEF EvictIfNeeded, Mapped
<1>2. CASE OverCap /\ evicted[w] < EvictBatch
  <2>1. hpc' = [hpc EXCEPT ![w] = "evictClose"] /\ useful' = useful /\ blind' = blind
    BY <1>2 DEF EvictIfNeeded, HGoto
  <2>2. Credit' \subseteq Credit
    BY <2>1, <1>t DEF Credit
  <2> QED BY <1>1, <2>1, <2>2, LoadStep
<1>3. CASE ~(OverCap /\ evicted[w] < EvictBatch)
  <2>1. /\ hpc' = [hpc EXCEPT ![w] = "create"] /\ useful' = useful \ {w}
        /\ blind' = IF OverCap /\ w \notin useful THEN blind + 1 ELSE blind
    BY <1>3 DEF EvictIfNeeded, HGoto
  <2>2. Credit' \subseteq Credit \cup {w}
    BY <2>1, <1>t DEF Credit
  <2>3. CASE ~OverCap
    <3>1. Cardinality(Mapped) < MaxSessions
      BY <2>3, <1>t, FS_CardinalityType, LimitAssumption DEF OverCap
    <3> QED BY <3>1, <1>1, <1>t, NextState DEF LoadInv
  <2>4. CASE OverCap /\ w \in useful
    <3>1. Credit' \subseteq Credit /\ blind' = blind
      BY <2>1, <2>2, <2>4 DEF Credit
    <3> QED BY <1>1, <3>1, LoadStep
  <2>5. CASE OverCap /\ w \notin useful
    <3>1. blind' = blind + 1
      BY <2>1, <2>5
    <3> QED BY <1>1, <2>2, <3>1, LoadStep
  <2> QED BY <2>3, <2>4, <2>5
<1> QED BY <1>2, <1>3

\* closeSession and the size of the table.
LEMMA CloseLoad ==
  ASSUME UdpInv, LoadInv, UdpInv', UsefulInv', HandlersInv',
         NEW w \in Writer, NEW k \in Key, NEW s \in Session, CloseSession(k, s),
         Credit' \subseteq Credit \cup {w},
         table[k] = NoSession => Credit' \subseteq Credit
  PROVE  LoadInv'
<1>1. table \in [Key -> Session \union {NoSession}] /\ TableInv /\ IsFiniteSet(Mapped)
  BY DEF UdpInv, TypeOK, LoadInv
<1>2. /\ table' = [table EXCEPT ![k] = NoSession]
      /\ blind' = IF Cardinality(Mapped \ {table[k]}) < MaxSessions THEN 0 ELSE blind
  BY DEF CloseSession
<1>3. table'[k] = NoSession /\ \A j \in Key : j # k => table'[j] = table[j]
  BY <1>1, <1>2
<1>4. \A j \in Key : j # k => table[j] = NoSession \/ table[j] # table[k]
  BY <1>1 DEF TableInv
<1>5. Mapped' = Mapped \ {table[k]}
  BY <1>3, <1>4 DEF Mapped
<1>6. IsFiniteSet(Mapped')
  BY <1>1, <1>5, FS_Subset
<1>7. CASE Cardinality(Mapped') < MaxSessions
  BY <1>6, <1>7, NextState DEF LoadInv
<1>8. CASE ~(Cardinality(Mapped') < MaxSessions)
  <2>1. blind' = blind
    BY <1>2, <1>5, <1>8
  <2>2. CASE table[k] = NoSession
    <3>1. Mapped' = Mapped
      BY <2>2, <1>5 DEF Mapped
    <3> QED BY <2>1, <2>2, <3>1, LoadStep
  <2>3. CASE table[k] # NoSession
    <3>1. table[k] \in Mapped
      BY <2>3 DEF Mapped
    <3> QED BY <2>1, <3>1, <1>5, LoadStep
  <2> QED BY <2>2, <2>3
<1> QED BY <1>7, <1>8

\* The four callers of closeSession; the selector closes for nobody's credit.
LEMMA ClosingLoad ==
  ASSUME UdpInv, LoadInv, UdpInv', UsefulInv', HandlersInv', NEW w \in Writer,
         EvictClose(w) \/ SendClose(w) \/ SweepClose(w) \/ SelectorClose
  PROVE  LoadInv'
<1>t. hpc \in [Writer -> Stages] /\ HandInv
  BY DEF UdpInv, TypeOK, Stages
<1>1. CASE EvictClose(w)
  <2>1. CloseSession(KeyOf(hand[w]), hand[w]) /\ hand[w] \in Session /\ KeyOf(hand[w]) \in Key
    BY <1>1, <1>t, SessionFacts DEF EvictClose, HandInv, WithSession
  <2>2. /\ hpc' = [hpc EXCEPT ![w] = "evict"]
        /\ useful' = IF table[KeyOf(hand[w])] = NoSession THEN useful ELSE useful \union {w}
    BY <1>1 DEF EvictClose, HGoto
  <2>3. Credit' \subseteq Credit \cup {w} /\ (table[KeyOf(hand[w])] = NoSession => Credit' \subseteq Credit)
    BY <2>2, <1>t DEF Credit
  <2> QED BY <2>1, <2>3, CloseLoad
<1>2. CASE SendClose(w) \/ SweepClose(w)
  <2>1. PICK k \in Key : CloseSession(k, hand[w]) /\ hand[w] \in Session
    BY <1>2, <1>t, SessionFacts DEF SendClose, SweepClose, HandInv, WithFrame, WithSession
  <2>2. Credit' \subseteq Credit
    BY <1>2, <1>t DEF SendClose, SweepClose, HGoto, Credit
  <2> QED BY <2>1, <2>2, CloseLoad
<1>3. CASE SelectorClose
  <2>1. CloseSession(KeyOf(target), target) /\ target \in Session /\ KeyOf(target) \in Key
    BY <1>3, <1>t, SessionFacts DEF SelectorClose, HandInv
  <2>2. Credit' \subseteq Credit
    BY <1>3 DEF SelectorClose, handlerVars, Credit
  <2> QED BY <2>1, <2>2, CloseLoad
<1> QED BY <1>1, <1>2, <1>3

\* putIfAbsent, won or lost, uses up its handler's credit.
LEMMA PutLoad ==
  ASSUME UdpInv, LoadInv, UdpInv', UsefulInv', HandlersInv', NEW w \in Writer, Put(w)
  PROVE  LoadInv'
<1>t. /\ hpc \in [Writer -> Stages] /\ table \in [Key -> Session \union {NoSession}]
      /\ HandInv /\ PutInv /\ UsefulInv
  BY DEF UdpInv, TypeOK, Stages, LoadInv
<1>1. /\ hpc[w] = "put" /\ hpc' = [hpc EXCEPT ![w] = "send"] /\ useful' = useful /\ blind' = blind
      /\ HKey(w) \in Key /\ hand[w] \in Session /\ \A j \in Key : table[j] # hand[w]
  BY <1>t DEF Put, HGoto, HandInv, PutInv, WithFrame, WithSession
<1>2. w \in Credit /\ Credit' \subseteq Credit \ {w}
  BY <1>1, <1>t DEF Credit, UsefulInv
<1>3. CASE table[HKey(w)] = NoSession
  <2>1. table' = [table EXCEPT ![HKey(w)] = hand[w]]
    BY <1>3 DEF Put
  <2>2. table'[HKey(w)] = hand[w] /\ \A j \in Key : j # HKey(w) => table'[j] = table[j]
    BY <2>1, <1>1, <1>t
  <2>3. Mapped' = Mapped \cup {hand[w]} /\ hand[w] \notin Mapped
    BY <2>2, <1>1, <1>3, SessionFacts DEF Mapped
  <2> QED BY <2>3, <1>1, <1>2, LoadStep
<1>4. CASE table[HKey(w)] # NoSession
  <2>1. Mapped' = Mapped
    BY <1>4 DEF Put, Mapped
  <2> QED BY <2>1, <1>1, <1>2, LoadStep
<1> QED BY <1>3, <1>4

\* The sum never exceeds its bound.
THEOREM LoadInvariant == Spec => []LoadInv
<1>1. Init => LoadInv
  <2> SUFFICES ASSUME Init PROVE LoadInv
    OBVIOUS
  <2>1. Mapped = {} /\ Handling = {} /\ Credit = {} /\ UsefulInv /\ blind = 0
    BY DEF Init, Mapped, Handling, Credit, UsefulInv
  <2>2. IsFiniteSet({}) /\ Cardinality({}) = 0
    BY FS_EmptySet
  <2> QED BY <2>1, <2>2, LimitAssumption DEF LoadInv, HandlersInv, CapInv
<1>2. UdpInv /\ UdpInv' /\ LoadInv /\ [Next]_vars => LoadInv'
  <2> SUFFICES ASSUME UdpInv, UdpInv', LoadInv, [Next]_vars PROVE LoadInv'
    OBVIOUS
  <2>i. UsefulInv /\ HandlersInv /\ IsFiniteSet(Mapped) /\ CapInv
    BY DEF LoadInv
  <2>1. CASE UNCHANGED vars
    <3> USE <2>1 DEF vars, tableVars, handlerVars, selectorVars
    <3>1. UsefulInv' /\ Mapped' = Mapped /\ Handling' = Handling /\ Credit' = Credit /\ blind' = blind
      BY <2>i DEF UsefulInv, Mapped, Handling, Credit
    <3> QED BY <3>1, <2>i DEF LoadInv, HandlersInv, CapInv
  <2>2. CASE Next
    <3>1. UsefulInv' /\ HandlersInv'
      BY <2>2, <2>i, UsefulStep, HandlersStep
    <3>2. ASSUME NEW w \in Writer,
                 ChannelOpens(w) \/ ReadFails(w) \/ Handler(w) \/ \E f \in Flow : ReadFrame(w, f)
          PROVE  LoadInv'
      BY <3>1, <3>2, QuietLoad, EvictLoad, ClosingLoad, PutLoad DEF Handler
    <3>3. CASE (\E s \in Session : Select(s) \/ CleanupIdle(s)) \/ Selector
      <4>0. PICK s \in Session : TRUE
        BY <3>3 DEF UdpInv, HandInv, Selector, SelectorDies, ReadReply, ReadReplyFails, SelectorClose
      <4>1. PICK w \in Writer : TRUE
        BY <4>0, SessionFacts, NameAssumption
      <4> QED BY <3>1, <3>3, <4>1, QuietLoad, ClosingLoad DEF Selector
    <3> QED BY <2>2, <3>2, <3>3 DEF Next
  <2> QED BY <2>1, <2>2
<1> QED BY <1>1, <1>2, UdpInvariant, PTL DEF Spec

\* However handlers race to the cap, and however many run at once, the table
\* of UdpSessions outgrows MAX_UDP_SESSIONS by no more than one session for each
\* of them and one for each pass on evictions that all came too late.
THEOREM TableIsBounded == Spec => []TableBounded
<1>1. UdpInv /\ LoadInv => TableBounded
  <2> SUFFICES ASSUME UdpInv, LoadInv PROVE TableBounded
    OBVIOUS
  <2>1. Cardinality(Mapped) \in Nat /\ Cardinality(Credit) \in Nat
    BY CreditSmall, FS_CardinalityType DEF LoadInv
  <2>2. MaxSessions \in Nat /\ MaxHandlers \in Nat /\ blind \in Nat
    BY LimitAssumption DEF UdpInv, TypeOK
  <2> QED BY <2>1, <2>2 DEF LoadInv, CapInv, TableBounded
<1> QED BY <1>1, UdpInvariant, LoadInvariant, PTL

=============================================================================
