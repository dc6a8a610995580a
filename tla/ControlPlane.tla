---------------------------- MODULE ControlPlane ----------------------------
(***************************************************************************)
(* Client, internal/vpn/control_store_forward.go over internal/dht's       *)
(* KVStore: a peer queues messages, stores each at every seed under a key  *)
(* of its own and under the peer's head key, which the next message takes  *)
(* over; another client reads the head and counts what it has not seen.    *)
(* Stores and reads may be lost, a store may be overtaken by later ones.   *)
(***************************************************************************)
EXTENDS Integers, Sequences, FiniteSets

CONSTANTS
    CpSeed,       \* seeds
    MsgTtl,       \* life of a message and of its records, in rounds
    KVMaxKeys,    \* KVMaxKeys (8192)
    SeenMax,      \* cpSeenMax (8192)
    SeenTtl,      \* cpSeenTTL (24 hours), in rounds
    MaxClock,     \* bound: rounds; the queue is flushed once in each
    MaxAstray     \* bound: stores held up in the network

ASSUME ControlAssumption ==
    /\ MsgTtl \in Nat \ {0} /\ KVMaxKeys \in Nat \ {0} /\ SeenMax \in Nat /\ SeenTtl \in Nat /\ MaxClock \in Nat /\ MaxAstray \in Nat
    /\ SeenTtl >= MsgTtl /\ SeenMax >= 2 * MsgTtl + 2   \* a message lives 30 seconds, a round is 4
    /\ CpSeed # {}

VARIABLES
    clock, due,   \* rounds of the sender; the flush of this one is still to come
    queue,        \* q.pending
    flushing,     \* flushControlQueue: the messages left, the seeds left for the first
    kv,           \* seed -> key -> record
    astray,       \* stores held up in the network, for less than a tick
    seen,         \* the reader's q.seen: message -> when
    counted       \* ghost: message -> the times it was counted

cpVars == <<clock, due, queue, flushing, kv, astray, seen, counted>>

\* Messages are numbered by creation; "hello" is 0.
Head0 == -1
Created(m) == IF m = 0 THEN 0 ELSE m - 1
Message == 0 .. MaxClock + 1

CpInit ==
    /\ clock = 0 /\ due = TRUE
    /\ queue = <<0>>
    /\ flushing = [msgs |-> <<>>, left |-> CpSeed]
    /\ kv = [s \in CpSeed |-> <<>>]
    /\ astray = {} /\ seen = <<>>
    /\ counted = [m \in Message |-> 0]

----------------------------------------------------------------------------
\* KVStore.

WithoutKey(db, key) == [k \in DOMAIN db \ {key} |-> db[k]]

\* mustEvictLocked: one of the records that expire first makes room, the new
\* key's own excepted; also when that key is there already.
Evicted(db, key) ==
    LET others == DOMAIN db \ {key}
        oldest == {k \in others : \A j \in others : db[k].exp <= db[j].exp}
    IN  {WithoutKey(db, k) : k \in oldest}

\* What the store may be after a Put; without a record to evict it refuses.
Put(db, key, m) ==
    LET full == Cardinality(DOMAIN db) >= KVMaxKeys
        rooms == IF full THEN Evicted(db, key) ELSE {db}
        rec == [v |-> m, exp |-> clock + MsgTtl]
    IN  IF rooms = {} THEN {db}
        ELSE {[k \in DOMAIN d \cup {key} |-> IF k = key THEN rec ELSE d[k]] : d \in rooms}

Unexpired(db, key) == key \in DOMAIN db /\ clock <= db[key].exp
\* Get deletes what it finds expired.
Got(db, key) == IF Unexpired(db, key) THEN db ELSE WithoutKey(db, key)

\* The seed's side of a STORE.
ServeStore(s, key, m) == \E db \in Put(kv[s], key, m) : kv' = [kv EXCEPT ![s] = db]

----------------------------------------------------------------------------
\* flushTick: a heartbeat is queued, and the queue is taken whole: a message
\* whose stores fail is not queued again.
FlushTick ==
    /\ due /\ flushing.msgs = <<>> /\ due' = FALSE
    /\ flushing' = [flushing EXCEPT !.msgs = Append(queue, clock + 1)]
    /\ queue' = <<>>
    /\ UNCHANGED <<clock, kv, astray, seen, counted>>

\* One message at one seed: its own key, then the head.  Expired ones are
\* skipped; the order of the seeds depends on the table.
FlushNext ==
    \E s \in flushing.left :
      /\ flushing.msgs # <<>>
      /\ flushing' = IF flushing.left = {s} THEN [msgs |-> Tail(flushing.msgs), left |-> CpSeed]
                     ELSE [flushing EXCEPT !.left = @ \ {s}]
      /\ LET m == Head(flushing.msgs)
         IN  IF Created(m) + MsgTtl <= clock
               THEN UNCHANGED <<kv, astray>>
               ELSE \E own \in {kv[s]} \cup Put(kv[s], m, m) :
                      \/ \E db \in Put(own, Head0, m) : kv' = [kv EXCEPT ![s] = db] /\ UNCHANGED astray
                      \/ kv' = [kv EXCEPT ![s] = own] /\ UNCHANGED astray
                      \/ Cardinality(astray) < MaxAstray /\ kv' = [kv EXCEPT ![s] = own] /\ astray' = astray \cup {[seed |-> s, m |-> m]}
      /\ UNCHANGED <<clock, due, queue, seen, counted>>

LateStore ==
    \E st \in astray :
      /\ astray' = astray \ {st}
      /\ \/ UNCHANGED kv
         \/ ServeStore(st.seed, Head0, st.m)
      /\ UNCHANGED <<clock, due, queue, flushing, seen, counted>>

\* pruneSeenLocked, before the message is looked up: what may be left.  Of too
\* many the oldest go; which of equally old ones the sort does not say.
PruneSeen ==
    LET young == {m \in DOMAIN seen : seen[m] >= clock - SeenTtl}
    IN  IF Cardinality(young) <= SeenMax THEN {young}
        ELSE {S \in SUBSET young : Cardinality(S) = SeenMax /\ \A m \in S, o \in young \ S : seen[o] <= seen[m]}

\* Mutant: the map is trimmed to the newest one.
RemembersOne(s) ==
    /\ kv' = [kv EXCEPT ![s] = Got(@, Head0)]
    /\ IF ~Unexpired(kv[s], Head0) THEN UNCHANGED <<seen, counted>>
       ELSE LET m == kv[s][Head0].v
            IN  /\ seen' = [x \in {m} |-> IF m \in DOMAIN seen THEN seen[m] ELSE clock]
                /\ counted' = IF m \in DOMAIN seen THEN counted ELSE [counted EXCEPT ![m] = @ + 1]
    /\ UNCHANGED <<clock, due, queue, flushing, astray>>

\* pullControlInbox at one seed; an error leaves everything as it is.
PullHead(s) ==
    /\ kv' = [kv EXCEPT ![s] = Got(@, Head0)]
    /\ IF ~Unexpired(kv[s], Head0) THEN UNCHANGED <<seen, counted>>
       ELSE \E kept \in PruneSeen :
              LET m == kv[s][Head0].v
              IN  /\ seen' = [x \in kept \cup {m} |-> IF x \in kept THEN seen[x] ELSE clock]
                  /\ counted' = IF m \in kept THEN counted ELSE [counted EXCEPT ![m] = @ + 1]
    /\ UNCHANGED <<clock, due, queue, flushing, astray>>

\* The next round of the sender: flushing and rounds are one goroutine.  No
\* store is on its way for longer than a round.
RoundEnds ==
    /\ clock < MaxClock /\ clock' = clock + 1
    /\ ~due /\ flushing.msgs = <<>> /\ due' = TRUE
    /\ astray = {}
    /\ UNCHANGED <<queue, flushing, kv, astray, seen, counted>>

CpNext == FlushTick \/ FlushNext \/ LateStore \/ (\E s \in CpSeed : PullHead(s)) \/ RoundEnds

----------------------------------------------------------------------------
\* A message is counted at most once, however its head records are lost,
\* overtaken by later ones, evicted or found at several seeds, although the
\* reader forgets; and no store outgrows its limit.
CountedOnce ==
    /\ \A m \in Message : counted[m] <= 1
    /\ \A s \in CpSeed : Cardinality(DOMAIN kv[s]) <= KVMaxKeys

=============================================================================
