------------------------------ MODULE DhtTable ------------------------------
(***************************************************************************)
(* Client, internal/dht (table, kbucket, iterative, rpc) and the loops of  *)
(* internal/vpn that fill the table: the signed bootstrap list, the gossip *)
(* mesh, the DHT probe and the iterative search.  The loops of a session   *)
(* run side by side, ask over an unreliable network and insert what they   *)
(* got one node at a time.  The table belongs to the process: it outlives  *)
(* the session, and a cancelled session's loop still inserts its last      *)
(* batch.                                                                  *)
(*                                                                         *)
(* An identifier is its XOR distance from the client's own.                *)
(***************************************************************************)
EXTENDS Integers, Sequences, FiniteSets, SequencesExt

CONSTANTS
    Bits,         \* width of an identifier (256)
    K,            \* bucketK (20)
    MaxEntries,   \* maxEntries (2048)
    Nodes,        \* node records [id, cls, at, rpc] the sources may name
    FindK, Alpha, \* dhtRpcFindK, dhtIterativeAlpha
    Profiles,     \* [allow, rounds]: allowed classes ({}: every class), dhtIterativeRounds
    Job,          \* loops at work at the same time
    MaxJobs, MaxSessions       \* bounds

\* 2^n.
Power[n \in 0 .. Bits] == IF n = 0 THEN 1 ELSE 2 * Power[n - 1]

ASSUME TableAssumption ==
    /\ Bits \in Nat \ {0} /\ K \in Nat \ {0} /\ MaxEntries \in Nat \ {0}
    /\ \A n \in Nodes : n.id \in 0 .. Power[Bits] - 1 /\ n.at \in Nat /\ n.rpc \in BOOLEAN
    /\ FindK \in Nat /\ Alpha \in Nat \ {0}
    /\ MaxJobs \in Nat /\ MaxSessions \in Nat

VARIABLES
    table,        \* byID and the buckets
    job,          \* the loops
    profile,      \* the relay options of the current session
    spentJobs,    \* loops started, sessions begun
    inserted,     \* ghost: every identifier inserted so far
    put           \* ghost: the options under which an entry was put

tableVars == <<table, job, profile, spentJobs, inserted, put>>

Bucket == 0 .. Bits - 1
AnyNode == [allow |-> {}, rounds |-> 0]
Idle == [kind |-> "idle", by |-> AnyNode, todo |-> <<>>, addrs |-> <<>>, seen |-> {}, asked |-> {},
         batch |-> <<>>, round |-> 0]

TableInit ==
    /\ table = [by |-> <<>>, buckets |-> [b \in Bucket |-> {}]]
    /\ job = [w \in Job |-> Idle]
    /\ profile \in Profiles
    /\ spentJobs = [jobs |-> 0, sessions |-> 1]
    /\ inserted = {} /\ put = <<>>

----------------------------------------------------------------------------
\* The table.

\* xorLeadingBitIdx: bucket i has the distances with i leading zeros; the
\* client's own identifier shares the last bucket with distance 1.
BucketOf(id) ==
    IF id = 0 THEN Bits - 1 ELSE CHOOSE b \in Bucket : Power[Bits - 1 - b] <= id /\ id < Power[Bits - b]

Farthest(S) == CHOOSE x \in S : \A y \in S : y <= x

DropContact(t, id) ==
    [by |-> [x \in DOMAIN t.by \ {id} |-> t.by[x]],
     buckets |-> [t.buckets EXCEPT ![BucketOf(id)] = @ \ {id}]]

\* Mutant: a full bucket turns the first of its contacts away, whichever it is.
TrimsNearest(t, b) ==
    IF Cardinality(t.buckets[b]) > K
      THEN DropContact(t, CHOOSE x \in t.buckets[b] : \A y \in t.buckets[b] : x <= y)
      ELSE t

\* Both loops run at most once: an insert adds one entry.
TrimBucket(t, b) ==
    IF Cardinality(t.buckets[b]) > K THEN DropContact(t, Farthest(t.buckets[b])) ELSE t
EvictOneFarthest(t) ==
    IF Cardinality(DOMAIN t.by) > MaxEntries THEN DropContact(t, Farthest(DOMAIN t.by)) ELSE t

\* A node known already is replaced, whichever record is the newer.
Insert(t, n) ==
    LET by == [x \in DOMAIN t.by \cup {n.id} |-> IF x = n.id THEN n ELSE t.by[x]]
        b == BucketOf(n.id)
    IN  IF n.id \in DOMAIN t.by
          THEN [t EXCEPT !.by = by]
          ELSE EvictOneFarthest(TrimBucket([by |-> by, buckets |-> [t.buckets EXCEPT ![b] = @ \cup {n.id}]], b))

\* Nearest first, and only those with an address for DHT requests.
Nearest(t) == SetToSortSeq(DOMAIN t.by, <)
RpcAddrs(t) == SelectSeq(Nearest(t), LAMBDA id : t.by[id].rpc)

----------------------------------------------------------------------------
\* What the loops ask and what they make of the answers.

\* applyRelayProductFilters: the class filter stands for the three.
Admits(p, n) == p.allow = {} \/ n.cls \in p.allow
Filter(p, nodes) ==
    LET kept[i \in 0 .. Len(nodes)] ==
          IF i = 0 THEN <<>>
          ELSE IF Admits(p, nodes[i]) THEN Append(kept[i - 1], nodes[i]) ELSE kept[i - 1]
    IN  kept[Len(nodes)]

\* MergeGossip: an update replaces an older record of the same node, and one
\* that is too old (at = 0) goes.  The result is ordered by name, which says
\* nothing of the distance: any order.
MergeGossip(base, updates) ==
    LET kept == {n \in base : \A m \in updates : m.id = n.id => m.at <= n.at}
        new == {n \in updates : \A m \in base : m.id = n.id => m.at < n.at}
    IN  {n \in kept \cup new : n.at > 0}

\* What a gossip peer and a find URL deliver; a source that fails is skipped.
FetchGossipHTTP == {{}} \cup {{n} : n \in Nodes}
FetchFindNearest == {{}} \cup {{n} : n \in Nodes}
\* The lists whose signature and date hold, from the URL or the configuration.
\* Any other list, and a failed fetch, changes nothing.
VerifiedLists == {<<n>> : n \in Nodes}

\* A FIND_NODE request carries k, at most 256, in a byte; the node asked answers
\* with the nearest it knows.  A reply over 48000 bytes is cut and does not parse.
KByte(k) == (IF k < 1 THEN 16 ELSE IF k > 256 THEN 256 ELSE k) % 256
FindNodeResp(nodes, k) == SubSeq(nodes, 1, IF k < Len(nodes) THEN k ELSE Len(nodes))
Answers == {FindNodeResp(s, KByte(FindK)) : s \in {<<>>} \cup {<<n>> : n \in Nodes}}

\* dhtRPCSeeds: a configured seed (address -1), then the table, then the cluster map.
DhtRPCSeeds == <<-1>> \o RpcAddrs(table)

\* pickQueryAddrs: seeds before the table, none of an earlier round; an address
\* that is a seed and in the table is asked twice in one round.
PickQueryAddrs(j) ==
    LET fresh == SelectSeq(j.addrs \o RpcAddrs(table), LAMBDA a : a \notin j.seen)
    IN  SubSeq(fresh, 1, IF Alpha < Len(fresh) THEN Alpha ELSE Len(fresh))

Start(w, j) ==
    /\ job[w] = Idle /\ spentJobs.jobs < MaxJobs
    /\ spentJobs' = [spentJobs EXCEPT !.jobs = @ + 1]
    /\ job' = [job EXCEPT ![w] = [j EXCEPT !.by = profile]]
    /\ UNCHANGED <<table, profile, inserted, put>>
KeepTable == UNCHANGED <<table, profile, spentJobs, inserted, put>>

\* applyRaw.
BootstrapOnce(w) ==
    \E list \in VerifiedLists : Start(w, [Idle EXCEPT !.kind = "merge", !.todo = Filter(profile, list)])

\* runGossipMeshOnce over a gossip peer and a find URL.
GossipOnce(w) ==
    \E gossip \in FetchGossipHTTP, found \in FetchFindNearest :
      \E merged \in SetToSeqs(MergeGossip(MergeGossip({}, gossip), found)) :
        Start(w, [Idle EXCEPT !.kind = "merge", !.todo = Filter(profile, merged)])

\* runDhtRpcProbe: the addresses are collected once and asked in turn.
StartProbe(w) == profile.rounds = 0 /\ Start(w, [Idle EXCEPT !.kind = "probe", !.addrs = DhtRPCSeeds])
StartSearch(w) == profile.rounds > 0 /\ Start(w, [Idle EXCEPT !.kind = "search", !.addrs = DhtRPCSeeds])

ProbeNext(w) ==
    LET j == job[w]
    IN  /\ j.kind = "probe" /\ j.todo = <<>> /\ j.addrs # <<>>
        /\ \E ans \in Answers : job' = [job EXCEPT ![w].addrs = Tail(j.addrs), ![w].todo = Filter(j.by, ans)]
        /\ KeepTable

\* IterativeFindNode: a round asks up to Alpha addresses at once ...
NextRound(w) ==
    LET j == job[w]
        next == PickQueryAddrs(j)
    IN  /\ j.kind = "search" /\ j.todo = <<>> /\ j.asked = {}
        /\ j.round < j.by.rounds /\ next # <<>>
        /\ job' = [job EXCEPT ![w].asked = {<<i, next[i]>> : i \in 1 .. Len(next)},
                              ![w].seen = j.seen \cup ToSet(next), ![w].round = j.round + 1]
        /\ KeepTable

\* Mutant: what comes back is not filtered.
TakesEverything(w, a, ans) ==
    LET j == job[w]
        batch == j.batch \o ans
        last == j.asked = {a}
    IN  /\ a \in j.asked
        /\ job' = [job EXCEPT ![w].asked = j.asked \ {a},
                              ![w].batch = IF last THEN <<>> ELSE batch, ![w].todo = IF last THEN batch ELSE <<>>]
        /\ KeepTable

\* ... whose answers (none: an error, a timeout, a wrong MAC) are collected in
\* the order they come in, and inserted when all have.
Answered(w, a, ans) ==
    LET j == job[w]
        batch == j.batch \o Filter(j.by, ans)
        last == j.asked = {a}
    IN  /\ a \in j.asked
        /\ job' = [job EXCEPT ![w].asked = j.asked \ {a},
                              ![w].batch = IF last THEN <<>> ELSE batch, ![w].todo = IF last THEN batch ELSE <<>>]
        /\ KeepTable

\* Merge: one insert at a time, each under the table's lock.
MergeNext(w) ==
    LET j == job[w]
        n == Head(j.todo)
        t == Insert(table, n)
    IN  /\ j.todo # <<>>
        /\ table' = t
        /\ job' = [job EXCEPT ![w].todo = Tail(j.todo)]
        /\ inserted' = inserted \cup {n.id}
        /\ put' = [x \in DOMAIN t.by |-> IF x = n.id THEN j.by ELSE put[x]]
        /\ UNCHANGED <<profile, spentJobs>>

JobEnds(w) ==
    LET j == job[w]
    IN  /\ j.todo = <<>> /\ j.asked = {}
        /\ \/ j.kind = "merge"
           \/ j.kind = "probe" /\ j.addrs = <<>>
           \/ j.kind = "search" /\ (j.round = j.by.rounds \/ PickQueryAddrs(j) = <<>>)
        /\ job' = [job EXCEPT ![w] = Idle]
        /\ KeepTable

\* Another profile is connected: nothing of the table is taken back.
NewSession ==
    /\ spentJobs.sessions < MaxSessions
    /\ spentJobs' = [spentJobs EXCEPT !.sessions = @ + 1]
    /\ profile' \in Profiles
    /\ UNCHANGED <<table, job, inserted, put>>

TableNext ==
    \/ NewSession
    \/ \E w \in Job :
         \/ BootstrapOnce(w) \/ GossipOnce(w) \/ StartProbe(w) \/ StartSearch(w)
         \/ ProbeNext(w) \/ NextRound(w) \/ MergeNext(w) \/ JobEnds(w)
         \/ \E a \in job[w].asked, ans \in Answers : Answered(w, a, ans)

----------------------------------------------------------------------------
Closer(S, id) == {x \in S : x < id}

\* Of all the nodes ever inserted, in whatever order and by whichever loop, one
\* is missing only where nearer ones fill its bucket or the whole table; and the
\* buckets, which the trimming counts, hold exactly what the map holds.
KeepsNearest ==
    /\ \A b \in Bucket : table.buckets[b] = {x \in DOMAIN table.by : BucketOf(x) = b}
    /\ \A id \in inserted \ DOMAIN table.by :
         \/ Cardinality(Closer(table.buckets[BucketOf(id)], id)) >= K
         \/ Cardinality(Closer(DOMAIN table.by, id)) >= MaxEntries

\* Every node the client may relay through or punch towards passed the filters
\* of the session that put it there; one that the current profile would refuse
\* is left from a session with another profile.
OnlyAdmitted ==
    \A id \in DOMAIN table.by :
      /\ Admits(put[id], table.by[id])
      /\ ~Admits(profile, table.by[id]) => put[id] # profile

=============================================================================
