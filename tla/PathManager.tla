---------------------------- MODULE PathManager ----------------------------
(***************************************************************************)
(* Client, internal/tunnel/path_manager.go: statistics per destination,    *)
(* the cooldown during which a destination sticks to TCP, and the choice   *)
(* between the server and a peer.  Decide holds the lock except while it   *)
(* looks for peers; what it knew about the destination may be swept or     *)
(* overtaken by another flow meanwhile.                                    *)
(*                                                                         *)
(* ewmaOK is abstracted: it can fall below one of the thresholds only      *)
(* after two failures, and then whether it is below is left open.          *)
(***************************************************************************)
EXTENDS Integers, Sequences, FiniteSets

CONSTANTS
    Dest,         \* destinations (keys of paths)
    Caller,       \* flows that ask for a decision
    MaxPaths,     \* pathStatMaxEntries
    FailThresh,   \* 3, or 2 when aggressive
    Cooldown,     \* pathCooldown > 0
    PeerDial,     \* PeerPathFromDiscovery
    PeerUse,      \* which of "tcp", "quic", "udp" the relay options allow
    MaxPeerHops,  \* 0: no limit
    Tables,       \* what the DHT table may hold when peers are looked up
    NoAsk         \* no Decide in progress

ASSUME PathAssumption ==
    /\ MaxPaths \in Nat \ {0}
    /\ FailThresh \in {2, 3}
    /\ Cooldown \in BOOLEAN /\ PeerDial \in BOOLEAN
    /\ PeerUse \subseteq {"tcp", "quic", "udp"}
    /\ MaxPeerHops \in Nat

VARIABLES
    touched,      \* keys of paths, least recently touched first
    stat,         \* failStreak (3 and more are alike) and failures seen (2 and more are alike)
    stick,        \* destinations with an entry in tcpStickUntil
    cand,         \* globalCand
    ask,          \* a Decide that is looking for peers, without the lock
    answer,       \* the decision that was returned last
    late          \* ghost: cooldowns set on the word of a statistic that was gone

pathVars == <<touched, stat, stick, cand, ask, answer, late>>

Fresh == [fails |-> 0, slips |-> 0]
Keys == {touched[i] : i \in 1 .. Len(touched)}
Min2(x, y) == IF x < y THEN x ELSE y

\* PathDecision: preference, class, TTL, and how many candidates of each kind.
Direct(pref) == [pref |-> pref, class |-> "direct", ttl |-> 1, hops |-> 0, tcp |-> 0, quic |-> 0, udp |-> 0]

PathInit ==
    /\ touched = <<>>
    /\ stat = [d \in Dest |-> Fresh]
    /\ stick = {} /\ late = {}
    /\ cand = "unknown"
    /\ ask = [c \in Caller |-> NoAsk]
    /\ answer = Direct(FALSE)

----------------------------------------------------------------------------
\* Mutant: the sweep keeps one entry more than the limit.
SweepsMore == {n \in 0 .. Len(touched) : Len(touched) - n <= MaxPaths + 1}

\* sweepPathsLocked: entries older than the TTL, then the oldest beyond the
\* limit; both are a prefix of the order of touching.
Sweeps == {n \in 0 .. Len(touched) : Len(touched) - n <= MaxPaths}
Kept(n) == SubSeq(touched, n + 1, Len(touched))
Gone(n) == {touched[i] : i \in 1 .. n}
Without(s, d) ==
    LET At == {i \in 1 .. Len(s) : s[i] = d}
        k == CHOOSE i \in At : TRUE
    IN  IF At = {} THEN s ELSE SubSeq(s, 1, k - 1) \o SubSeq(s, k + 1, Len(s))
Touch(s, d) == Append(Without(s, d), d)
StatSwept(n) == [d \in Dest |-> IF d \in Gone(n) THEN Fresh ELSE stat[d]]

\* The peers a table offers: nodes are examined until enough candidates are
\* found; each node's UDP endpoints replace those of the node before.
Usable(t) == SelectSeq(t, LAMBDA n : n.peer /\ n.fresh)
Having(s, k) == Len(SelectSeq(s, LAMBDA n : n[k] # {}))
All(s, k) == UNION {s[i][k] : i \in 1 .. Len(s)}
UdpEnds(s) == IF "udp" \in PeerUse /\ s # <<>> THEN s[Len(s)].tcp \cup s[Len(s)].udp ELSE {}
Enough(s, limit) == Having(s, "tcp") + Having(s, "quic") + Cardinality(UdpEnds(s)) >= limit
Examined(t, limit) ==
    LET s == Usable(t)
        Stop == {k \in 1 .. Len(s) : Enough(SubSeq(s, 1, k), limit)}
    IN  IF Stop = {} THEN s ELSE SubSeq(s, 1, CHOOSE k \in Stop : \A j \in Stop : k <= j)
PickPeerRoutes(t, limit) ==
    LET s == Examined(t, limit)
    IN  [tcp  |-> Min2(limit, Cardinality(All(s, "tcp"))),
         quic |-> Min2(limit, Cardinality(All(s, "quic"))),
         udp  |-> Min2(limit, Cardinality(UdpEnds(s)))]

\* The decision in favour of peers; kinds that are not in use are dropped
\* after the search, so a peer decision may be left with no candidate.
PeerDecision(r, limit) ==
    LET n(k) == IF k \in PeerUse THEN r[k] ELSE 0
    IN  [pref |-> n("quic") = 0, class |-> "peer", ttl |-> limit, hops |-> limit,
         tcp |-> n("tcp"), quic |-> n("quic"), udp |-> n("udp")]

\* Mutant: the cooldown starts before the peers are looked up.
SettleEager(why, d, sticks) ==
    IF why # "fine" /\ Cooldown THEN sticks \cup {d} ELSE sticks

\* What Decide does when no peer is taken.
Settle(why, d, sticks) ==
    IF why = "weak" /\ Cooldown THEN sticks \cup {d} ELSE sticks

\* How many candidates to ask for; failStreak is read without the lock.
PeerLimit(fails) ==
    LET want == IF fails >= 3 THEN 3 ELSE IF fails >= 1 THEN 2 ELSE 1
    IN  IF MaxPeerHops > 0 THEN Min2(want, MaxPeerHops) ELSE want

\* A Decide that is out of the lock no longer speaks for these destinations.
Overtaken(D) ==
    [a \in Caller |-> IF ask[a] # NoAsk /\ ask[a].dst \in D
                      THEN [ask[a] EXCEPT !.same = FALSE] ELSE ask[a]]

\* Why Decide keeps to TCP, if it does.
Reason(st, dualQuic, sticky, weak) ==
    IF ~dualQuic \/ sticky THEN "tcp"
    ELSE IF st.fails >= FailThresh \/ weak THEN "weak" ELSE "fine"

\* Decide up to its first unlock: sweep, touch, and either the decision or
\* the search for peers.
DecideAfter(n, sticky, low, weak, c, d, dualQuic, allow, force) ==
    LET st == StatSwept(n)[d]
        why == Reason(st, dualQuic, sticky, weak)
        peers == /\ allow /\ PeerDial
                 /\ force \/ (cand = "srflx" /\ (st.fails >= 1 \/ low))
    IN  /\ ask[c] = NoAsk
        /\ sticky => Cooldown /\ dualQuic /\ d \in stick \ Gone(n)
        /\ (low \/ weak) => st.slips = 2
        /\ touched' = Touch(Kept(n), d)
        /\ stat' = StatSwept(n)
        /\ late' = late \ Gone(n)
        /\ \/ /\ peers
              /\ ask' = [Overtaken(Gone(n)) EXCEPT
                           ![c] = [dst |-> d, why |-> why, limit |-> PeerLimit(st.fails), same |-> TRUE]]
              /\ stick' = stick \ Gone(n)
              /\ UNCHANGED answer
           \/ /\ ~peers
              /\ answer' = Direct(why # "fine")
              /\ stick' = Settle(why, d, stick \ Gone(n))
              /\ ask' = Overtaken(Gone(n))
        /\ UNCHANGED cand

Decide(c, d, dualQuic, allow, force) ==
    \E n \in Sweeps, sticky, low, weak \in BOOLEAN : DecideAfter(n, sticky, low, weak, c, d, dualQuic, allow, force)

\* tryPeer after its unlock: the table is read, the lock is taken again.
TryPeer(c) ==
    /\ ask[c] # NoAsk
    /\ \E t \in Tables, limit \in {ask[c].limit, PeerLimit(stat[ask[c].dst].fails)} :
         LET q == ask[c]
             r == PickPeerRoutes(t, limit)
         IN  \/ /\ r.tcp + r.quic + r.udp > 0
                /\ answer' = PeerDecision(r, limit)
                /\ UNCHANGED <<stick, late>>
             \/ /\ r.tcp + r.quic + r.udp = 0
                /\ answer' = Direct(q.why # "fine")
                /\ stick' = Settle(q.why, q.dst, stick)
                /\ late' = IF stick' # stick /\ ~q.same THEN late \cup {q.dst} ELSE late
    /\ ask' = [ask EXCEPT ![c] = NoAsk]
    /\ UNCHANGED <<touched, stat, cand>>

\* Mutant: a success leaves the cooldown in place.
RecordKeepsStick(d, ok) ==
    \E n \in Sweeps :
        LET st == StatSwept(n)[d] IN
        /\ touched' = Touch(Kept(n), d)
        /\ stat' = [StatSwept(n) EXCEPT ![d] =
                      [fails |-> IF ok THEN 0 ELSE Min2(3, st.fails + 1),
                       slips |-> IF ok THEN st.slips ELSE Min2(2, st.slips + 1)]]
        /\ stick' = stick \ Gone(n)
        /\ late' = late \ Gone(n)
        /\ ask' = Overtaken(Gone(n))
        /\ UNCHANGED <<cand, answer>>

\* Record: a success ends the streak and the cooldown, a failure adds to it.
Record(d, ok) ==
    \E n \in Sweeps :
        LET st == StatSwept(n)[d]
            freed == IF ok THEN Gone(n) \cup {d} ELSE Gone(n)
        IN
        /\ touched' = Touch(Kept(n), d)
        /\ stat' = [StatSwept(n) EXCEPT ![d] =
                      [fails |-> IF ok THEN 0 ELSE Min2(3, st.fails + 1),
                       slips |-> IF ok THEN st.slips ELSE Min2(2, st.slips + 1)]]
        /\ stick' = stick \ freed
        /\ late' = late \ freed
        /\ ask' = Overtaken(freed)
        /\ UNCHANGED <<cand, answer>>

\* probeICEForRelay: SetSrflxRTT and SetGlobalCandidate, once per run.
Probe ==
    /\ cand = "unknown"
    /\ cand' \in {"host", "srflx"}
    /\ UNCHANGED <<touched, stat, stick, ask, answer, late>>

----------------------------------------------------------------------------
\* The manager under callers of any kind.
PathNext ==
    \/ \E c \in Caller, d \in Dest, dualQuic, allow, force \in BOOLEAN :
          (force => allow) /\ Decide(c, d, dualQuic, allow, force)
    \/ \E c \in Caller : TryPeer(c)
    \/ \E d \in Dest, ok \in BOOLEAN : Record(d, ok)
    \/ Probe

PathSpec == PathInit /\ [][PathNext]_pathVars

----------------------------------------------------------------------------
PathTypeOK ==
    /\ touched \in Seq(Dest)
    /\ stat \in [Dest -> [fails : 0 .. 3, slips : 0 .. 2]]
    /\ stick \subseteq Dest /\ late \subseteq Dest
    /\ cand \in {"unknown", "host", "srflx"}
    /\ ask \in [Caller -> {NoAsk} \cup [dst : Dest, why : {"tcp", "weak", "fine"},
                                        limit : 1 .. 3, same : BOOLEAN]]
    /\ answer \in [pref : BOOLEAN, class : {"direct", "peer"}, ttl : 1 .. 3, hops : 0 .. 3,
                   tcp : 0 .. 3, quic : 0 .. 3, udp : 0 .. 3]

\* The table of statistics outgrows its limit by the one entry that is
\* inserted after the sweep and never by more, whatever the callers do, and
\* holds each destination once (path_manager.go:441, 461).
PathsBounded ==
    /\ Len(touched) <= MaxPaths + 1
    /\ Cardinality(Keys) = Len(touched)

\* A cooldown has a failing path behind it (path_manager.go:390-396, 424):
\* the statistic is still there and still bad, unless a Decide that was
\* overtaken while it looked for peers set the cooldown afterwards.
StickHasReason ==
    \A d \in stick : \/ d \in late
                     \/ /\ d \in Keys
                        /\ stat[d].fails >= FailThresh \/ stat[d].slips = 2
============================================================================
