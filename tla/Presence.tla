------------------------------ MODULE Presence ------------------------------
(***************************************************************************)
(* Client, internal/vpn/presence_dht.go with runPeerRelayUDP and           *)
(* probeICEForRelay of vpn.go: a volunteer tells the DHT seeds where its   *)
(* peer socket can be reached, and another client asks them.  Three        *)
(* goroutines of the volunteer publish under one key: the relay listener   *)
(* once (and once more if an address to advertise is set), the STUN probe  *)
(* once, the hole-punching loop every round.  A NAT may give the socket a  *)
(* new address; a STORE may be lost, or arrive after a later one.          *)
(***************************************************************************)
EXTENDS Integers, Sequences, FiniteSets

CONSTANTS
    Seeds,        \* dhtRPCSeeds, in the order they are used
    Ttl,          \* rounds a record lives: 900 seconds (25 rounds or more)
    MaxMisses,    \* rounds in a row whose STORE a seed does not get
    MaxMoves,     \* bound: new addresses of the socket
    MaxDelayed    \* bound: STOREs held up in the network

ASSUME PresenceAssumption ==
    Ttl \in Nat /\ MaxMisses \in Nat /\ MaxMisses < Ttl /\ MaxMoves \in Nat /\ MaxDelayed \in Nat

VARIABLES
    sock,         \* "open"; "failed": no socket; "unset": no listen address configured
    nat,          \* the socket's present public address
    lastSrflx,    \* lastPublishedSrflx, kept where a publisher reads it
    pub,          \* the publishing goroutines
    held,         \* STOREs held up
    record,       \* seed -> what it holds under the peer's key
    misses,       \* seed -> rounds since it got one
    ask           \* the other client: the seed it asks, what it found last

presVars == <<sock, nat, lastSrflx, pub, held, record, misses, ask>>

\* Sockets: the peer socket at its n-th address, the advertised address, a
\* socket that exists only while an address is gathered on it.
At(n) == <<"peer", n>>
Advertised == <<"advertised", 0>>
Closed == <<"closed", 0>>
None == <<>>
Absent == [ends |-> None, left |-> 0]
Publisher == {"listener", "probe", "punch"}
Rest(at) == [at |-> at, ends |-> None, seed |-> 0]

PresInit ==
    /\ sock \in {"open", "failed", "unset"}
    /\ nat = 0 /\ lastSrflx = None
    /\ pub = [t \in Publisher |-> IF t = "listener" /\ sock # "open" THEN Rest("over") ELSE Rest("idle")]
    /\ held = {}
    /\ record = [s \in 1 .. Len(Seeds) |-> Absent] /\ misses = [s \in 1 .. Len(Seeds) |-> 0]
    /\ ask = [seed |-> 1, found |-> None]

\* mergePresenceEndpoints: empty ones and repetitions are left out.
MergePresenceEndpoints(primary, extra) ==
    IF primary = None THEN <<extra>> ELSE IF primary = extra THEN <<primary>> ELSE <<primary, extra>>

\* setLastClientSrflx; only rounds without a peer socket read it again.
SetLast(e) == lastSrflx' = IF sock = "open" THEN None ELSE e

Publish(t, ends) == pub' = [pub EXCEPT ![t] = [at |-> "store", ends |-> ends, seed |-> 1]]

----------------------------------------------------------------------------
\* OnSrflx of ListenPeerRelayUDP; if STUN fails there is nothing to publish.
ListenerGathers ==
    /\ pub["listener"].at = "idle"
    /\ \/ SetLast(At(nat)) /\ Publish("listener", <<At(nat)>>)
       \/ UNCHANGED lastSrflx /\ pub' = [pub EXCEPT !["listener"] = Rest("again")]
    /\ UNCHANGED <<sock, nat, held, record, misses, ask>>

ListenerAdvertises ==
    /\ pub["listener"].at = "again"
    /\ \/ SetLast(Advertised) /\ pub' = [pub EXCEPT !["listener"] = [at |-> "last", ends |-> <<Advertised>>, seed |-> 1]]
       \/ UNCHANGED lastSrflx /\ pub' = [pub EXCEPT !["listener"] = Rest("over")] \* none is set
    /\ UNCHANGED <<sock, nat, held, record, misses, ask>>

\* probeICEForRelay, on a socket of its own.
ProbeGathers ==
    /\ pub["probe"].at = "idle"
    /\ \/ SetLast(Closed) /\ (IF sock = "unset" THEN Publish("probe", <<Closed>>)
                                                    ELSE pub' = [pub EXCEPT !["probe"] = Rest("over")])
       \/ UNCHANGED lastSrflx /\ pub' = [pub EXCEPT !["probe"] = Rest("over")]
    /\ UNCHANGED <<sock, nat, held, record, misses, ask>>

Age(r) == IF r.left > 1 THEN [r EXCEPT !.left = @ - 1] ELSE Absent

\* Mutant: the round gathers on a socket of its own in every case.
PunchRoundOwnSocket ==
    /\ pub["punch"].at = "idle"
    /\ UNCHANGED lastSrflx /\ Publish("punch", MergePresenceEndpoints(lastSrflx, Closed))
    /\ record' = [s \in DOMAIN record |-> Age(record[s])]
    /\ UNCHANGED <<sock, nat, held, misses, ask>>

\* A round of runSymmetricNatHolePunch whose STUN answers: on the peer socket,
\* or else on one that is closed when the round ends.  (One whose STUN fails is a
\* round whose STOREs are lost.)  Records age by rounds.
PunchRound ==
    /\ pub["punch"].at = "idle"
    /\ IF sock = "open"
         THEN SetLast(At(nat)) /\ Publish("punch", <<At(nat)>>)
         ELSE UNCHANGED lastSrflx /\ Publish("punch", MergePresenceEndpoints(lastSrflx, Closed))
    /\ record' = [s \in DOMAIN record |-> Age(record[s])]
    /\ UNCHANGED <<sock, nat, held, misses, ask>>

\* presenceDHTStore: one seed after the other.
After(t) == IF t = "punch" THEN "idle" ELSE IF t = "listener" /\ pub[t].at = "store" THEN "again" ELSE "over"
Stored(s, ends) == record' = [record EXCEPT ![s] = [ends |-> ends, left |-> Ttl]]

StoreNext(t) ==
    LET s == pub[t].seed
        counts == t = "punch"
    IN  /\ pub[t].at \in {"store", "last"}
        /\ pub' = [pub EXCEPT ![t] = IF s = Len(Seeds) THEN Rest(After(t)) ELSE [pub[t] EXCEPT !.seed = s + 1]]
        /\ \/ Stored(s, pub[t].ends) /\ UNCHANGED held
              /\ misses' = IF counts THEN [misses EXCEPT ![s] = 0] ELSE misses
           \/ /\ counts => misses[s] < MaxMisses
              /\ misses' = IF counts THEN [misses EXCEPT ![s] = @ + 1] ELSE misses
              /\ UNCHANGED record
              /\ \/ UNCHANGED held
                 \/ Cardinality(held) < MaxDelayed /\ held' = held \cup {[seed |-> s, ends |-> pub[t].ends]}
        /\ UNCHANGED <<sock, nat, lastSrflx, ask>>

\* A STORE arrives late, or never.  The store keeps whatever comes last; the
\* record's epoch is not looked at.
HeldEnds ==
    \E m \in held :
      /\ held' = held \ {m}
      /\ Stored(m.seed, m.ends) \/ UNCHANGED record
      /\ UNCHANGED <<sock, nat, lastSrflx, pub, misses, ask>>

NatMoves ==
    /\ nat < MaxMoves /\ nat' = nat + 1
    /\ UNCHANGED <<sock, lastSrflx, pub, held, record, misses, ask>>

\* fetchUdpEndpointsFromDHT: the first seed that has endpoints answers.
FetchFinds ==
    /\ record[ask.seed].ends # None
    /\ ask' = [seed |-> 1, found |-> record[ask.seed].ends]
    /\ UNCHANGED <<sock, nat, lastSrflx, pub, held, record, misses>>

FetchFails ==
    /\ ask' = IF ask.seed = Len(Seeds) THEN [seed |-> 1, found |-> None] ELSE [ask EXCEPT !.seed = @ + 1]
    /\ UNCHANGED <<sock, nat, lastSrflx, pub, held, record, misses>>

PresNext ==
    \/ ListenerGathers \/ ListenerAdvertises \/ ProbeGathers \/ PunchRound
    \/ \E t \in Publisher : StoreNext(t)
    \/ HeldEnds \/ NatMoves \/ FetchFinds \/ FetchFails

----------------------------------------------------------------------------
\* While the peer socket is open and rounds go on, a client that keeps asking
\* finds the socket's present address again and again, and from some time on
\* never another one: a former address, the one advertised, or a late STORE do
\* not last.
PresenceFollows ==
    sock = "open" =>
      /\ []<>(ask.found = <<At(nat)>>)
      /\ <>[](ask.found \in {<<At(nat)>>, None})

=============================================================================
