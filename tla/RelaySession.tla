---------------------------- MODULE RelaySession ----------------------------
(***************************************************************************)
(* Relay sessions on a cluster of servers: the ROLE_RELAY_TCP branch of    *)
(* SessionHandler.handle with RelayRegistry (the slots), PeerRelayGuard    *)
(* and the hop limit (the checks), PeerRelayForward.forward (the next hop, *)
(* which opens a session on another node) and the TCP exits.               *)
(*                                                                         *)
(* RelayRegistry is lock-free: a slot is one increment of `total`, then    *)
(* one of the remote's counter, and is given back in the same two steps.   *)
(* A compare-and-set loop is one atomic step.                              *)
(*                                                                         *)
(* The sessions one client's connection leads to, over the hops of its     *)
(* route, are a chain; its first session is its root.  A session that      *)
(* forwards or exits has two pumps, and each of them ends by itself: the   *)
(* up pump with the client's input, the down pump with what the next hop   *)
(* or the target sends.                                                    *)
(***************************************************************************)
EXTENDS Integers, Sequences, FiniteSets

CONSTANTS
  Node,          \* the servers
  StreamId,      \* what a QUIC stream gives as its remote address: its number
  Session,       \* session identities, used once each
  Routes,        \* relayRouteHops a client may ask for, first hop included
  Asks,          \* the <<route, relayHop, hopIndex>> a client may send, 0 when it sends none
  RelayMaxHop,   \* relayMaxHop of the client's options
  HopLimit,      \* RELAY_HOP_HARD_LIMIT
  MaxTotal, MaxPerRemote,   \* relay.maxTotal, relay.maxPerRemote
  PoolSize,      \* RelayCopyPool.SIZE
  MaxClients,    \* bound of the model: how many clients open a session
  None

ASSUME SetAssumption == IsFiniteSet(Session) /\ None \notin Session /\ Node # {}
ASSUME RouteAssumption == Routes # {} /\ \A r \in Routes : r \in Seq(Node) /\ Len(r) > 0
ASSUME AskAssumption == Asks \subseteq Routes \X Nat \X Nat
ASSUME LimitAssumption ==
  /\ RelayMaxHop \in Int /\ HopLimit \in Nat \ {0}
  /\ MaxTotal \in Nat \ {0} /\ MaxPerRemote \in Nat \ {0}

VARIABLES
  pc,        \* where the session's thread is in handle()
  node,      \* the server it runs on
  remote,    \* the remote address it counts against, an element of Remote
  route, hopIndex, relayHop,   \* relayRouteHops and the hop counters of its options
  root,      \* the session of the client at the head of its chain
  child,     \* the session its forward opened
  eof,       \* its input has ended
  pumps,     \* which of its two pumps still run
  target,    \* an exit: the target keeps its end of the connection
  total,     \* RelayRegistry.total of each node
  active     \* RelayRegistry.active of each node (0: no entry)

sessVars == <<node, remote, route, hopIndex, relayHop, root>>
pumpVars == <<child, eof, pumps, target>>
registryVars == <<total, active>>
vars == <<pc, sessVars, pumpVars, registryVars>>

\* RelayRegistry goes by the text of the remote address: that of a TCP session
\* has its port, so it is its own, and that of a QUIC session is the number of
\* its stream, which the streams of different clients share.
Remote == Session \union StreamId

OverQuic(s) == remote[s] \in StreamId

Stage == {"free", "total", "remote", "rollback", "checks", "connect", "dispatch",
          "run", "release", "releaseRemote", "end", "leaked"}

TypeOK ==
  /\ pc \in [Session -> Stage]
  /\ node \in [Session -> Node] /\ remote \in [Session -> Remote]
  /\ route \in [Session -> Routes]
  /\ hopIndex \in [Session -> Nat] /\ relayHop \in [Session -> Nat]
  /\ root \in [Session -> Session]
  /\ child \in [Session -> Session \union {None}]
  /\ eof \in [Session -> BOOLEAN] /\ target \in [Session -> BOOLEAN]
  /\ pumps \in [Session -> SUBSET {"up", "down"}]
  /\ total \in [Node -> Nat] /\ active \in [Node -> [Remote -> Nat]]

Init ==
  /\ pc = [s \in Session |-> "free"]
  /\ node = [s \in Session |-> CHOOSE n \in Node : TRUE]
  /\ remote = [s \in Session |-> s]
  /\ route = [s \in Session |-> CHOOSE r \in Routes : TRUE]
  /\ hopIndex = [s \in Session |-> 0] /\ relayHop = [s \in Session |-> 0]
  /\ root = [s \in Session |-> s]
  /\ child = [s \in Session |-> None] /\ pumps = [s \in Session |-> {}]
  /\ eof = [s \in Session |-> FALSE] /\ target = [s \in Session |-> FALSE]
  /\ total = [n \in Node |-> 0] /\ active = [n \in Node |-> [m \in Remote |-> 0]]

\* Sessions take their identities in one order.
Fresh(s) == pc[s] = "free" /\ s = CHOOSE t \in Session : pc[t] = "free"

Goto(s, stage) == pc' = [pc EXCEPT ![s] = stage]

-----------------------------------------------------------------------------
\* A client's session reaches handle() on the first node of the route, with
\* the counters of its options: the server takes a relayHop and a hopIndex of
\* 0 as it takes any other.
Open(s, m, ask) ==
  /\ Fresh(s)
  /\ Cardinality({t \in Session : pc[t] # "free" /\ root[t] = t}) < MaxClients
  /\ Goto(s, "total")
  /\ node' = [node EXCEPT ![s] = ask[1][1]] /\ remote' = [remote EXCEPT ![s] = m]
  /\ route' = [route EXCEPT ![s] = ask[1]]
  /\ relayHop' = [relayHop EXCEPT ![s] = ask[2]]
  /\ hopIndex' = [hopIndex EXCEPT ![s] = ask[3]]
  /\ UNCHANGED <<root, pumpVars, registryVars>>

\* The session's thread is done, and so are the pumps it may have left behind.
Over(s) == pc[s] \in {"end", "leaked"} /\ pumps[s] = {}

\* The client closes its connection, at any time.
ClientLeaves(s) ==
  /\ root[s] = s /\ ~eof[s] /\ pc[s] # "free" /\ ~Over(s)
  /\ eof' = [eof EXCEPT ![s] = TRUE]
  /\ UNCHANGED <<pc, sessVars, child, pumps, target, registryVars>>

-----------------------------------------------------------------------------
\* RelayRegistry.tryAcquire, first loop: the node's total.
AcquireTotal(s) ==
  /\ pc[s] = "total"
  /\ IF total[node[s]] >= MaxTotal
       THEN Goto(s, "end") /\ UNCHANGED total
       ELSE Goto(s, "remote") /\ total' = [total EXCEPT ![node[s]] = @ + 1]
  /\ UNCHANGED <<sessVars, pumpVars, active>>

\* Mutant: the remote's limit lets one more in.
RemoteOverfull(s) == active[node[s]][remote[s]] > MaxPerRemote

RemoteFull(s) == active[node[s]][remote[s]] >= MaxPerRemote

\* Second loop: the remote's counter.
AcquireRemote(s) ==
  /\ pc[s] = "remote"
  /\ IF RemoteFull(s)
       THEN Goto(s, "rollback") /\ UNCHANGED active
       ELSE Goto(s, "checks") /\ active' = [active EXCEPT ![node[s]][remote[s]] = @ + 1]
  /\ UNCHANGED <<sessVars, pumpVars, total>>

\* Mutant: the caller releases what tryAcquire has already rolled back.
RollbackTwice(s) ==
  /\ pc[s] = "rollback"
  /\ Goto(s, "end")
  /\ total' = [total EXCEPT ![node[s]] = @ - 2]
  /\ UNCHANGED <<sessVars, pumpVars, active>>

\* The remote is full: total.decrementAndGet(), "relay capacity exceeded".
Rollback(s) ==
  /\ pc[s] = "rollback"
  /\ Goto(s, "end")
  /\ total' = [total EXCEPT ![node[s]] = @ - 1]
  /\ UNCHANGED <<sessVars, pumpVars, active>>

\* Mutant: the client's own hop limit is taken at its word.
CapHopFromClient == IF RelayMaxHop <= 0 THEN HopLimit ELSE RelayMaxHop

CapHop == IF RelayMaxHop <= 0 \/ RelayMaxHop > HopLimit THEN HopLimit ELSE RelayMaxHop

\* Hop limit, budget and PeerRelayGuard: each rejection gives the slot back;
\* budget and identity may fail for any session.
Reject(s) ==
  /\ pc[s] = "checks"
  /\ Goto(s, "release")
  /\ UNCHANGED <<sessVars, pumpVars, registryVars>>

PassChecks(s) ==
  /\ pc[s] = "checks" /\ relayHop[s] <= CapHop
  /\ Goto(s, "connect")
  /\ UNCHANGED <<sessVars, pumpVars, registryVars>>

\* readTcpConnect returns, the hop is acknowledged.
ReadConnect(s) ==
  /\ pc[s] = "connect"
  /\ Goto(s, "dispatch")
  /\ UNCHANGED <<sessVars, pumpVars, registryVars>>

\* Mutant: readTcpConnect reads on at the end of the input.
ReadsPastEnd(s) ==
  /\ pc[s] = "connect" /\ ~eof[s]
  /\ Goto(s, "leaked")
  /\ UNCHANGED <<sessVars, pumpVars, registryVars>>

\* readTcpConnect throws (end of input, bad request): the slot was taken and
\* the try that gives it back has not begun.
ConnectFails(s) ==
  /\ pc[s] = "connect"
  /\ Goto(s, "leaked")
  /\ UNCHANGED <<sessVars, pumpVars, registryVars>>

-----------------------------------------------------------------------------
\* PeerRelayForward.hasNextHop and the hop it picks (indices start at 0).
NextIndex(s) == IF hopIndex[s] < 1 THEN 1 ELSE hopIndex[s]
HasNextHop(s) == NextIndex(s) < Len(route[s])
NextHop(s) == route[s][NextIndex(s) + 1]

\* forwardOptsJson: both counters go up, the managed identity stays behind.
ForwardOpts(s, c) ==
  /\ route' = [route EXCEPT ![c] = route[s]]
  /\ hopIndex' = [hopIndex EXCEPT ![c] = hopIndex[s] + 1]
  /\ relayHop' = [relayHop EXCEPT ![c] = relayHop[s] + 1]

StartPumps(s) == pumps' = [pumps EXCEPT ![s] = {"up", "down"}]

\* forward() connects to the next hop, over TCP, and starts its two pumps; the
\* thread waits for both.
Forward(s, c) ==
  /\ pc[s] = "dispatch" /\ HasNextHop(s) /\ Fresh(c)
  /\ pc' = [pc EXCEPT ![s] = "run", ![c] = "total"]
  /\ child' = [child EXCEPT ![s] = c]
  /\ root' = [root EXCEPT ![c] = root[s]]
  /\ node' = [node EXCEPT ![c] = NextHop(s)] /\ remote' = [remote EXCEPT ![c] = c]
  /\ ForwardOpts(s, c) /\ StartPumps(s)
  /\ UNCHANGED <<eof, target, registryVars>>

\* The last hop is connected to the target, in either of two ways.
Exit(s) ==
  /\ pc[s] = "dispatch" /\ ~HasNextHop(s)
  /\ StartPumps(s) /\ target' = [target EXCEPT ![s] = TRUE]
  /\ UNCHANGED <<sessVars, child, eof, registryVars>>

\* Over QUIC: QuicTcpRelay.run keeps the thread while it pumps.
ExitBlocking(s) == Exit(s) /\ OverQuic(s) /\ Goto(s, "run")

\* Over TCP, or a cluster exit: the bridge pumps on in RelayCopyPool and onTcp
\* returns, so the finally block runs at once.
ExitBridge(s) == Exit(s) /\ Goto(s, "release")

\* The next hop or the target cannot be reached: an exception, same finally.
DialFails(s) ==
  /\ pc[s] = "dispatch"
  /\ Goto(s, "release")
  /\ UNCHANGED <<sessVars, pumpVars, registryVars>>

\* The target ends the connection of an exit.
TargetEnds(s) ==
  /\ target[s]
  /\ target' = [target EXCEPT ![s] = FALSE]
  /\ UNCHANGED <<pc, sessVars, child, eof, pumps, registryVars>>

\* A pump of s ends; the last one of an exit closes the target's connection.
PumpEnds(s, d) ==
  /\ d \in pumps[s]
  /\ pumps' = [pumps EXCEPT ![s] = @ \ {d}]
  /\ target' = [target EXCEPT ![s] = @ /\ pumps[s] # {d}]
  /\ UNCHANGED <<pc, sessVars, child, registryVars>>

\* The up pump ends: end of input, the read timeout of a socket, or a failed
\* write to a target or a next hop that is gone.  It shuts down its output, and
\* with it the next hop's input.
UpPumpEnds(s) ==
  /\ OverQuic(s) /\ ~eof[s] /\ child[s] # None => Over(child[s])
  /\ PumpEnds(s, "up")
  /\ eof' = [t \in Session |-> eof[t] \/ t = child[s]]

\* The down pump ends: end of what the next hop or the target sends, its read
\* timeout, or a failed write to a client's socket.
DownPumpEnds(s) == PumpEnds(s, "down") /\ UNCHANGED eof

\* The thread has waited for both pumps, up, then down; forward() closes the
\* connection to the next hop.
PumpsJoined(s) ==
  /\ pc[s] = "run" /\ pumps[s] = {}
  /\ Goto(s, "release")
  /\ eof' = [t \in Session |-> eof[t] \/ t = child[s]]
  /\ UNCHANGED <<sessVars, child, pumps, target, registryVars>>

\* Mutant: release is skipped for the total.
ReleaseTotalSkipped(s) ==
  /\ pc[s] = "release"
  /\ Goto(s, "releaseRemote")
  /\ UNCHANGED <<sessVars, pumpVars, registryVars>>

\* RelayRegistry.release: the total, which never goes below 0 ...
ReleaseTotal(s) ==
  /\ pc[s] = "release"
  /\ Goto(s, "releaseRemote")
  /\ total' = [total EXCEPT ![node[s]] = IF @ <= 0 THEN 0 ELSE @ - 1]
  /\ UNCHANGED <<sessVars, pumpVars, active>>

\* ... then the remote's counter.
ReleaseRemote(s) ==
  /\ pc[s] = "releaseRemote"
  /\ Goto(s, "end")
  /\ active' = [active EXCEPT ![node[s]][remote[s]] = IF @ <= 0 THEN @ ELSE @ - 1]
  /\ UNCHANGED <<sessVars, pumpVars, total>>

-----------------------------------------------------------------------------
ThreadStep(s) ==
  \/ AcquireTotal(s) \/ AcquireRemote(s) \/ Rollback(s) \/ Reject(s) \/ PassChecks(s)
  \/ ExitBlocking(s) \/ ExitBridge(s) \/ DialFails(s) \/ PumpsJoined(s)
  \/ ReleaseTotal(s) \/ ReleaseRemote(s)
  \/ \E c \in Session : Forward(s, c)

Next == \E s \in Session :
  \/ \E m \in {s} \union StreamId, ask \in Asks : Open(s, m, ask)
  \/ ClientLeaves(s) \/ ThreadStep(s) \/ ReadConnect(s) \/ ConnectFails(s)
  \/ TargetEnds(s) \/ UpPumpEnds(s) \/ DownPumpEnds(s)

\* The client of the chain is gone, or its first session has hung up on it.
Left(s) == eof[root[s]] \/ Over(root[s])

\* The chain's exit still has a target at the other end.
Connected(s) == \E t \in Session : root[t] = root[s] /\ target[t]

\* A node of the chain has more pumps than RelayCopyPool has threads, so some
\* wait in its queue.
NodePumps(n) == {p \in Session \X {"up", "down"} : node[p[1]] = n /\ p[2] \in pumps[p[1]]}
Crowded(s) == \E t \in Session :
  root[t] = root[s] /\ pumps[t] # {} /\ Cardinality(NodePumps(node[t])) > PoolSize

(***************************************************************************)
(* The threads run; readTcpConnect returns at the end of the input.  A     *)
(* pump ends once its client has left only if nothing keeps it: while the  *)
(* target stays connected it may send for ever, which nothing on the way   *)
(* to a QUIC client that is gone refuses, or not read, and an up pump      *)
(* blocks in its write; without a target the down pumps see an end or the  *)
(* read timeout, the up pumps the end of their input.  A pump needs a      *)
(* thread of RelayCopyPool.  The client and the target do as they like.    *)
(***************************************************************************)
Free(s) == Left(s) /\ ~Connected(s) /\ ~Crowded(s)

Fairness == \A s \in Session :
  /\ WF_vars(ThreadStep(s))
  /\ WF_vars(eof[s] /\ ConnectFails(s))
  /\ WF_vars(Free(s) /\ eof[s] /\ UpPumpEnds(s))
  /\ WF_vars(Free(s) /\ DownPumpEnds(s))

Spec == Init /\ [][Next]_vars /\ Fairness

-----------------------------------------------------------------------------
HoldsTotal(s) ==
  pc[s] \in {"remote", "rollback", "checks", "connect", "dispatch", "run", "release", "leaked"}
HoldsRemote(s) ==
  pc[s] \in {"checks", "connect", "dispatch", "run", "release", "releaseRemote", "leaked"}

TotalHolders(n) == {s \in Session : node[s] = n /\ HoldsTotal(s)}
RemoteHolders(n, r) == {s \in Session : node[s] = n /\ remote[s] = r /\ HoldsRemote(s)}

\* The two counters of every node's registry agree at all times with the
\* sessions that hold a slot, through roll-backs, rejections and releases of
\* other sessions in between, so no release is lost and none comes twice.
SlotsAccounted == \A n \in Node :
  /\ total[n] = Cardinality(TotalHolders(n))
  /\ \A r \in Remote : active[n][r] = Cardinality(RemoteHolders(n, r))

\* relay.maxTotal and relay.maxPerRemote hold although the two counters are
\* not taken together.
SlotsBounded == \A n \in Node :
  /\ total[n] <= MaxTotal
  /\ \A r \in Remote : active[n][r] <= MaxPerRemote

\* The sessions of a chain that the checks have let in and that hold a slot.
LetIn(r) == {s \in Session : root[s] = r /\ pc[s] \in {"connect", "dispatch", "run", "leaked"}}

\* A route, however long and even if it runs in circles, holds at most one slot
\* for each hop from the relayHop its client sent up to the hop limit.  A client
\* that sends 0, or nothing, gets one slot more than RELAY_HOP_HARD_LIMIT.
ChainBounded ==
  \A r \in Session : Cardinality(LetIn(r)) <= Cardinality(relayHop[r]..HopLimit)

\* When the client leaves, every session of its chain gives its slot back,
\* except one that had not yet read its TcpConnect, whose slot is lost, and
\* those that the target of the chain's exit, still connected, or a crowded
\* pump pool keeps: a target that goes on sending holds the slots of a chain
\* whose QUIC client is gone for as long as it likes.
SlotsComeBack == \A s \in Session :
  (Left(s) /\ HoldsRemote(s))
    ~> (~HoldsRemote(s) \/ pc[s] = "leaked" \/ Connected(s) \/ Crowded(s))
=============================================================================
