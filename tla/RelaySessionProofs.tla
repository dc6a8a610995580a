------------------------- MODULE RelaySessionProofs -------------------------
(***************************************************************************)
(* Proofs, for any cluster, route, limits and number of sessions, that the *)
(* slot counters of RelaySession agree with the sessions that hold a slot  *)
(* and keep their limits, and that a chain stays within the hop limit.     *)
(***************************************************************************)
EXTENDS RelaySession, FiniteSetTheorems, SequenceTheorems, TLAPS

\* What the counters rest on: types, agreement and limits together.  Types
\* alone are not inductive, a counter stays natural only because a session
\* that decrements it is one of those it counts.
SlotInv == TypeOK /\ SlotsAccounted /\ SlotsBounded

\* The sets of holders are finite, as the set of sessions is.
LEMMA HoldersFinite ==
  ASSUME NEW n, NEW r
  PROVE IsFiniteSet(TotalHolders(n)) /\ IsFiniteSet(RemoteHolders(n, r))
BY SetAssumption, FS_Subset DEF TotalHolders, RemoteHolders

\* A session joins the holders of a node: the cardinality goes up by one.
LEMMA HolderJoins ==
  ASSUME NEW S, IsFiniteSet(S), NEW x, x \notin S, NEW T, T = S \union {x}
  PROVE Cardinality(T) = Cardinality(S) + 1 /\ Cardinality(S) \in Nat
BY FS_AddElement, FS_CardinalityType

\* A session leaves the holders of a node: the cardinality goes down by one,
\* and was not zero before.
LEMMA HolderLeaves ==
  ASSUME NEW S, IsFiniteSet(S), NEW x \in S, NEW T, T = S \ {x}
  PROVE /\ Cardinality(T) = Cardinality(S) - 1
        /\ Cardinality(S) \in Nat /\ Cardinality(S) >= 1
<1>1. Cardinality(T) = Cardinality(S) - 1
  BY FS_RemoveElement
<1>2. Cardinality(S) \in Nat /\ Cardinality(T) \in Nat
  BY FS_CardinalityType, FS_RemoveElement
<1> QED BY <1>1, <1>2

\* A step that leaves the counters alone and changes no session's holding
\* keeps the invariant.
Quiet ==
  /\ UNCHANGED <<total, active>>
  /\ \A t \in Session :
       /\ HoldsTotal(t)' <=> HoldsTotal(t)
       /\ HoldsRemote(t)' <=> HoldsRemote(t)
       /\ HoldsTotal(t) \/ HoldsRemote(t) => node'[t] = node[t] /\ remote'[t] = remote[t]

\* A quiet step keeps the slot invariant, given that types are preserved.
LEMMA QuietStep ==
  ASSUME SlotsAccounted, SlotsBounded, Quiet
  PROVE SlotsAccounted' /\ SlotsBounded'
<1>1. \A n \in Node : TotalHolders(n)' = TotalHolders(n)
  BY DEF Quiet, TotalHolders
<1>2. \A n \in Node, r \in Remote : RemoteHolders(n, r)' = RemoteHolders(n, r)
  BY DEF Quiet, RemoteHolders
<1> QED BY <1>1, <1>2 DEF SlotsAccounted, SlotsBounded, Quiet

\* The hop a session forwards to is a node of the route.
LEMMA NextHopIsNode ==
  ASSUME TypeOK, NEW s \in Session, HasNextHop(s)
  PROVE NextHop(s) \in Node
<1>1. hopIndex[s] \in Nat /\ route[s] \in Routes
  BY DEF TypeOK
<1>2. NextIndex(s) \in Nat /\ NextIndex(s) < Len(route[s])
  BY <1>1 DEF HasNextHop, NextIndex
<1>3. route[s] \in Seq(Node) /\ Len(route[s]) \in Nat
  BY <1>1, RouteAssumption, LenProperties
<1>4. NextIndex(s) + 1 \in 1..Len(route[s])
  BY <1>2, <1>3
<1>5. route[s][NextIndex(s) + 1] \in Node
  BY <1>3, <1>4, ElementOfSeq
<1> QED BY <1>5 DEF NextHop

\* What a client sends is a route and two numbers.
LEMMA AskParts ==
  \A ask \in Asks : ask[1] \in Routes /\ ask[2] \in Nat /\ ask[3] \in Nat
BY AskAssumption

\* A route begins at a node.
LEMMA FirstHopIsNode == \A r \in Routes : r[1] \in Node
<1> TAKE r \in Routes
<1>1. r \in Seq(Node) /\ 1 \in 1..Len(r)
  BY RouteAssumption, LenProperties
<1> QED BY <1>1, ElementOfSeq

\* The thread and pump steps that touch no counter are quiet: they move a
\* session between stages on the same side of both counters.
LEMMA QuietActions ==
  ASSUME TypeOK, NEW s \in Session,
         \/ \E m \in {s} \union StreamId, ask \in Asks : Open(s, m, ask)
         \/ ClientLeaves(s) \/ Reject(s) \/ PassChecks(s)
         \/ ReadConnect(s) \/ ConnectFails(s) \/ ExitBlocking(s) \/ ExitBridge(s)
         \/ DialFails(s) \/ PumpsJoined(s) \/ TargetEnds(s)
         \/ UpPumpEnds(s) \/ DownPumpEnds(s)
         \/ \E c \in Session : Forward(s, c)
  PROVE TypeOK' /\ Quiet
<1> USE DEF TypeOK, Quiet, HoldsTotal, HoldsRemote, Goto, Stage, sessVars, pumpVars,
            registryVars
<1>1. CASE \E m \in {s} \union StreamId, ask \in Asks : Open(s, m, ask)
  <2>1. PICK m \in {s} \union StreamId, ask \in Asks : Open(s, m, ask)
    BY <1>1
  <2>2. /\ ask[1] \in Routes /\ ask[2] \in Nat /\ ask[3] \in Nat /\ ask[1][1] \in Node
        /\ m \in Remote
    BY AskParts, FirstHopIsNode DEF Remote
  <2> QED BY <2>1, <2>2 DEF Open, Fresh
<1>2. CASE ClientLeaves(s)
  BY <1>2 DEF ClientLeaves
<1>3. CASE Reject(s) \/ PassChecks(s)
  BY <1>3 DEF Reject, PassChecks
<1>4. CASE ReadConnect(s) \/ ConnectFails(s)
  BY <1>4 DEF ReadConnect, ConnectFails
<1>5. CASE DialFails(s) \/ TargetEnds(s)
  BY <1>5 DEF DialFails, TargetEnds
<1>6. CASE ExitBridge(s) \/ ExitBlocking(s)
  <2>1. Exit(s) /\ (pc' = [pc EXCEPT ![s] = "release"] \/ pc' = [pc EXCEPT ![s] = "run"])
    BY <1>6 DEF ExitBridge, ExitBlocking
  <2>2. pc' \in [Session -> Stage]
    BY <2>1
  <2>3. pumps' \in [Session -> SUBSET {"up", "down"}] /\ target' \in [Session -> BOOLEAN]
    BY <2>1 DEF Exit, StartPumps
  <2>4. pc[s] = "dispatch" /\ UNCHANGED <<sessVars, child, eof, registryVars>>
    BY <2>1 DEF Exit
  <2>5. TypeOK'
    BY <2>2, <2>3, <2>4
  <2> QED BY <2>1, <2>4, <2>5
<1>7. CASE UpPumpEnds(s) \/ DownPumpEnds(s)
  <2>1. PICK d \in {"up", "down"} : PumpEnds(s, d)
    BY <1>7 DEF UpPumpEnds, DownPumpEnds
  <2>2. eof' \in [Session -> BOOLEAN]
    BY <1>7 DEF UpPumpEnds, DownPumpEnds
  <2>3. pumps' \in [Session -> SUBSET {"up", "down"}] /\ target' \in [Session -> BOOLEAN]
    BY <2>1 DEF PumpEnds
  <2>4. UNCHANGED <<pc, sessVars, child, registryVars>>
    BY <2>1 DEF PumpEnds
  <2> QED BY <2>2, <2>3, <2>4
<1>9. CASE PumpsJoined(s)
  <2>1. pc[s] = "run" /\ pc' = [pc EXCEPT ![s] = "release"]
    BY <1>9 DEF PumpsJoined
  <2>2. eof' \in [Session -> BOOLEAN] /\ UNCHANGED <<sessVars, child, pumps, target, registryVars>>
    BY <1>9 DEF PumpsJoined
  <2>3. TypeOK'
    BY <2>1, <2>2
  <2> QED BY <2>1, <2>2, <2>3
<1>8. CASE \E c \in Session : Forward(s, c)
  <2>1. PICK c \in Session : Forward(s, c)
    BY <1>8
  <2>2. NextHop(s) \in Node
    BY <2>1, NextHopIsNode DEF Forward
  <2>3. s # c /\ pc[c] = "free" /\ c \in Remote
    BY <2>1 DEF Forward, Fresh, Remote
  <2>4. TypeOK'
    <3>1. /\ pc' \in [Session -> Stage]
          /\ node' \in [Session -> Node] /\ remote' \in [Session -> Remote]
      BY <2>1, <2>2, <2>3 DEF Forward
    <3>2. /\ route' \in [Session -> Routes]
          /\ hopIndex' \in [Session -> Nat] /\ relayHop' \in [Session -> Nat]
      BY <2>1 DEF Forward, ForwardOpts
    <3>3. /\ child' \in [Session -> Session \union {None}]
          /\ root' \in [Session -> Session] /\ pumps' \in [Session -> SUBSET {"up", "down"}]
      BY <2>1 DEF Forward, StartPumps
    <3>4. UNCHANGED <<eof, target, total, active>>
      BY <2>1 DEF Forward
    <3> QED BY <3>1, <3>2, <3>3, <3>4
  <2>5. Quiet
    BY <2>1, <2>3 DEF Forward
  <2> QED BY <2>4, <2>5
<1> QED BY <1>1, <1>2, <1>3, <1>4, <1>5, <1>6, <1>7, <1>8, <1>9

\* A session joins or leaves the holders of its node's total; everybody else
\* and the remotes' counters stay.
LEMMA TotalChanges ==
  ASSUME SlotInv, NEW s \in Session, node' = node, remote' = remote, active' = active,
         \A t \in Session : HoldsRemote(t)' <=> HoldsRemote(t),
         \A t \in Session \ {s} : HoldsTotal(t)' <=> HoldsTotal(t),
         \/ /\ ~HoldsTotal(s) /\ HoldsTotal(s)' /\ total[node[s]] < MaxTotal
            /\ total' = [total EXCEPT ![node[s]] = @ + 1]
         \/ /\ HoldsTotal(s) /\ ~HoldsTotal(s)'
            /\ total' = [total EXCEPT ![node[s]] = @ - 1]
  PROVE SlotsAccounted' /\ SlotsBounded' /\ total' \in [Node -> Nat]
<1> USE DEF SlotInv
<1>1. \A n \in Node, r \in Remote : RemoteHolders(n, r)' = RemoteHolders(n, r)
  BY DEF RemoteHolders
<1>2. \A n \in Node : n # node[s] => TotalHolders(n)' = TotalHolders(n)
  BY DEF TotalHolders
<1> DEFINE m == node[s]
<1>3. m \in Node /\ IsFiniteSet(TotalHolders(m))
  BY HoldersFinite DEF TypeOK
<1>4. total[m] = Cardinality(TotalHolders(m)) /\ total[m] \in Nat
  BY <1>3 DEF SlotsAccounted, TypeOK
<1>5. total'[m] = Cardinality(TotalHolders(m)') /\ total'[m] \in Nat /\ total'[m] <= MaxTotal
  <2>1. CASE ~HoldsTotal(s) /\ HoldsTotal(s)'
    <3>1. s \notin TotalHolders(m) /\ TotalHolders(m)' = TotalHolders(m) \union {s}
      BY <2>1 DEF TotalHolders
    <3>2. Cardinality(TotalHolders(m)') = Cardinality(TotalHolders(m)) + 1
      BY <3>1, <1>3, HolderJoins
    <3>3. total[m] < MaxTotal /\ total'[m] = total[m] + 1
      BY <2>1, <1>3 DEF TypeOK
    <3> QED BY <3>2, <3>3, <1>4, LimitAssumption
  <2>2. CASE HoldsTotal(s) /\ ~HoldsTotal(s)'
    <3>1. s \in TotalHolders(m) /\ TotalHolders(m)' = TotalHolders(m) \ {s}
      BY <2>2 DEF TotalHolders
    <3>2. Cardinality(TotalHolders(m)') = Cardinality(TotalHolders(m)) - 1
          /\ Cardinality(TotalHolders(m)) >= 1
      BY <3>1, <1>3, HolderLeaves
    <3>3. total'[m] = total[m] - 1
      BY <2>2, <1>3 DEF TypeOK
    <3>4. total[m] <= MaxTotal
      BY <1>3 DEF SlotsBounded
    <3> QED BY <3>2, <3>3, <3>4, <1>4, LimitAssumption
  <2> QED BY <2>1, <2>2
<1>6. \A n \in Node : n # m => total'[n] = total[n]
  BY DEF TypeOK
<1>7. total' \in [Node -> Nat]
  BY <1>5, <1>6 DEF TypeOK
<1>8. SlotsAccounted'
  BY <1>1, <1>2, <1>5, <1>6 DEF SlotsAccounted
<1>9. SlotsBounded'
  BY <1>5, <1>6 DEF SlotsBounded
<1> QED BY <1>7, <1>8, <1>9

\* The same for the counter of the session's remote.
LEMMA RemoteChanges ==
  ASSUME SlotInv, NEW s \in Session, node' = node, remote' = remote, total' = total,
         \A t \in Session : HoldsTotal(t)' <=> HoldsTotal(t),
         \A t \in Session \ {s} : HoldsRemote(t)' <=> HoldsRemote(t),
         \/ /\ ~HoldsRemote(s) /\ HoldsRemote(s)' /\ active[node[s]][remote[s]] < MaxPerRemote
            /\ active' = [active EXCEPT ![node[s]][remote[s]] = @ + 1]
         \/ /\ HoldsRemote(s) /\ ~HoldsRemote(s)'
            /\ active' = [active EXCEPT ![node[s]][remote[s]] = @ - 1]
  PROVE SlotsAccounted' /\ SlotsBounded' /\ active' \in [Node -> [Remote -> Nat]]
<1> USE DEF SlotInv
<1> DEFINE m == node[s]
<1> DEFINE q == remote[s]
<1>1. \A n \in Node : TotalHolders(n)' = TotalHolders(n)
  BY DEF TotalHolders
<1>2. \A n \in Node, r \in Remote :
        n # m \/ r # q => RemoteHolders(n, r)' = RemoteHolders(n, r)
  BY DEF RemoteHolders
<1>3. m \in Node /\ q \in Remote /\ IsFiniteSet(RemoteHolders(m, q))
  BY HoldersFinite DEF TypeOK
<1>4. active[m][q] = Cardinality(RemoteHolders(m, q)) /\ active[m][q] \in Nat
  BY <1>3 DEF SlotsAccounted, TypeOK
<1>5. /\ active'[m][q] = Cardinality(RemoteHolders(m, q)')
      /\ active'[m][q] \in Nat /\ active'[m][q] <= MaxPerRemote
  <2>1. CASE ~HoldsRemote(s) /\ HoldsRemote(s)'
    <3>1. /\ s \notin RemoteHolders(m, q)
          /\ RemoteHolders(m, q)' = RemoteHolders(m, q) \union {s}
      BY <2>1 DEF RemoteHolders
    <3>2. Cardinality(RemoteHolders(m, q)') = Cardinality(RemoteHolders(m, q)) + 1
      BY <3>1, <1>3, HolderJoins
    <3>3. active[m][q] < MaxPerRemote /\ active'[m][q] = active[m][q] + 1
      BY <2>1, <1>3 DEF TypeOK
    <3> QED BY <3>2, <3>3, <1>4, LimitAssumption
  <2>2. CASE HoldsRemote(s) /\ ~HoldsRemote(s)'
    <3>1. /\ s \in RemoteHolders(m, q)
          /\ RemoteHolders(m, q)' = RemoteHolders(m, q) \ {s}
      BY <2>2 DEF RemoteHolders
    <3>2. Cardinality(RemoteHolders(m, q)') = Cardinality(RemoteHolders(m, q)) - 1
          /\ Cardinality(RemoteHolders(m, q)) >= 1
      BY <3>1, <1>3, HolderLeaves
    <3>3. active'[m][q] = active[m][q] - 1
      BY <2>2, <1>3 DEF TypeOK
    <3>4. active[m][q] <= MaxPerRemote
      BY <1>3 DEF SlotsBounded
    <3> QED BY <3>2, <3>3, <3>4, <1>4, LimitAssumption
  <2> QED BY <2>1, <2>2
<1>6. \A n \in Node, r \in Remote : n # m \/ r # q => active'[n][r] = active[n][r]
  BY <1>3 DEF TypeOK
<1>7. active' \in [Node -> [Remote -> Nat]]
  <2>1. active \in [Node -> [Remote -> Nat]]
    BY DEF TypeOK
  <2>2. PICK v : active' = [active EXCEPT ![m][q] = v]
    OBVIOUS
  <2>3. v = active'[m][q]
    BY <2>1, <2>2, <1>3
  <2>4. v \in Nat
    BY <2>3, <1>5
  <2> QED BY <2>1, <2>2, <2>4, <1>3
<1>8. SlotsAccounted'
  BY <1>1, <1>2, <1>3, <1>5, <1>6 DEF SlotsAccounted
<1>9. SlotsBounded'
  BY <1>3, <1>5, <1>6 DEF SlotsBounded
<1> QED BY <1>7, <1>8, <1>9

\* The invariant holds initially: nobody holds a slot.
LEMMA SlotInit == Init => SlotInv
<1> SUFFICES ASSUME Init PROVE SlotInv
  OBVIOUS
<1>1. /\ (CHOOSE n \in Node : TRUE) \in Node
      /\ (CHOOSE r \in Routes : TRUE) \in Routes
  BY SetAssumption, RouteAssumption, Zenon
<1>2. TypeOK
  BY <1>1 DEF Init, TypeOK, Stage, Remote
<1>3. \A n \in Node : TotalHolders(n) = {} /\ \A r \in Remote : RemoteHolders(n, r) = {}
  BY DEF Init, TotalHolders, RemoteHolders, HoldsTotal, HoldsRemote
<1>4. SlotsAccounted
  BY <1>3, FS_EmptySet DEF Init, SlotsAccounted
<1>5. SlotsBounded
  BY LimitAssumption DEF Init, SlotsBounded
<1> QED BY <1>2, <1>4, <1>5 DEF SlotInv

\* The five steps of the registry: each changes one counter together with one
\* session's holding, or, refused, changes neither.
LEMMA RegistryActions ==
  ASSUME SlotInv, NEW s \in Session,
         \/ AcquireTotal(s) \/ AcquireRemote(s) \/ Rollback(s)
         \/ ReleaseTotal(s) \/ ReleaseRemote(s)
  PROVE SlotInv'
<1> USE DEF Goto, sessVars, pumpVars
<1>t. TypeOK /\ SlotsAccounted /\ SlotsBounded
  BY DEF SlotInv
<1>m. node[s] \in Node /\ remote[s] \in Remote /\ total[node[s]] \in Nat
      /\ active[node[s]][remote[s]] \in Nat
  BY <1>t DEF TypeOK
<1>h. HoldsTotal(s) => total[node[s]] >= 1
  <2>1. ASSUME HoldsTotal(s) PROVE total[node[s]] >= 1
    <3>1. s \in TotalHolders(node[s]) /\ IsFiniteSet(TotalHolders(node[s]))
      BY <2>1, HoldersFinite DEF TotalHolders
    <3>2. Cardinality(TotalHolders(node[s])) >= 1
      BY <3>1, HolderLeaves
    <3> QED BY <3>2, <1>t, <1>m DEF SlotsAccounted
  <2> QED BY <2>1
<1>r. HoldsRemote(s) => active[node[s]][remote[s]] >= 1
  <2>1. ASSUME HoldsRemote(s) PROVE active[node[s]][remote[s]] >= 1
    <3>1. s \in RemoteHolders(node[s], remote[s])
      BY <2>1 DEF RemoteHolders
    <3>2. IsFiniteSet(RemoteHolders(node[s], remote[s]))
      BY HoldersFinite
    <3>3. Cardinality(RemoteHolders(node[s], remote[s])) >= 1
      BY <3>1, <3>2, HolderLeaves
    <3> QED BY <3>3, <1>t, <1>m DEF SlotsAccounted
  <2> QED BY <2>1
<1>1. CASE AcquireTotal(s)
  <2>1. CASE total[node[s]] >= MaxTotal
    <3>1. TypeOK'
      BY <1>1, <2>1, <1>t DEF AcquireTotal, TypeOK, Stage
    <3>2. Quiet
      BY <1>1, <2>1, <1>t DEF AcquireTotal, TypeOK, Quiet, HoldsTotal, HoldsRemote
    <3> QED BY <3>1, <3>2, <1>t, QuietStep DEF SlotInv
  <2>2. CASE ~(total[node[s]] >= MaxTotal)
    <3>0. pc' = [pc EXCEPT ![s] = "remote"]
      BY <1>1, <2>2 DEF AcquireTotal
    <3>1. pc' \in [Session -> Stage]
      BY <3>0, <1>t DEF TypeOK, Stage
    <3>2. /\ \A t \in Session : HoldsRemote(t)' <=> HoldsRemote(t)
          /\ \A t \in Session \ {s} : HoldsTotal(t)' <=> HoldsTotal(t)
          /\ ~HoldsTotal(s) /\ HoldsTotal(s)'
      BY <1>1, <2>2, <1>t DEF AcquireTotal, TypeOK, HoldsTotal, HoldsRemote
    <3>3. /\ total[node[s]] < MaxTotal /\ total' = [total EXCEPT ![node[s]] = @ + 1]
          /\ node' = node /\ remote' = remote /\ active' = active
      BY <1>1, <2>2, <1>m, LimitAssumption DEF AcquireTotal
    <3>4. SlotsAccounted' /\ SlotsBounded' /\ total' \in [Node -> Nat]
      BY <3>2, <3>3, TotalChanges
    <3> QED BY <1>1, <3>1, <3>3, <3>4, <1>t DEF AcquireTotal, SlotInv, TypeOK
  <2> QED BY <2>1, <2>2
<1>2. CASE AcquireRemote(s)
  <2>1. CASE RemoteFull(s)
    <3>1. TypeOK'
      BY <1>2, <2>1, <1>t DEF AcquireRemote, TypeOK, Stage
    <3>2. Quiet
      BY <1>2, <2>1, <1>t DEF AcquireRemote, TypeOK, Quiet, HoldsTotal, HoldsRemote
    <3> QED BY <3>1, <3>2, <1>t, QuietStep DEF SlotInv
  <2>2. CASE ~RemoteFull(s)
    <3>0. pc' = [pc EXCEPT ![s] = "checks"]
      BY <1>2, <2>2 DEF AcquireRemote
    <3>1. pc' \in [Session -> Stage]
      BY <3>0, <1>t DEF TypeOK, Stage
    <3>2. /\ \A t \in Session : HoldsTotal(t)' <=> HoldsTotal(t)
          /\ \A t \in Session \ {s} : HoldsRemote(t)' <=> HoldsRemote(t)
          /\ ~HoldsRemote(s) /\ HoldsRemote(s)'
      BY <1>2, <2>2, <1>t DEF AcquireRemote, TypeOK, HoldsTotal, HoldsRemote
    <3>3. active[node[s]][remote[s]] < MaxPerRemote
      BY <2>2, <1>m, LimitAssumption DEF RemoteFull
    <3>4. /\ active' = [active EXCEPT ![node[s]][remote[s]] = @ + 1]
          /\ node' = node /\ remote' = remote /\ total' = total
      BY <1>2, <2>2 DEF AcquireRemote
    <3>5. SlotsAccounted' /\ SlotsBounded' /\ active' \in [Node -> [Remote -> Nat]]
      BY <3>2, <3>3, <3>4, RemoteChanges
    <3> QED BY <1>2, <3>1, <3>4, <3>5, <1>t DEF AcquireRemote, SlotInv, TypeOK
  <2> QED BY <2>1, <2>2
<1>3. CASE Rollback(s) \/ ReleaseTotal(s)
  <2>0. pc' = [pc EXCEPT ![s] = "end"] \/ pc' = [pc EXCEPT ![s] = "releaseRemote"]
    BY <1>3 DEF Rollback, ReleaseTotal
  <2>1. pc' \in [Session -> Stage]
    BY <2>0, <1>t DEF TypeOK, Stage
  <2>2. /\ \A t \in Session : HoldsRemote(t)' <=> HoldsRemote(t)
        /\ \A t \in Session \ {s} : HoldsTotal(t)' <=> HoldsTotal(t)
        /\ HoldsTotal(s) /\ ~HoldsTotal(s)'
    BY <1>3, <1>t DEF Rollback, ReleaseTotal, TypeOK, HoldsTotal, HoldsRemote
  <2>3. ~(total[node[s]] <= 0)
    BY <2>2, <1>h, <1>m
  <2>4. /\ total' = [total EXCEPT ![node[s]] = @ - 1]
        /\ node' = node /\ remote' = remote /\ active' = active
    BY <1>3, <2>3 DEF Rollback, ReleaseTotal
  <2>5. SlotsAccounted' /\ SlotsBounded' /\ total' \in [Node -> Nat]
    BY <2>2, <2>4, TotalChanges
  <2> QED BY <1>3, <2>1, <2>4, <2>5, <1>t DEF Rollback, ReleaseTotal, SlotInv, TypeOK
<1>4. CASE ReleaseRemote(s)
  <2>1. pc' \in [Session -> Stage]
    BY <1>4, <1>t DEF ReleaseRemote, TypeOK, Stage
  <2>2. /\ \A t \in Session : HoldsTotal(t)' <=> HoldsTotal(t)
        /\ \A t \in Session \ {s} : HoldsRemote(t)' <=> HoldsRemote(t)
        /\ HoldsRemote(s) /\ ~HoldsRemote(s)'
    BY <1>4, <1>t DEF ReleaseRemote, TypeOK, HoldsTotal, HoldsRemote
  <2>3. ~(active[node[s]][remote[s]] <= 0)
    BY <2>2, <1>r, <1>m
  <2>4. /\ active' = [active EXCEPT ![node[s]][remote[s]] = @ - 1]
        /\ node' = node /\ remote' = remote /\ total' = total
    BY <1>4, <2>3 DEF ReleaseRemote
  <2>5. SlotsAccounted' /\ SlotsBounded' /\ active' \in [Node -> [Remote -> Nat]]
    BY <2>2, <2>4, RemoteChanges
  <2> QED BY <1>4, <2>1, <2>4, <2>5, <1>t DEF ReleaseRemote, SlotInv, TypeOK
<1> QED BY <1>1, <1>2, <1>3, <1>4

\* Every step keeps the invariant.
LEMMA SlotStep == SlotInv /\ [Next]_vars => SlotInv'
<1> SUFFICES ASSUME SlotInv, [Next]_vars PROVE SlotInv'
  OBVIOUS
<1>1. CASE UNCHANGED vars
  <2>1. TypeOK'
    BY <1>1 DEF vars, sessVars, pumpVars, registryVars, SlotInv, TypeOK
  <2>2. Quiet
    BY <1>1 DEF vars, sessVars, registryVars, Quiet, HoldsTotal, HoldsRemote
  <2> QED BY <2>1, <2>2, QuietStep DEF SlotInv
<1>2. CASE Next
  <2>1. PICK s \in Session :
          \/ \E m \in {s} \union StreamId, ask \in Asks : Open(s, m, ask)
          \/ ClientLeaves(s) \/ ThreadStep(s) \/ ReadConnect(s) \/ ConnectFails(s)
          \/ TargetEnds(s) \/ UpPumpEnds(s) \/ DownPumpEnds(s)
    BY <1>2 DEF Next
  <2>2. CASE \/ AcquireTotal(s) \/ AcquireRemote(s) \/ Rollback(s)
             \/ ReleaseTotal(s) \/ ReleaseRemote(s)
    BY <2>2, RegistryActions
  <2>3. CASE \/ \E m \in {s} \union StreamId, ask \in Asks : Open(s, m, ask)
             \/ ClientLeaves(s) \/ Reject(s) \/ PassChecks(s)
             \/ ReadConnect(s) \/ ConnectFails(s) \/ ExitBlocking(s) \/ ExitBridge(s)
             \/ DialFails(s) \/ PumpsJoined(s) \/ TargetEnds(s)
             \/ UpPumpEnds(s) \/ DownPumpEnds(s)
             \/ \E c \in Session : Forward(s, c)
    <3>1. TypeOK' /\ Quiet
      BY <2>3, QuietActions DEF SlotInv
    <3> QED BY <3>1, QuietStep DEF SlotInv
  <2> QED BY <2>1, <2>2, <2>3 DEF ThreadStep
<1> QED BY <1>1, <1>2

\* The invariant holds in every state of every run of the specification.
THEOREM SlotInvariant == Spec => []SlotInv
<1>1. Init => SlotInv
  BY SlotInit
<1>2. SlotInv /\ [Next]_vars => SlotInv'
  BY SlotStep
<1> QED BY <1>1, <1>2, PTL DEF Spec

\* Types, in particular: no counter of RelayRegistry ever goes below zero, on
\* any cluster and for any number of sessions.
THEOREM TypeCorrect == Spec => []TypeOK
<1>1. SlotInv => TypeOK
  BY DEF SlotInv
<1> QED BY <1>1, SlotInvariant, PTL

\* RelayRegistry's two counters always agree with the sessions that hold a
\* slot.
THEOREM SlotsAreAccounted == Spec => []SlotsAccounted
<1>1. SlotInv => SlotsAccounted
  BY DEF SlotInv
<1> QED BY <1>1, SlotInvariant, PTL

\* relay.maxTotal and relay.maxPerRemote are never exceeded.
THEOREM SlotsAreBounded == Spec => []SlotsBounded
<1>1. SlotInv => SlotsBounded
  BY DEF SlotInv
<1> QED BY <1>1, SlotInvariant, PTL

-----------------------------------------------------------------------------
Passed == {"connect", "dispatch", "run", "leaked"}
Handed == {"run", "release", "releaseRemote", "end"}

\* What ChainBounded rests on.  A chain grows at its end only: a session with a
\* later one in its chain has handed its input on, so it will not forward
\* again, and the hops of a chain are different numbers from its root's on; a
\* thread past the checks has passed the limit the server chose.
ChainInv == \A s \in Session :
  /\ pc[s] = "free" => root[s] = s
  /\ pc[s] # "free" => pc[root[s]] # "free"
  /\ relayHop[root[s]] <= relayHop[s]
  /\ pc[s] \in Passed => relayHop[s] <= CapHop
  /\ \A t \in Session : pc[s] # "free" /\ pc[t] # "free" /\ root[s] = root[t] =>
       /\ relayHop[s] = relayHop[t] => s = t
       /\ relayHop[s] < relayHop[t] => pc[s] \in Handed

\* A step that opens no session, lets none in and takes none back.
Steady ==
  /\ UNCHANGED <<relayHop, root>>
  /\ \A t \in Session :
       /\ pc'[t] \in Passed => pc[t] \in Passed
       /\ pc[t] \in Handed => pc'[t] \in Handed
       /\ pc[t] = "free" <=> pc'[t] = "free"

\* A steady step keeps the chain invariant.
LEMMA SteadyStep == ASSUME TypeOK, ChainInv, Steady PROVE ChainInv'
<1>1. CapHop' = CapHop
  BY DEF CapHop
<1>2. \A t \in Session : root[t] \in Session
  BY DEF TypeOK
<1> QED BY <1>1, <1>2 DEF ChainInv, Steady

\* Every step but the three that open, let in or link a session is steady.
LEMMA SteadyActions ==
  ASSUME TypeOK, NEW s \in Session,
         \/ ClientLeaves(s) \/ AcquireTotal(s) \/ AcquireRemote(s) \/ Rollback(s)
         \/ Reject(s) \/ ReadConnect(s) \/ ConnectFails(s) \/ ExitBlocking(s)
         \/ ExitBridge(s) \/ DialFails(s) \/ PumpsJoined(s) \/ TargetEnds(s)
         \/ UpPumpEnds(s) \/ DownPumpEnds(s) \/ ReleaseTotal(s) \/ ReleaseRemote(s)
  PROVE Steady
<1> USE DEF TypeOK, Steady, Passed, Handed, Goto, sessVars, pumpVars, registryVars
<1>1. CASE ClientLeaves(s) \/ TargetEnds(s) \/ UpPumpEnds(s) \/ DownPumpEnds(s)
  BY <1>1 DEF ClientLeaves, TargetEnds, UpPumpEnds, DownPumpEnds, PumpEnds
<1>2. CASE AcquireTotal(s)
  BY <1>2 DEF AcquireTotal
<1>3. CASE AcquireRemote(s)
  BY <1>3 DEF AcquireRemote
<1>4. CASE Rollback(s) \/ ReleaseTotal(s) \/ ReleaseRemote(s)
  BY <1>4 DEF Rollback, ReleaseTotal, ReleaseRemote
<1>5. CASE Reject(s) \/ ReadConnect(s) \/ ConnectFails(s)
  BY <1>5 DEF Reject, ReadConnect, ConnectFails
<1>6. CASE ExitBlocking(s) \/ ExitBridge(s) \/ DialFails(s) \/ PumpsJoined(s)
  BY <1>6 DEF ExitBlocking, ExitBridge, Exit, DialFails, PumpsJoined
<1> QED BY <1>1, <1>2, <1>3, <1>4, <1>5, <1>6

\* A client opens a chain of its own.
LEMMA OpenKeepsChain ==
  ASSUME TypeOK, ChainInv, NEW s \in Session, NEW m, NEW ask \in Asks, Open(s, m, ask)
  PROVE ChainInv'
<1>1. /\ pc[s] = "free" /\ root' = root
      /\ pc' = [pc EXCEPT ![s] = "total"]
      /\ relayHop' = [relayHop EXCEPT ![s] = ask[2]]
  BY DEF Open, Fresh, Goto
<1>2. \A t \in Session : t # s => pc'[t] = pc[t] /\ relayHop'[t] = relayHop[t]
  BY <1>1 DEF TypeOK
<1>3. pc'[s] = "total" /\ relayHop'[s] \in Nat /\ root[s] = s
  BY <1>1, AskParts DEF TypeOK, ChainInv
<1>4. \A t \in Session : t # s => root[t] # s
  <2>1. ASSUME NEW t \in Session, t # s, root[t] = s PROVE FALSE
    BY <2>1, <1>1 DEF ChainInv
  <2> QED BY <2>1
<1>5. \A t \in Session : root[t] \in Session /\ relayHop'[t] \in Nat
  BY <1>2, <1>3 DEF TypeOK
<1>6. CapHop' = CapHop
  BY DEF CapHop
<1> QED BY <1>1, <1>2, <1>3, <1>4, <1>5, <1>6 DEF ChainInv, Passed

\* The checks let a session in whose hop is within the limit.
LEMMA PassKeepsChain ==
  ASSUME TypeOK, ChainInv, NEW s \in Session, PassChecks(s)
  PROVE ChainInv'
<1>1. /\ pc[s] = "checks" /\ relayHop[s] <= CapHop /\ root' = root /\ relayHop' = relayHop
      /\ pc' = [pc EXCEPT ![s] = "connect"]
  BY DEF PassChecks, Goto, sessVars
<1>2. pc'[s] = "connect" /\ \A t \in Session : t # s => pc'[t] = pc[t]
  BY <1>1 DEF TypeOK
<1>3. CapHop' = CapHop /\ \A t \in Session : root[t] \in Session
  BY DEF CapHop, TypeOK
<1>4. pc[s] # "free" /\ pc[s] \notin Handed
  BY <1>1 DEF Handed
<1> QED BY <1>1, <1>2, <1>3, <1>4 DEF ChainInv, Passed

\* The last session of a chain adds one at its end.
LEMMA ForwardKeepsChain ==
  ASSUME TypeOK, ChainInv, NEW s \in Session, NEW c \in Session, Forward(s, c)
  PROVE ChainInv'
<1>1. /\ pc[s] = "dispatch" /\ pc[c] = "free"
      /\ pc' = [pc EXCEPT ![s] = "run", ![c] = "total"]
      /\ root' = [root EXCEPT ![c] = root[s]]
      /\ relayHop' = [relayHop EXCEPT ![c] = relayHop[s] + 1]
  BY DEF Forward, Fresh, ForwardOpts
<1>2. /\ s # c /\ pc'[s] = "run" /\ pc'[c] = "total"
      /\ root'[c] = root[s] /\ root'[s] = root[s]
      /\ relayHop'[s] = relayHop[s] /\ relayHop'[c] = relayHop[s] + 1
  BY <1>1 DEF TypeOK
<1>3. \A t \in Session : t # c => root'[t] = root[t] /\ relayHop'[t] = relayHop[t]
  BY <1>1 DEF TypeOK
<1>4. \A t \in Session : t # s /\ t # c => pc'[t] = pc[t]
  BY <1>1 DEF TypeOK
<1>5. \A t \in Session : root[t] \in Session /\ relayHop[t] \in Nat /\ relayHop'[t] \in Nat
  BY <1>2, <1>3 DEF TypeOK
<1>6. \A t \in Session : t # c => root[t] # c
  <2>1. ASSUME NEW t \in Session, t # c, root[t] = c PROVE FALSE
    BY <2>1, <1>1 DEF ChainInv
  <2> QED BY <2>1
<1>7. \A t \in Session :
        pc[t] # "free" /\ root[t] = root[s] /\ t # s => relayHop[t] < relayHop[s] /\ pc[t] \in Handed
  <2>1. ASSUME NEW t \in Session, pc[t] # "free", root[t] = root[s], t # s
        PROVE relayHop[t] < relayHop[s] /\ pc[t] \in Handed
    <3>1. relayHop[s] # relayHop[t]
      BY <2>1, <1>1 DEF ChainInv
    <3>2. ~(relayHop[s] < relayHop[t])
      BY <2>1, <1>1 DEF ChainInv, Handed
    <3>3. relayHop[t] < relayHop[s]
      BY <3>1, <3>2, <1>5
    <3> QED BY <2>1, <3>3, <1>1 DEF ChainInv
  <2> QED BY <2>1
<1>8. CapHop' = CapHop /\ relayHop[s] <= CapHop
  BY <1>1 DEF CapHop, ChainInv, Passed
<1>9. ASSUME NEW t \in Session
      PROVE /\ pc'[t] = "free" => root'[t] = t
            /\ pc'[t] # "free" => pc'[root'[t]] # "free"
            /\ relayHop'[root'[t]] <= relayHop'[t]
            /\ pc'[t] \in Passed => relayHop'[t] <= CapHop
  <2>1. CASE t = c
    <3>1. root[s] # c /\ pc[root[s]] # "free" /\ relayHop[root[s]] <= relayHop[s]
      BY <1>1, <1>2, <1>6 DEF ChainInv
    <3> QED BY <2>1, <3>1, <1>2, <1>3, <1>4, <1>5 DEF Passed
  <2>2. CASE t # c /\ t # s
    <3>1. root[t] # c /\ root'[t] = root[t] /\ relayHop'[root[t]] = relayHop[root[t]]
      BY <2>2, <1>3, <1>5, <1>6
    <3>2. pc'[t] = pc[t] /\ relayHop'[t] = relayHop[t]
      BY <2>2, <1>3, <1>4
    <3>3. pc[t] # "free" => pc'[root[t]] # "free"
      BY <3>1, <1>1, <1>2, <1>4, <1>5 DEF ChainInv
    <3> QED BY <3>1, <3>2, <3>3 DEF ChainInv
  <2>3. CASE t = s
    <3>1. root[s] # c /\ root'[s] = root[s] /\ relayHop'[root[s]] = relayHop[root[s]]
      BY <1>2, <1>3, <1>5, <1>6
    <3>2. pc'[root[s]] # "free" /\ pc'[s] = "run" /\ relayHop'[s] = relayHop[s]
      BY <3>1, <1>1, <1>2, <1>4, <1>5 DEF ChainInv
    <3>3. relayHop[root[s]] <= relayHop[s]
      BY DEF ChainInv
    <3> QED BY <2>3, <3>1, <3>2, <3>3, <1>8
  <2> QED BY <2>1, <2>2, <2>3
<1>10. ASSUME NEW t \in Session, NEW u \in Session,
              pc'[t] # "free", pc'[u] # "free", root'[t] = root'[u]
       PROVE /\ relayHop'[t] = relayHop'[u] => t = u
             /\ relayHop'[t] < relayHop'[u] => pc'[t] \in Handed
  <2>1. CASE t # c /\ u # c
    <3>1. pc[t] # "free" /\ pc[u] # "free" /\ root[t] = root[u]
      BY <2>1, <1>10, <1>1, <1>3, <1>4
    <3>2. pc[t] \in Handed => pc'[t] \in Handed
      BY <2>1, <1>1, <1>2, <1>4 DEF Handed
    <3> QED BY <2>1, <3>1, <3>2, <1>3 DEF ChainInv
  <2>2. CASE t = c /\ u # c
    <3>1. pc[u] # "free" /\ root[u] = root[s]
      BY <2>2, <1>10, <1>1, <1>2, <1>3, <1>4
    <3>2. relayHop[u] <= relayHop[s]
      BY <3>1, <1>7, <1>5
    <3> QED BY <2>2, <3>2, <1>2, <1>3, <1>5
  <2>3. CASE t # c /\ u = c
    <3>1. pc[t] # "free" /\ root[t] = root[s]
      BY <2>3, <1>10, <1>1, <1>2, <1>3, <1>4
    <3>2. relayHop[t] <= relayHop[s] /\ pc'[t] \in Handed
      BY <2>3, <3>1, <1>7, <1>5, <1>2, <1>4 DEF Handed
    <3> QED BY <2>3, <3>2, <1>2, <1>3, <1>5
  <2>4. CASE t = c /\ u = c
    BY <2>4, <1>5
  <2> QED BY <2>1, <2>2, <2>3, <2>4
<1> QED BY <1>8, <1>9, <1>10 DEF ChainInv

\* Every step keeps ChainInv.
LEMMA ChainStep == TypeOK /\ ChainInv /\ [Next]_vars => ChainInv'
<1> SUFFICES ASSUME TypeOK, ChainInv, [Next]_vars PROVE ChainInv'
  OBVIOUS
<1>1. CASE UNCHANGED vars
  <2>1. Steady
    BY <1>1 DEF vars, sessVars, Steady
  <2> QED BY <2>1, SteadyStep
<1>2. CASE Next
  <2>1. PICK s \in Session :
          \/ \E m \in {s} \union StreamId, ask \in Asks : Open(s, m, ask)
          \/ ClientLeaves(s) \/ ThreadStep(s) \/ ReadConnect(s) \/ ConnectFails(s)
          \/ TargetEnds(s) \/ UpPumpEnds(s) \/ DownPumpEnds(s)
    BY <1>2 DEF Next
  <2>2. CASE \E m \in {s} \union StreamId, ask \in Asks : Open(s, m, ask)
    BY <2>2, OpenKeepsChain
  <2>3. CASE PassChecks(s)
    BY <2>3, PassKeepsChain
  <2>4. CASE \E c \in Session : Forward(s, c)
    BY <2>4, ForwardKeepsChain
  <2>5. CASE \/ ClientLeaves(s) \/ AcquireTotal(s) \/ AcquireRemote(s) \/ Rollback(s)
             \/ Reject(s) \/ ReadConnect(s) \/ ConnectFails(s) \/ ExitBlocking(s)
             \/ ExitBridge(s) \/ DialFails(s) \/ PumpsJoined(s) \/ TargetEnds(s)
             \/ UpPumpEnds(s) \/ DownPumpEnds(s) \/ ReleaseTotal(s) \/ ReleaseRemote(s)
    BY <2>5, SteadyActions, SteadyStep
  <2> QED BY <2>1, <2>2, <2>3, <2>4, <2>5 DEF ThreadStep
<1> QED BY <1>1, <1>2

\* The sessions of a chain that were let in carry different hops, from the
\* root's to the hop limit, so there are no more of them than such hops.
LEMMA ChainCounted ==
  ASSUME TypeOK, ChainInv, NEW r \in Session
  PROVE Cardinality(LetIn(r)) <= Cardinality(relayHop[r]..HopLimit)
<1> DEFINE hops == relayHop[r]..HopLimit
<1> DEFINE hop == [s \in LetIn(r) |-> relayHop[s]]
<1>1. relayHop[r] \in Int /\ HopLimit \in Int /\ IsFiniteSet(hops)
  BY LimitAssumption, FS_Interval DEF TypeOK
<1>2. CapHop <= HopLimit /\ CapHop \in Int
  BY LimitAssumption DEF CapHop
<1>3. \A s \in LetIn(r) : relayHop[s] \in hops
  <2>1. ASSUME NEW s \in LetIn(r) PROVE relayHop[s] \in hops
    <3>1. s \in Session /\ root[s] = r /\ pc[s] \in Passed
      BY DEF LetIn, Passed
    <3>2. relayHop[r] <= relayHop[s] /\ relayHop[s] <= CapHop
      BY <3>1 DEF ChainInv
    <3>3. relayHop[s] \in Int
      BY <3>1 DEF TypeOK
    <3> QED BY <3>2, <3>3, <1>1, <1>2
  <2> QED BY <2>1
<1>4. \A s, t \in LetIn(r) : relayHop[s] = relayHop[t] => s = t
  BY DEF LetIn, ChainInv
<1>5. hop \in Injection(LetIn(r), hops)
  BY <1>3, <1>4 DEF Injection, IsInjective
<1> QED BY <1>1, <1>5, FS_Injection

\* No chain holds more slots than there are hops from the relayHop its client
\* sent to RELAY_HOP_HARD_LIMIT, whatever relayMaxHop and route it sends.
THEOREM ChainIsBounded == Spec => []ChainBounded
<1>1. Init => ChainInv
  BY DEF Init, ChainInv, Passed
<1>2. TypeOK /\ ChainInv /\ [Next]_vars => ChainInv'
  BY ChainStep
<1>3. TypeOK /\ ChainInv => ChainBounded
  BY ChainCounted DEF ChainBounded
<1> QED BY <1>1, <1>2, <1>3, TypeCorrect, PTL DEF Spec

=============================================================================
