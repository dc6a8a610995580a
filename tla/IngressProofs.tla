--------------------------- MODULE IngressProofs ---------------------------
(***************************************************************************)
(* Proof, for any number of connections, streams, event loops and threads, *)
(* that a socket is closed by the one that has it and by nobody else, that *)
(* the server's handshake counter is exact and bounded, and that no pool   *)
(* runs more tasks than it has threads.                                    *)
(***************************************************************************)
EXTENDS Ingress, SequenceTheorems, FiniteSetTheorems, TLAPS

\* Which stages of run() and of the task it submitted go together: a session
\* exists only for a socket that was handed off, and a socket that was handed
\* off and whose session is over is closed before run() has returned.
TcpAt(c) ==
  /\ run[c] # "over" /\ task[c] # "accept"
  /\ run[c] \in {"idle", "hsQueued", "handshake", "camouflage"} => task[c] = "none" /\ open[c]
  /\ InSession(c) => run[c] \in {"handed", "done"}
  /\ run[c] = "handed" /\ ~InSession(c) => ~open[c]

\* A stream's task is submitted by channelActive, and only a stream the timer
\* took out of the queue has a cancelled one: so whoever gives a count back has
\* one, and gives it back for a stream that is not cancelled.
QuicAt(c) ==
  /\ run[c] \in {"idle", "over", "done"} /\ task[c] \notin {"pumpQueued", "pump"}
  /\ task[c] # "none" => run[c] = "done"
  /\ cancelled[c] => task[c] = "ended"

StageAt(c) == (c \in Tcp => TcpAt(c)) /\ (c \in Quic => QuicAt(c))

OwnedAt(c) ==
  /\ c \in Tcp /\ InSession(c) => open[c]
  /\ run[c] = "done" /\ ~InSession(c) /\ c \notin forgotten => ~open[c]

\* A connection's parts on a pool's threads have a thread each, or share one.
ThreadsApart == \A p \in Pool : Busy(p) <= workers[p]

IngressInv ==
  /\ TypeOK /\ HandshakesAccounted /\ ThreadsApart
  /\ \A c \in Conn : StageAt(c) /\ OwnedAt(c)

\* The step is one of connection c: whatever the others have stays.
Frame(c) ==
  /\ \A d \in Conn \ {c} :
       /\ run'[d] = run[d] /\ task'[d] = task[d] /\ open'[d] = open[d]
       /\ runner'[d] = runner[d] /\ worker'[d] = worker[d]
       /\ d \in forgotten' <=> d \in forgotten
  /\ \A d \in Quic \ {c} : cancelled'[d] = cancelled[d]

Counts(c) == task[c] \in {"queued", "accept"} \/ cancelled[c]
On(p, c) == runner[c] = p \/ worker[c] = p

-----------------------------------------------------------------------------
\* Finite sets of connections.

LEMMA ConnFinite == IsFiniteSet(Conn) /\ IsFiniteSet(Quic) /\ Quic \subseteq Conn
<1>1. IsFiniteSet(Tcp) /\ IsFiniteSet(Quic)
  BY ConnAssumption
<1>2. IsFiniteSet(Tcp \union Quic)
  BY <1>1, FS_Union
<1> QED BY <1>1, <1>2 DEF Conn

LEMMA BusyNat == \A p \in Pool : Busy(p) \in Nat
<1> SUFFICES ASSUME NEW p \in Pool PROVE Busy(p) \in Nat
  OBVIOUS
<1> DEFINE B == {c \in Conn : runner[c] = p \/ worker[c] = p}
<1>1. IsFiniteSet(B)
  BY ConnFinite, FS_Subset
<1>2. Busy(p) = Cardinality(B)
  BY DEF Busy
<1> HIDE DEF B
<1> QED BY <1>1, <1>2, FS_CardinalityType

LEMMA AdmittedFinite ==
  /\ IsFiniteSet(Admitted) /\ IsFiniteSet(TurnedAway)
  /\ Cardinality(Admitted) \in Nat /\ Cardinality(TurnedAway) \in Nat
<1>1. Admitted \subseteq Quic /\ TurnedAway \subseteq Quic
  BY DEF Admitted, TurnedAway
<1>2. IsFiniteSet(Admitted) /\ IsFiniteSet(TurnedAway)
  BY <1>1, ConnFinite, FS_Subset
<1> QED BY <1>2, FS_CardinalityType

\* One connection changes threads: only the pool it moves to has more to do,
\* and at most by one.
LEMMA BusyStep ==
  ASSUME NEW c \in Conn, Frame(c), NEW p \in Pool
  PROVE  /\ Busy(p)' \in Nat
         /\ Busy(p)' <= Busy(p) + 1
         /\ (On(p, c)' => On(p, c)) => Busy(p)' <= Busy(p)
<1> DEFINE B == {d \in Conn : runner[d] = p \/ worker[d] = p}
           N == {d \in Conn : runner'[d] = p \/ worker'[d] = p}
<1>1. IsFiniteSet(B) /\ IsFiniteSet(N)
  BY ConnFinite, FS_Subset
<1>2. Busy(p) = Cardinality(B) /\ Busy(p)' = Cardinality(N)
  BY DEF Busy
<1>3. N \subseteq B \cup {c}
  BY DEF Frame
<1>4. (On(p, c)' => On(p, c)) => N \subseteq B
  BY DEF Frame, On
<1> HIDE DEF B, N
<1>5. IsFiniteSet(B \cup {c})
  BY <1>1, FS_AddElement
<1>6. Cardinality(B) \in Nat /\ Cardinality(N) \in Nat /\ Cardinality(B \cup {c}) \in Nat
  BY <1>1, <1>5, FS_CardinalityType
<1>a. IsFiniteSet(B)
  BY <1>1
<1>b. /\ IsFiniteSet(B \cup {c})
      /\ Cardinality(B \cup {c}) = IF c \in B THEN Cardinality(B) ELSE Cardinality(B) + 1
  BY <1>a, FS_AddElement
<1>7. Cardinality(B \cup {c}) <= Cardinality(B) + 1
  BY <1>b, <1>6
<1>8. Cardinality(N) <= Cardinality(B \cup {c})
  BY <1>3, <1>5, FS_Subset
<1>9. (On(p, c)' => On(p, c)) => Cardinality(N) <= Cardinality(B)
  BY <1>1, <1>4, FS_Subset
<1> QED BY <1>2, <1>6, <1>7, <1>8, <1>9

\* A connection that is given no further thread of a pool leaves every pool in
\* order.
LEMMA ThreadsLocal ==
  ASSUME TypeOK, ThreadsApart, NEW c \in Conn, Frame(c), workers' = workers,
         \A p \in Pool : On(p, c)' => On(p, c)
  PROVE  ThreadsApart'
<1> SUFFICES ASSUME NEW p \in Pool PROVE Busy(p)' <= workers[p]
  BY DEF ThreadsApart
<1>1. Busy(p)' \in Nat /\ Busy(p)' <= Busy(p)
  BY BusyStep
<1>2. Busy(p) <= workers[p] /\ workers[p] \in Nat /\ Busy(p) \in Nat
  BY BusyNat DEF ThreadsApart, TypeOK
<1> QED BY <1>1, <1>2

\* The counter, when the connection neither begins nor ceases to count.
LEMMA CountUnchanged ==
  ASSUME HandshakesAccounted, NEW c \in Conn, Frame(c), handshakes' = handshakes,
         c \in Quic => (Counts(c)' <=> Counts(c)) /\ (run'[c] = "over" <=> run[c] = "over")
  PROVE  HandshakesAccounted'
<1>1. \A d \in Quic : (Counts(d)' <=> Counts(d)) /\ (run'[d] = "over" <=> run[d] = "over")
  BY ConnFinite DEF Frame, Counts
<1>2. Admitted' = Admitted /\ TurnedAway' = TurnedAway
  BY <1>1 DEF Admitted, TurnedAway, Counts
<1> QED BY <1>2 DEF HandshakesAccounted

\* What is left to show of a step of one connection.
LEMMA StageLocal ==
  ASSUME IngressInv, NEW c \in Conn, Frame(c), StageAt(c)', OwnedAt(c)'
  PROVE  \A d \in Conn : StageAt(d)' /\ OwnedAt(d)'
<1> SUFFICES ASSUME NEW d \in Conn, d # c PROVE StageAt(d)' /\ OwnedAt(d)'
  OBVIOUS
<1>1. StageAt(d) /\ OwnedAt(d)
  BY DEF IngressInv
<1>2. /\ run'[d] = run[d] /\ task'[d] = task[d] /\ open'[d] = open[d]
      /\ d \in forgotten' <=> d \in forgotten
      /\ d \in Quic => cancelled'[d] = cancelled[d]
  BY DEF Frame
<1> QED BY <1>1, <1>2 DEF StageAt, OwnedAt, TcpAt, QuicAt, InSession

LEMMA LocalStep ==
  ASSUME IngressInv, NEW c \in Conn, Frame(c), TypeOK', StageAt(c)', OwnedAt(c)',
         workers' = workers, handshakes' = handshakes,
         \A p \in Pool : On(p, c)' => On(p, c),
         c \in Quic => (Counts(c)' <=> Counts(c)) /\ (run'[c] = "over" <=> run[c] = "over")
  PROVE  IngressInv'
<1>1. ThreadsApart'
  BY ThreadsLocal DEF IngressInv
<1>2. HandshakesAccounted'
  BY CountUnchanged DEF IngressInv
<1>3. \A d \in Conn : StageAt(d)' /\ OwnedAt(d)'
  BY StageLocal
<1> QED BY <1>1, <1>2, <1>3 DEF IngressInv

-----------------------------------------------------------------------------
\* ThreadPoolExecutor.execute keeps to the pool's limits.
LEMMA ExecuteKeeps ==
  ASSUME TypeOK, NEW p \in Pool, NEW c \in Conn, Execute(p, c)
  PROVE  /\ workers' \in [Pool -> Nat] /\ \A q \in Pool : workers'[q] <= Max[q] /\ workers[q] <= workers'[q]
         /\ queue' \in [Pool -> Seq(Conn)] /\ \A q \in Pool : Len(queue'[q]) <= Cap[q]
         /\ Placement(p) = "spawn" => workers'[p] = workers[p] + 1
<1>t. /\ workers \in [Pool -> Nat] /\ \A q \in Pool : workers[q] <= Max[q] /\ workers[q] \in Nat
      /\ queue \in [Pool -> Seq(Conn)] /\ \A q \in Pool : Len(queue[q]) <= Cap[q]
      /\ queue[p] \in Seq(Conn)
  BY DEF TypeOK
<1>k. Core[p] \in Nat /\ Max[p] \in Nat /\ Cap[p] \in Nat /\ Core[p] <= Max[p] /\ Len(queue[p]) \in Nat
  BY PoolAssumption, <1>t, LenProperties
<1>1. CASE Placement(p) = "spawn"
  <2>1. workers[p] < Max[p]
    BY <1>1, <1>k, <1>t DEF Placement
  <2>2. workers' = [workers EXCEPT ![p] = @ + 1] /\ queue' = queue
    BY <1>1, <1>t DEF Execute
  <2>3. workers'[p] = workers[p] + 1 /\ \A q \in Pool : q # p => workers'[q] = workers[q]
    BY <2>2, <1>t
  <2>4. workers' \in [Pool -> Nat]
    BY <2>2, <1>t
  <2>5. workers[p] + 1 <= Max[p] /\ workers[p] <= workers[p] + 1
    BY <2>1, <1>t, <1>k
  <2>6. \A q \in Pool : workers'[q] <= Max[q] /\ workers[q] <= workers'[q]
    <3> SUFFICES ASSUME NEW q \in Pool PROVE workers'[q] <= Max[q] /\ workers[q] <= workers'[q]
      OBVIOUS
    <3>1. workers[q] \in Nat /\ workers[q] <= Max[q] /\ workers[q] <= workers[q]
      BY <1>t
    <3>2. CASE q = p
      BY <3>2, <2>3, <2>5
    <3>3. CASE q # p
      BY <3>1, <3>3, <2>3
    <3> QED BY <3>2, <3>3
  <2> QED BY <2>2, <2>3, <2>4, <2>6, <1>t
<1>2. CASE Placement(p) = "queue"
  <2>1. Len(queue[p]) < Cap[p]
    BY <1>2, <1>k, <1>t DEF Placement
  <2>2. workers' = workers /\ queue' = [queue EXCEPT ![p] = Append(@, c)]
    BY <1>2, <1>t DEF Execute
  <2>3. Append(queue[p], c) \in Seq(Conn) /\ Len(Append(queue[p], c)) = Len(queue[p]) + 1
    BY <1>t, AppendProperties
  <2>4. queue'[p] = Append(queue[p], c) /\ \A q \in Pool : q # p => queue'[q] = queue[q]
    BY <2>2, <1>t
  <2>5. queue' \in [Pool -> Seq(Conn)]
    BY <2>2, <2>3, <1>t
  <2>6. Len(queue'[p]) <= Cap[p]
    BY <2>1, <2>3, <2>4, <1>k
  <2>7. \A q \in Pool : Len(queue'[q]) <= Cap[q]
    BY <2>4, <2>6, <1>t
  <2>8. \A q \in Pool : workers[q] <= workers[q]
    BY <1>t
  <2> QED BY <2>2, <2>5, <2>7, <2>8, <1>t, <1>2
<1>3. CASE Placement(p) \notin {"spawn", "queue"}
  <2>1. workers' = workers /\ queue' = queue
    BY <1>3, <1>t DEF Execute
  <2>2. \A q \in Pool : workers[q] <= workers[q]
    BY <1>t
  <2> QED BY <2>1, <2>2, <1>t, <1>3
<1> QED BY <1>1, <1>2, <1>3

\* A task that is placed on a thread of the pool is that thread's only one, and
\* one that stays with the submitting thread takes no further thread.
LEMMA ThreadsPlaced ==
  ASSUME TypeOK, ThreadsApart, NEW p \in Pool, NEW c \in Conn, Frame(c), Execute(p, c),
         \A q \in Pool : On(q, c)' => On(q, c) \/ (q = p /\ Placement(p) = "spawn")
  PROVE  ThreadsApart'
<1> SUFFICES ASSUME NEW q \in Pool PROVE Busy(q)' <= workers'[q]
  BY DEF ThreadsApart
<1>1. Busy(q) \in Nat /\ Busy(q) <= workers[q]
  BY BusyNat DEF ThreadsApart
<1>2. Busy(q)' \in Nat /\ Busy(q)' <= Busy(q) + 1 /\ ((On(q, c)' => On(q, c)) => Busy(q)' <= Busy(q))
  BY BusyStep
<1>3. /\ workers' \in [Pool -> Nat] /\ workers[q] <= workers'[q]
      /\ Placement(p) = "spawn" => workers'[p] = workers[p] + 1
  BY ExecuteKeeps
<1>4. workers[q] \in Nat /\ workers'[q] \in Nat
  BY <1>3 DEF TypeOK
<1>5. CASE On(q, c)' => On(q, c)
  BY <1>1, <1>2, <1>3, <1>4, <1>5
<1>6. CASE q = p /\ Placement(p) = "spawn"
  BY <1>1, <1>2, <1>3, <1>4, <1>6
<1> QED BY <1>5, <1>6

-----------------------------------------------------------------------------
\* The client, and the steps of run() that submit nothing.
LEMMA ClientSteps ==
  ASSUME IngressInv, NEW c \in Conn, ClientSends(c) \/ ClientLeaves(c)
  PROVE  IngressInv'
<1>1. UNCHANGED <<runVars, taskVars, socketVars, poolVars, quicVars>>
  BY DEF ClientSends, ClientLeaves
<1>2. data' \in [Conn -> Data] /\ left' \in [Conn -> BOOLEAN]
  <2>1. CASE ClientSends(c)
    BY <2>1 DEF ClientSends, Sends, IngressInv, TypeOK, Data
  <2>2. CASE ClientLeaves(c)
    BY <2>2 DEF ClientLeaves, IngressInv, TypeOK
  <2> QED BY <2>1, <2>2
<1>3. Frame(c) /\ (\A p \in Pool : On(p, c)' => On(p, c))
  BY <1>1 DEF Frame, On, runVars, taskVars, socketVars, quicVars
<1>4. TypeOK'
  BY <1>1, <1>2 DEF IngressInv, TypeOK, runVars, taskVars, socketVars, poolVars, quicVars
<1>5. StageAt(c)' /\ OwnedAt(c)'
  <2>1. StageAt(c) /\ OwnedAt(c)
    BY DEF IngressInv
  <2> QED BY <2>1, <1>1 DEF StageAt, TcpAt, QuicAt, OwnedAt, InSession, runVars, taskVars, socketVars, quicVars
<1>6. workers' = workers /\ handshakes' = handshakes /\ (Counts(c)' <=> Counts(c)) /\ run'[c] = run[c]
  BY <1>1 DEF Counts, runVars, taskVars, poolVars, quicVars
<1> QED BY <1>3, <1>4, <1>5, <1>6, LocalStep

\* The counter does not see the step of a TCP connection.
LEMMA TcpLocal ==
  ASSUME IngressInv, NEW c \in Tcp, Frame(c), TypeOK', TcpAt(c)', OwnedAt(c)',
         workers' = workers, handshakes' = handshakes, \A p \in Pool : On(p, c)' => On(p, c)
  PROVE  IngressInv'
<1>1. c \in Conn /\ c \notin Quic
  BY ConnAssumption DEF Conn
<1>2. StageAt(c)'
  BY <1>1 DEF StageAt
<1> QED BY <1>1, <1>2, LocalStep

LEMMA RunSteps ==
  ASSUME IngressInv, NEW c \in Conn,
         \/ AcceptFails(c) \/ HandshakeFails(c) \/ EnterCamouflage(c) \/ CamouflageRead(c)
         \/ PumpEnds(c) \/ DownEnds(c) \/ DownFails(c) \/ Joined(c) \/ RunReturns(c)
  PROVE  IngressInv'
<1>i. TypeOK /\ StageAt(c) /\ OwnedAt(c)
  BY DEF IngressInv
<1>c. c \in Tcp /\ TcpAt(c)
  BY <1>i DEF StageAt, QuicAt, AcceptFails, HandshakeFails, EnterCamouflage, CamouflageRead, PumpEnds,
     DownEnds, DownFails, Joined, RunReturns, Conn
<1>1. CASE AcceptFails(c)
  <2>1. Frame(c) /\ TypeOK'
    BY <1>1, <1>i DEF AcceptFails, Frame, TypeOK, Run, taskVars, clientVars, poolVars, quicVars
  <2>2. TcpAt(c)' /\ OwnedAt(c)'
    BY <1>1, <1>i, <1>c DEF AcceptFails, TypeOK, TcpAt, OwnedAt, InSession, taskVars
  <2>3. workers' = workers /\ handshakes' = handshakes /\ \A p \in Pool : On(p, c)' => On(p, c)
    BY <1>1 DEF AcceptFails, On, taskVars, poolVars, quicVars
  <2> QED BY <2>1, <2>2, <2>3, <1>c, TcpLocal
<1>2. CASE RunFails(c) /\ run[c] \in {"handshake", "camouflage"}
  <2>1. Frame(c) /\ TypeOK'
    BY <1>2, <1>i DEF RunFails, Forget, Frame, TypeOK, Run, Data, taskVars, socketVars, poolVars, quicVars
  <2>2. TcpAt(c)' /\ OwnedAt(c)'
    BY <1>2, <1>i, <1>c DEF RunFails, TypeOK, TcpAt, OwnedAt, InSession, taskVars, socketVars
  <2>3. workers' = workers /\ handshakes' = handshakes /\ \A p \in Pool : On(p, c)' => On(p, c)
    BY <1>2 DEF RunFails, On, taskVars, poolVars, quicVars
  <2> QED BY <2>1, <2>2, <2>3, <1>c, TcpLocal
<1>3. CASE EnterCamouflage(c)
  <2>1. Frame(c) /\ TypeOK'
    BY <1>3, <1>i DEF EnterCamouflage, Frame, TypeOK, Run, taskVars, clientVars, socketVars, poolVars, quicVars
  <2>2. TcpAt(c)' /\ OwnedAt(c)'
    BY <1>3, <1>i, <1>c DEF EnterCamouflage, TypeOK, TcpAt, OwnedAt, InSession, taskVars, socketVars
  <2>3. workers' = workers /\ handshakes' = handshakes /\ \A p \in Pool : On(p, c)' => On(p, c)
    BY <1>3 DEF EnterCamouflage, On, taskVars, poolVars, quicVars
  <2> QED BY <2>1, <2>2, <2>3, <1>c, TcpLocal
<1>4. CASE PumpEnds(c)
  <2>1. Frame(c) /\ TypeOK'
    BY <1>4, <1>i DEF PumpEnds, Frame, TypeOK, Task, Thread, runVars, clientVars, socketVars, poolVars, quicVars
  <2>2. TcpAt(c)' /\ OwnedAt(c)'
    BY <1>4, <1>i, <1>c DEF PumpEnds, TypeOK, TcpAt, OwnedAt, InSession, runVars, socketVars
  <2>3. workers' = workers /\ handshakes' = handshakes /\ \A p \in Pool : On(p, c)' => On(p, c)
    BY <1>4, <1>i DEF PumpEnds, On, Pool, TypeOK, runVars, poolVars, quicVars
  <2> QED BY <2>1, <2>2, <2>3, <1>c, TcpLocal
<1>5. CASE DownEnds(c)
  <2>1. Frame(c) /\ TypeOK'
    BY <1>5, <1>i DEF DownEnds, Frame, TypeOK, Run, taskVars, clientVars, socketVars, poolVars, quicVars
  <2>2. TcpAt(c)' /\ OwnedAt(c)'
    BY <1>5, <1>i, <1>c DEF DownEnds, TypeOK, TcpAt, OwnedAt, InSession, taskVars, socketVars
  <2>3. workers' = workers /\ handshakes' = handshakes /\ \A p \in Pool : On(p, c)' => On(p, c)
    BY <1>5 DEF DownEnds, On, taskVars, poolVars, quicVars
  <2> QED BY <2>1, <2>2, <2>3, <1>c, TcpLocal
<1>6. CASE DownFails(c) \/ Joined(c)
  <2>0. ProxyReturns(c) /\ run[c] \in {"proxy", "proxyWait"}
    BY <1>6 DEF DownFails, Joined
  <2>1. Frame(c) /\ TypeOK'
    BY <2>0, <1>i DEF ProxyReturns, Frame, TypeOK, Run, taskVars, clientVars, poolVars, quicVars
  <2>2. TcpAt(c)' /\ OwnedAt(c)'
    BY <2>0, <1>i, <1>c DEF ProxyReturns, TypeOK, TcpAt, OwnedAt, InSession, taskVars
  <2>3. workers' = workers /\ handshakes' = handshakes /\ \A p \in Pool : On(p, c)' => On(p, c)
    BY <2>0 DEF ProxyReturns, On, taskVars, poolVars, quicVars
  <2> QED BY <2>1, <2>2, <2>3, <1>c, TcpLocal
<1>7. CASE RunReturns(c)
  <2>1. Frame(c) /\ TypeOK'
    BY <1>7, <1>i DEF RunReturns, Frame, TypeOK, Run, Thread, taskVars, clientVars, poolVars, quicVars
  <2>2. TcpAt(c)' /\ OwnedAt(c)'
    BY <1>7, <1>i, <1>c DEF RunReturns, TypeOK, TcpAt, OwnedAt, InSession, taskVars
  <2>3. workers' = workers /\ handshakes' = handshakes /\ \A p \in Pool : On(p, c)' => On(p, c)
    BY <1>7, <1>i DEF RunReturns, On, Pool, TypeOK, taskVars, poolVars, quicVars
  <2> QED BY <2>1, <2>2, <2>3, <1>c, TcpLocal
<1> QED BY <1>1, <1>2, <1>3, <1>4, <1>5, <1>6, <1>7 DEF HandshakeFails, CamouflageRead

-----------------------------------------------------------------------------
\* The acceptor and the threads of run() hand work to a pool.
LEMMA TcpSubmits ==
  ASSUME IngressInv, NEW c \in Conn, Accept(c) \/ HandOff(c) \/ EnterProxy(c)
  PROVE  IngressInv'
<1>i. TypeOK /\ StageAt(c) /\ OwnedAt(c) /\ ThreadsApart /\ HandshakesAccounted
  BY DEF IngressInv
<1>c. c \in Tcp /\ TcpAt(c) /\ c \notin Quic
  BY <1>i, ConnAssumption DEF StageAt, QuicAt, Accept, HandOff, EnterProxy, Conn
<1>1. PICK p \in Pool : Execute(p, c)
  BY DEF Accept, HandOff, EnterProxy, Submit, Pool
<1>2. /\ workers' \in [Pool -> Nat] /\ \A q \in Pool : workers'[q] <= Max[q]
      /\ queue' \in [Pool -> Seq(Conn)] /\ \A q \in Pool : Len(queue'[q]) <= Cap[q]
  BY <1>1, <1>i, ExecuteKeeps
<1>s. ASSUME Frame(c), TcpAt(c)', OwnedAt(c)', ThreadsApart', handshakes' = handshakes, TypeOK'
      PROVE  IngressInv'
  <2>1. StageAt(c)'
    BY <1>s, <1>c DEF StageAt
  <2>2. HandshakesAccounted'
    BY <1>s, <1>i, <1>c, CountUnchanged
  <2>3. \A d \in Conn : StageAt(d)' /\ OwnedAt(d)'
    BY <1>s, <2>1, StageLocal
  <2> QED BY <1>s, <2>2, <2>3 DEF IngressInv
<1>3. CASE Accept(c)
  <2>1. /\ run' = [run EXCEPT ![c] = IF Placement("hs") = "queue" THEN "hsQueued" ELSE "handshake"]
        /\ runner' = [runner EXCEPT ![c] = ThreadFor("hs", "acceptor")]
        /\ UNCHANGED <<taskVars, clientVars, socketVars, quicVars>> /\ run[c] = "idle" /\ Execute("hs", c)
    BY <1>3 DEF Accept
  <2>2. ThreadFor("hs", "acceptor") \in {"hs", "none", "acceptor"}
        /\ (ThreadFor("hs", "acceptor") = "hs" => Placement("hs") = "spawn")
    BY DEF ThreadFor
  <2>3. Frame(c)
    BY <2>1, <1>i DEF Frame, TypeOK, taskVars, socketVars, quicVars
  <2>4. run' \in [Conn -> Run] /\ runner' \in [Conn -> Thread]
    BY <2>1, <2>2, <1>i DEF TypeOK, Run, Thread, Pool
  <2>5. TypeOK'
    BY <2>1, <2>4, <1>2, <1>i DEF TypeOK, taskVars, clientVars, socketVars, quicVars
  <2>6. TcpAt(c)' /\ OwnedAt(c)'
    BY <2>1, <1>i, <1>c DEF TypeOK, TcpAt, OwnedAt, InSession, taskVars, socketVars
  <2>7. \A q \in Pool : On(q, c)' => On(q, c) \/ (q = "hs" /\ Placement("hs") = "spawn")
    BY <2>1, <2>2, <1>i DEF TypeOK, On, Pool, taskVars
  <2>8. ThreadsApart'
    BY <2>1, <2>3, <2>7, <1>i, ThreadsPlaced DEF Pool
  <2>9. handshakes' = handshakes
    BY <2>1 DEF quicVars
  <2> QED BY <2>3, <2>5, <2>6, <2>8, <2>9, <1>s
<1>4. CASE HandOff(c) \/ EnterProxy(c)
  <2>1. PICK s \in {"handed", "proxy"}, t \in Task :
          /\ run' = [run EXCEPT ![c] = s] /\ task' = [task EXCEPT ![c] = t]
          /\ (s = "handed" /\ t \in {"queued", "session"}) \/ (s = "proxy" /\ t \in {"pumpQueued", "pump"})
    BY <1>4 DEF HandOff, EnterProxy, Submit, Task
  <2>2. /\ run[c] \in {"handshake", "camouflage"} /\ Execute("sess", c)
        /\ worker' = [worker EXCEPT ![c] = ThreadFor("sess", runner[c])]
        /\ Forget(c) /\ UNCHANGED <<runner, socketVars, quicVars>>
    BY <1>4 DEF HandOff, EnterProxy, Submit
  <2>3. ThreadFor("sess", runner[c]) \in {"sess", "none", runner[c]}
        /\ (ThreadFor("sess", runner[c]) = "sess" => Placement("sess") = "spawn" \/ runner[c] = "sess")
    BY DEF ThreadFor
  <2>4. Frame(c)
    BY <2>1, <2>2, <1>i DEF Frame, TypeOK, socketVars, quicVars
  <2>5. run' \in [Conn -> Run] /\ task' \in [Conn -> Task] /\ worker' \in [Conn -> Thread]
    BY <2>1, <2>2, <2>3, <1>i DEF TypeOK, Run, Thread, Pool
  <2>6. data' \in [Conn -> Data] /\ left' \in [Conn -> BOOLEAN]
    BY <2>2, <1>i DEF Forget, TypeOK, Data
  <2>7. TypeOK'
    BY <2>2, <2>5, <2>6, <1>2, <1>i DEF TypeOK, socketVars, quicVars
  <2>8. task[c] = "none" /\ open'[c] = TRUE /\ run'[c] \in {"handed", "proxy"}
    BY <2>1, <2>2, <1>i, <1>c DEF TcpAt, TypeOK, socketVars
  <2>9. TcpAt(c)'
    BY <2>1, <2>2, <1>i DEF TypeOK, TcpAt, InSession
  <2>10. OwnedAt(c)'
    BY <2>1, <2>2, <2>8, <1>i DEF TypeOK, OwnedAt, InSession
  <2>11. \A q \in Pool : On(q, c)' => On(q, c) \/ (q = "sess" /\ Placement("sess") = "spawn")
    BY <2>2, <2>3, <1>i DEF TypeOK, On, Pool
  <2>12. ThreadsApart'
    BY <2>2, <2>4, <2>11, <1>i, ThreadsPlaced DEF Pool
  <2>13. handshakes' = handshakes
    BY <2>2 DEF quicVars
  <2> QED BY <2>4, <2>7, <2>9, <2>10, <2>12, <2>13, <1>s
<1> QED BY <1>3, <1>4

-----------------------------------------------------------------------------
\* channelActive: the one step that takes a count, and the one that may place a
\* task on the event loop.
LEMMA ChannelActiveKeeps ==
  ASSUME IngressInv, NEW c \in Conn, ChannelActive(c)
  PROVE  IngressInv'
<1>i. TypeOK /\ StageAt(c) /\ OwnedAt(c) /\ ThreadsApart /\ HandshakesAccounted
  BY DEF IngressInv
<1>c. c \in Quic /\ QuicAt(c) /\ c \notin Tcp /\ run[c] = "idle" /\ task[c] = "none" /\ ~cancelled[c]
  BY <1>i, ConnAssumption DEF ChannelActive, StageAt, QuicAt
<1>h. handshakes \in Int /\ handshakes' = handshakes + 1
  BY <1>i DEF ChannelActive, TypeOK
<1>u. UNCHANGED <<clientVars, socketVars, cancelled>>
  BY DEF ChannelActive
<1>n. c \notin Admitted /\ c \notin TurnedAway
  BY <1>c DEF Admitted, TurnedAway
<1>1. CASE handshakes + 1 > MaxHandshakes
  <2>1. /\ run' = [run EXCEPT ![c] = "over"] /\ runner' = [runner EXCEPT ![c] = "loop"]
        /\ UNCHANGED <<taskVars, poolVars, timer>>
    BY <1>1 DEF ChannelActive
  <2>2. Frame(c) /\ TypeOK'
    BY <2>1, <1>h, <1>u, <1>i DEF Frame, TypeOK, Run, Thread, taskVars, clientVars, socketVars, poolVars
  <2>3. QuicAt(c)' /\ OwnedAt(c)'
    BY <2>1, <1>u, <1>c, <1>i DEF TypeOK, QuicAt, OwnedAt, InSession, taskVars, socketVars
  <2>4. StageAt(c)'
    BY <2>3, <1>c DEF StageAt
  <2>5. \A p \in Pool : On(p, c)' => On(p, c)
    BY <2>1, <1>i DEF TypeOK, On, Pool, taskVars
  <2>6. ThreadsApart'
    BY <2>1, <2>2, <2>5, <1>i, ThreadsLocal DEF poolVars
  <2>7. Admitted' = Admitted /\ TurnedAway' = TurnedAway \cup {c}
    BY <2>1, <1>u, <1>c, <1>i DEF Admitted, TurnedAway, TypeOK, Conn, taskVars
  <2>8. Cardinality(TurnedAway \cup {c}) = Cardinality(TurnedAway) + 1
    BY <1>n, AdmittedFinite, FS_AddElement
  <2>9. HandshakesAccounted'
    BY <2>7, <2>8, <1>h, <1>i, AdmittedFinite DEF HandshakesAccounted
  <2> QED BY <2>2, <2>3, <2>4, <2>6, <2>9, StageLocal DEF IngressInv
<1>2. CASE ~(handshakes + 1 > MaxHandshakes)
  <2>1. /\ run' = [run EXCEPT ![c] = "done"] /\ Submit(c, "queued", "accept", "loop")
        /\ ArmTimer(c) /\ runner' = runner
    BY <1>2 DEF ChannelActive
  <2>2. PICK t \in {"queued", "accept"} : task' = [task EXCEPT ![c] = t]
    BY <2>1 DEF Submit
  <2>3. worker' = [worker EXCEPT ![c] = ThreadFor("sess", "loop")] /\ Execute("sess", c)
    BY <2>1 DEF Submit
  <2>4. ThreadFor("sess", "loop") \in {"sess", "none", "loop"}
        /\ (ThreadFor("sess", "loop") = "sess" => Placement("sess") = "spawn")
    BY DEF ThreadFor
  <2>5. /\ workers' \in [Pool -> Nat] /\ \A q \in Pool : workers'[q] <= Max[q]
        /\ queue' \in [Pool -> Seq(Conn)] /\ \A q \in Pool : Len(queue'[q]) <= Cap[q]
    BY <2>3, <1>i, ExecuteKeeps DEF Pool
  <2>6. timer' \in [Quic -> {"off", "armed"}]
    BY <2>1, <1>i DEF ArmTimer, TypeOK
  <2>7. run' \in [Conn -> Run] /\ task' \in [Conn -> Task] /\ worker' \in [Conn -> Thread]
    BY <2>1, <2>2, <2>3, <2>4, <1>i DEF TypeOK, Run, Task, Thread, Pool
  <2>8. TypeOK'
    BY <2>1, <2>5, <2>6, <2>7, <1>h, <1>u, <1>i DEF TypeOK, clientVars, socketVars
  <2>9. Frame(c)
    BY <2>1, <2>2, <2>3, <1>u, <1>i DEF Frame, TypeOK, socketVars
  <2>10. QuicAt(c)' /\ OwnedAt(c)'
    BY <2>1, <2>2, <1>u, <1>c, <1>i DEF TypeOK, QuicAt, OwnedAt, InSession, socketVars
  <2>11. StageAt(c)'
    BY <2>10, <1>c DEF StageAt
  <2>12. \A q \in Pool : On(q, c)' => On(q, c) \/ (q = "sess" /\ Placement("sess") = "spawn")
    BY <2>1, <2>3, <2>4, <1>i DEF TypeOK, On, Pool
  <2>13. ThreadsApart'
    BY <2>3, <2>9, <2>12, <1>i, ThreadsPlaced DEF Pool
  <2>14. Admitted' = Admitted \cup {c} /\ TurnedAway' = TurnedAway
    BY <2>1, <2>2, <1>u, <1>c, <1>i DEF Admitted, TurnedAway, TypeOK, Conn
  <2>15. Cardinality(Admitted \cup {c}) = Cardinality(Admitted) + 1
    BY <1>n, AdmittedFinite, FS_AddElement
  <2>16. HandshakesAccounted'
    BY <2>14, <2>15, <1>2, <1>h, <1>i, AdmittedFinite, HandshakesAssumption DEF HandshakesAccounted
  <2> QED BY <2>8, <2>9, <2>10, <2>11, <2>13, <2>16, StageLocal DEF IngressInv
<1> QED BY <1>1, <1>2

\* The steps that give a count back.
LEMMA CountGivenBack ==
  ASSUME IngressInv, NEW c \in Quic, Frame(c), TypeOK', QuicAt(c)', OwnedAt(c)',
         workers' = workers, handshakes' = handshakes - 1, \A p \in Pool : On(p, c)' => On(p, c),
         \/ run[c] = "over" /\ run'[c] # "over" /\ ~Counts(c) /\ ~Counts(c)'
         \/ run[c] # "over" /\ run'[c] # "over" /\ Counts(c) /\ ~Counts(c)'
  PROVE  IngressInv'
<1>i. TypeOK /\ ThreadsApart /\ HandshakesAccounted /\ handshakes \in Int
  BY DEF IngressInv, TypeOK
<1>c. c \in Conn /\ c \notin Tcp
  BY ConnAssumption DEF Conn
<1>1. StageAt(c)'
  BY <1>c DEF StageAt
<1>2. ThreadsApart'
  BY <1>c, <1>i, ThreadsLocal
<1>3. \A d \in Quic \ {c} : (Counts(d)' <=> Counts(d)) /\ (run'[d] = "over" <=> run[d] = "over")
  BY ConnFinite DEF Frame, Counts
<1>4. CASE run[c] = "over" /\ run'[c] # "over" /\ ~Counts(c) /\ ~Counts(c)'
  <2>1. Admitted' = Admitted /\ TurnedAway' = TurnedAway \ {c} /\ c \in TurnedAway
    BY <1>3, <1>4 DEF Admitted, TurnedAway, Counts
  <2>2. Cardinality(TurnedAway \ {c}) = Cardinality(TurnedAway) - 1
    BY <2>1, AdmittedFinite, FS_RemoveElement
  <2> QED BY <2>1, <2>2, <1>1, <1>2, <1>c, <1>i, AdmittedFinite, StageLocal DEF HandshakesAccounted, IngressInv
<1>5. CASE run[c] # "over" /\ run'[c] # "over" /\ Counts(c) /\ ~Counts(c)'
  <2>1. Admitted' = Admitted \ {c} /\ TurnedAway' = TurnedAway /\ c \in Admitted
    BY <1>3, <1>5 DEF Admitted, TurnedAway, Counts
  <2>2. Cardinality(Admitted \ {c}) = Cardinality(Admitted) - 1
    BY <2>1, AdmittedFinite, FS_RemoveElement
  <2>3. HandshakesAccounted'
    BY <2>1, <2>2, <1>i, AdmittedFinite, HandshakesAssumption DEF HandshakesAccounted
  <2> QED BY <2>3, <1>1, <1>2, <1>c, <1>i, StageLocal DEF IngressInv
<1> QED BY <1>4, <1>5

LEMMA QuicSteps ==
  ASSUME IngressInv, NEW c \in Conn, QuicStep(c)
  PROVE  IngressInv'
<1>i. TypeOK /\ StageAt(c) /\ OwnedAt(c)
  BY DEF IngressInv
<1>c. c \in Quic /\ c \notin Tcp /\ QuicAt(c)
  BY <1>i, ConnAssumption DEF QuicStep, TurnAway, QuicAcceptOk, QuicAcceptFails, StageAt, TcpAt, Conn
<1>h. handshakes' = handshakes - 1 /\ handshakes - 1 \in Int
  BY <1>i DEF QuicStep, TurnAway, QuicAcceptOk, QuicAcceptFails, TypeOK
<1>1. CASE TurnAway(c)
  <2>1. Frame(c) /\ TypeOK'
    BY <1>1, <1>h, <1>i DEF TurnAway, Frame, TypeOK, Run, Thread, taskVars, clientVars, poolVars
  <2>2. QuicAt(c)' /\ OwnedAt(c)'
    BY <1>1, <1>i, <1>c DEF TurnAway, TypeOK, QuicAt, OwnedAt, InSession, taskVars
  <2>3. workers' = workers /\ \A p \in Pool : On(p, c)' => On(p, c)
    BY <1>1, <1>i DEF TurnAway, On, Pool, TypeOK, taskVars, poolVars
  <2>4. run[c] = "over" /\ run'[c] # "over" /\ ~Counts(c) /\ ~Counts(c)'
    BY <1>1, <1>i, <1>c DEF TurnAway, Counts, QuicAt, TypeOK, taskVars
  <2> QED BY <2>1, <2>2, <2>3, <2>4, <1>h, <1>c, CountGivenBack
<1>2. CASE QuicAcceptOk(c)
  <2>1. Frame(c) /\ TypeOK'
    BY <1>2, <1>h, <1>i DEF QuicAcceptOk, Forget, Frame, TypeOK, Task, Data, runVars, socketVars, poolVars
  <2>2. QuicAt(c)' /\ OwnedAt(c)'
    BY <1>2, <1>i, <1>c DEF QuicAcceptOk, TypeOK, QuicAt, OwnedAt, InSession, runVars, socketVars
  <2>3. workers' = workers /\ \A p \in Pool : On(p, c)' => On(p, c)
    BY <1>2 DEF QuicAcceptOk, On, runVars, poolVars
  <2>4. run[c] # "over" /\ run'[c] # "over" /\ Counts(c) /\ ~Counts(c)'
    BY <1>2, <1>i, <1>c DEF QuicAcceptOk, Counts, QuicAt, TypeOK, runVars
  <2> QED BY <2>1, <2>2, <2>3, <2>4, <1>h, <1>c, CountGivenBack
<1>3. CASE QuicAcceptFails(c)
  <2>1. Frame(c) /\ TypeOK'
    BY <1>3, <1>h, <1>i DEF QuicAcceptFails, TaskEnds, Forget, Frame, TypeOK, Task, Thread, Data, runVars, poolVars
  <2>2. QuicAt(c)' /\ OwnedAt(c)'
    BY <1>3, <1>i, <1>c DEF QuicAcceptFails, TaskEnds, TypeOK, QuicAt, OwnedAt, InSession, runVars
  <2>3. workers' = workers /\ \A p \in Pool : On(p, c)' => On(p, c)
    BY <1>3, <1>i DEF QuicAcceptFails, TaskEnds, On, Pool, TypeOK, runVars, poolVars
  <2>4. run[c] # "over" /\ run'[c] # "over" /\ Counts(c) /\ ~Counts(c)'
    BY <1>3, <1>i, <1>c DEF QuicAcceptFails, TaskEnds, Counts, QuicAt, TypeOK, runVars
  <2> QED BY <2>1, <2>2, <2>3, <2>4, <1>h, <1>c, CountGivenBack
<1> QED BY <1>1, <1>2, <1>3 DEF QuicStep

-----------------------------------------------------------------------------
\* The ends of a session or a bridge, of either kind of connection, and the timer.
LEMMA SessionSteps ==
  ASSUME IngressInv, NEW c \in Conn, SessionStep(c) \/ TimerFires(c)
  PROVE  IngressInv'
<1>i. TypeOK /\ StageAt(c) /\ OwnedAt(c)
  BY DEF IngressInv
<1>c. (c \in Quic <=> c \notin Tcp) /\ (c \in Tcp => TcpAt(c)) /\ (c \in Quic => QuicAt(c))
  BY <1>i, ConnAssumption DEF StageAt, Conn
<1>1. CASE SessionEnds(c)
  <2>1. Frame(c) /\ TypeOK'
    BY <1>1, <1>i DEF SessionEnds, TaskEnds, Frame, TypeOK, Task, Thread, runVars, clientVars, poolVars
  <2>2. StageAt(c)' /\ OwnedAt(c)'
    BY <1>1, <1>i, <1>c DEF SessionEnds, TaskEnds, TypeOK, StageAt, TcpAt, QuicAt, OwnedAt, InSession, runVars
  <2>3. workers' = workers /\ handshakes' = handshakes /\ \A p \in Pool : On(p, c)' => On(p, c)
    BY <1>1, <1>i DEF SessionEnds, TaskEnds, On, Pool, TypeOK, runVars, poolVars
  <2>4. c \in Quic => (Counts(c)' <=> Counts(c)) /\ (run'[c] = "over" <=> run[c] = "over")
    BY <1>1, <1>i, <1>c DEF SessionEnds, TaskEnds, Counts, QuicAt, TypeOK, runVars
  <2> QED BY <2>1, <2>2, <2>3, <2>4, LocalStep
<1>2. CASE RefusedLeftOpen(c)
  <2>1. Frame(c) /\ TypeOK'
    BY <1>2, <1>i DEF RefusedLeftOpen, TaskEnds, Frame, TypeOK, Task, Thread, runVars, clientVars, poolVars
  <2>2. StageAt(c)' /\ OwnedAt(c)'
    BY <1>2, <1>i, <1>c DEF RefusedLeftOpen, TaskEnds, TypeOK, StageAt, TcpAt, QuicAt, OwnedAt, InSession, runVars
  <2>3. workers' = workers /\ handshakes' = handshakes /\ \A p \in Pool : On(p, c)' => On(p, c)
    BY <1>2, <1>i DEF RefusedLeftOpen, TaskEnds, On, Pool, TypeOK, runVars, poolVars
  <2>4. c \in Quic => (Counts(c)' <=> Counts(c)) /\ (run'[c] = "over" <=> run[c] = "over")
    BY <1>2, <1>i, <1>c DEF RefusedLeftOpen, TaskEnds, Counts, QuicAt, TypeOK, runVars
  <2> QED BY <2>1, <2>2, <2>3, <2>4, LocalStep
<1>3. CASE Bridge(c)
  <2>1. Frame(c) /\ TypeOK'
    BY <1>3, <1>i DEF Bridge, Frame, TypeOK, Task, Thread, runVars, clientVars, poolVars
  <2>2. StageAt(c)' /\ OwnedAt(c)'
    BY <1>3, <1>i, <1>c DEF Bridge, TypeOK, StageAt, TcpAt, QuicAt, OwnedAt, InSession, runVars
  <2>3. workers' = workers /\ handshakes' = handshakes /\ \A p \in Pool : On(p, c)' => On(p, c)
    BY <1>3, <1>i DEF Bridge, On, Pool, TypeOK, runVars, poolVars
  <2>4. c \in Quic => (Counts(c)' <=> Counts(c)) /\ (run'[c] = "over" <=> run[c] = "over")
    BY <1>3, <1>i, <1>c DEF Bridge, Counts, QuicAt, TypeOK, runVars
  <2> QED BY <2>1, <2>2, <2>3, <2>4, LocalStep
<1>4. CASE BridgeEnds(c)
  <2>1. Frame(c) /\ TypeOK'
    BY <1>4, <1>i DEF BridgeEnds, Frame, TypeOK, Task, runVars, clientVars, poolVars, quicVars
  <2>2. StageAt(c)' /\ OwnedAt(c)'
    BY <1>4, <1>i, <1>c DEF BridgeEnds, TypeOK, StageAt, TcpAt, QuicAt, OwnedAt, InSession, runVars, quicVars
  <2>3. workers' = workers /\ handshakes' = handshakes /\ \A p \in Pool : On(p, c)' => On(p, c)
    BY <1>4 DEF BridgeEnds, On, runVars, poolVars, quicVars
  <2>4. c \in Quic => (Counts(c)' <=> Counts(c)) /\ (run'[c] = "over" <=> run[c] = "over")
    BY <1>4, <1>i, <1>c DEF BridgeEnds, Counts, QuicAt, TypeOK, runVars, quicVars
  <2> QED BY <2>1, <2>2, <2>3, <2>4, LocalStep
<1>5. CASE TimerFires(c) /\ task[c] = "queued"
  <2>0. TaskEnds(c) /\ Forget(c) /\ cancelled' = [cancelled EXCEPT ![c] = TRUE] /\ c \in Quic
    BY <1>5 DEF TimerFires
  <2>1. Frame(c) /\ TypeOK'
    BY <1>5, <2>0, <1>i DEF TimerFires, TaskEnds, Forget, Frame, TypeOK, Task, Thread, Data, runVars, poolVars
  <2>2. StageAt(c)' /\ OwnedAt(c)'
    BY <1>5, <2>0, <1>i, <1>c DEF TimerFires, TaskEnds, TypeOK, StageAt, TcpAt, QuicAt, OwnedAt, InSession, runVars
  <2>3. workers' = workers /\ handshakes' = handshakes /\ \A p \in Pool : On(p, c)' => On(p, c)
    BY <1>5, <2>0, <1>i DEF TimerFires, TaskEnds, On, Pool, TypeOK, runVars, poolVars
  <2>4. c \in Quic => (Counts(c)' <=> Counts(c)) /\ (run'[c] = "over" <=> run[c] = "over")
    BY <1>5, <2>0, <1>i DEF TimerFires, TaskEnds, Counts, TypeOK, runVars
  <2> QED BY <2>1, <2>2, <2>3, <2>4, LocalStep
<1>6. CASE TimerFires(c) /\ task[c] # "queued"
  <2>0. timer' = [timer EXCEPT ![c] = "off"] /\ UNCHANGED <<taskVars, clientVars, cancelled>> /\ c \in Quic
    BY <1>6 DEF TimerFires
  <2>1. Frame(c) /\ TypeOK'
    BY <1>6, <2>0, <1>i DEF TimerFires, Frame, TypeOK, taskVars, clientVars, runVars, poolVars
  <2>2. StageAt(c)' /\ OwnedAt(c)'
    BY <1>6, <2>0, <1>i, <1>c DEF TimerFires, TypeOK, StageAt, TcpAt, QuicAt, OwnedAt, InSession, taskVars, runVars
  <2>3. workers' = workers /\ handshakes' = handshakes /\ \A p \in Pool : On(p, c)' => On(p, c)
    BY <1>6, <2>0 DEF TimerFires, On, taskVars, runVars, poolVars
  <2>4. c \in Quic => (Counts(c)' <=> Counts(c)) /\ (run'[c] = "over" <=> run[c] = "over")
    BY <1>6, <2>0 DEF TimerFires, Counts, taskVars, runVars
  <2> QED BY <2>1, <2>2, <2>3, <2>4, LocalStep
<1> QED BY <1>1, <1>2, <1>3, <1>4, <1>5, <1>6 DEF SessionStep

-----------------------------------------------------------------------------
\* A pool takes a task off its queue, or lets a thread go.
LEMMA DequeueKeeps ==
  ASSUME IngressInv, NEW p \in Pool, Dequeue(p)
  PROVE  IngressInv'
<1>i. TypeOK /\ ThreadsApart /\ HandshakesAccounted
  BY DEF IngressInv
<1>t. queue \in [Pool -> Seq(Conn)] /\ queue[p] \in Seq(Conn) /\ queue[p] # <<>> /\ Busy(p) < workers[p]
  BY <1>i DEF TypeOK, Dequeue
<1>1. Head(queue[p]) \in Conn /\ Tail(queue[p]) \in Seq(Conn) /\ Len(Tail(queue[p])) = Len(queue[p]) - 1 /\ Len(queue[p]) \in Nat
  BY <1>t, HeadTailProperties
<1>c. PICK c \in Conn : c = Head(queue[p])
  BY <1>1
<1>2. queue' = [queue EXCEPT ![p] = Tail(@)] /\ UNCHANGED <<clientVars, socketVars, workers, quicVars>>
  BY DEF Dequeue
<1>3. queue' \in [Pool -> Seq(Conn)]
  BY <1>1, <1>2, <1>t
<1>4. \A q \in Pool : Len(queue'[q]) <= Cap[q]
  <2>1. Len(queue[p]) <= Cap[p] /\ Cap[p] \in Nat
    BY <1>i, PoolAssumption DEF TypeOK
  <2>2. Len(queue'[p]) <= Cap[p]
    BY <2>1, <1>1, <1>2, <1>t
  <2>3. \A q \in Pool : q # p => queue'[q] = queue[q]
    BY <1>2, <1>t
  <2> QED BY <2>2, <2>3, <1>i DEF TypeOK
<1>5. \/ /\ p = "hs" /\ run[c] = "hsQueued" /\ UNCHANGED taskVars
         /\ run' = [run EXCEPT ![c] = "handshake"] /\ runner' = [runner EXCEPT ![c] = "hs"]
      \/ /\ p = "sess" /\ task[c] \in {"queued", "pumpQueued"} /\ UNCHANGED runVars
         /\ task' = [task EXCEPT ![c] = StartsAs(c)] /\ worker' = [worker EXCEPT ![c] = "sess"]
      \/ UNCHANGED <<runVars, taskVars>>
  BY <1>c DEF Dequeue
<1>6. StageAt(c) /\ OwnedAt(c) /\ (c \in Quic <=> c \notin Tcp)
  BY <1>1, ConnAssumption DEF IngressInv, Conn
<1>7. StartsAs(c) \in {"session", "accept", "pump"}
      /\ (task[c] = "queued" => StartsAs(c) = IF c \in Tcp THEN "session" ELSE "accept")
      /\ (task[c] = "pumpQueued" => StartsAs(c) = "pump")
  BY DEF StartsAs
<1>8. Frame(c)
  BY <1>2, <1>5, <1>i DEF Frame, TypeOK, runVars, taskVars, socketVars, quicVars
<1>9. TypeOK'
  <2>1. run' \in [Conn -> Run] /\ runner' \in [Conn -> Thread] /\ task' \in [Conn -> Task] /\ worker' \in [Conn -> Thread]
    BY <1>5, <1>7, <1>i DEF TypeOK, Run, Task, Thread, Pool, runVars, taskVars
  <2> QED BY <2>1, <1>2, <1>3, <1>4, <1>i DEF TypeOK, clientVars, socketVars, quicVars
<1>10. StageAt(c)' /\ OwnedAt(c)'
  BY <1>1, <1>2, <1>5, <1>6, <1>7, <1>i DEF TypeOK, StageAt, TcpAt, QuicAt, OwnedAt, InSession, runVars, taskVars, socketVars, quicVars
<1>11. c \in Quic => (Counts(c)' <=> Counts(c)) /\ (run'[c] = "over" <=> run[c] = "over")
  BY <1>1, <1>2, <1>5, <1>6, <1>7, <1>i DEF TypeOK, Counts, StageAt, QuicAt, runVars, taskVars, quicVars
<1>12. HandshakesAccounted'
  BY <1>1, <1>2, <1>8, <1>11, <1>i, CountUnchanged DEF quicVars
<1>13. ThreadsApart'
  <2> SUFFICES ASSUME NEW q \in Pool PROVE Busy(q)' <= workers'[q]
    BY DEF ThreadsApart
  <2>1. Busy(q)' \in Nat /\ Busy(q)' <= Busy(q) + 1 /\ ((On(q, c)' => On(q, c)) => Busy(q)' <= Busy(q))
    BY <1>1, <1>8, BusyStep
  <2>2. Busy(q) \in Nat /\ workers[q] \in Nat /\ Busy(q) <= workers[q] /\ workers'[q] = workers[q]
    BY <1>2, <1>i, BusyNat DEF ThreadsApart, TypeOK
  <2>3. CASE q = p
    BY <2>1, <2>2, <2>3, <1>t
  <2>4. CASE q # p
    <3>1. On(q, c)' => On(q, c)
      BY <2>4, <1>1, <1>5, <1>i DEF On, TypeOK, runVars, taskVars
    <3> QED BY <3>1, <2>1, <2>2
  <2> QED BY <2>3, <2>4
<1>14. \A d \in Conn : StageAt(d)' /\ OwnedAt(d)'
  BY <1>1, <1>8, <1>10, StageLocal
<1> QED BY <1>9, <1>12, <1>13, <1>14 DEF IngressInv

LEMMA KeepAliveKeeps ==
  ASSUME IngressInv, NEW p \in Pool, KeepAliveEnds(p)
  PROVE  IngressInv'
<1>i. TypeOK /\ ThreadsApart /\ HandshakesAccounted
  BY DEF IngressInv
<1>t. \A q \in Pool : Busy(q) \in Nat /\ workers[q] \in Nat /\ Busy(q) <= workers[q] /\ workers[q] <= Max[q] /\ Max[q] \in Nat
  BY <1>i, BusyNat, PoolAssumption DEF TypeOK, ThreadsApart
<1>1. /\ workers' = [workers EXCEPT ![p] = @ - 1] /\ Busy(p) < workers[p]
      /\ UNCHANGED <<runVars, taskVars, clientVars, socketVars, queue, quicVars>>
  BY DEF KeepAliveEnds
<1>2. workers'[p] = workers[p] - 1 /\ \A q \in Pool : q # p => workers'[q] = workers[q]
  BY <1>1, <1>i DEF TypeOK
<1>3. workers[p] - 1 \in Nat /\ Busy(p) <= workers[p] - 1 /\ workers[p] - 1 <= Max[p]
  BY <1>1, <1>t
<1>4. workers' \in [Pool -> Nat]
  BY <1>1, <1>3, <1>i DEF TypeOK
<1>5. \A q \in Pool : workers'[q] <= Max[q] /\ Busy(q) <= workers'[q]
  BY <1>2, <1>3, <1>t
<1>6. TypeOK'
  BY <1>1, <1>4, <1>5, <1>i DEF TypeOK, runVars, taskVars, clientVars, socketVars, quicVars
<1>7. \A q \in Pool : Busy(q)' = Busy(q)
  BY <1>1 DEF Busy, runVars, taskVars
<1>8. ThreadsApart'
  BY <1>5, <1>7 DEF ThreadsApart
<1>9. HandshakesAccounted'
  BY <1>1, <1>i DEF HandshakesAccounted, Admitted, TurnedAway, runVars, taskVars, quicVars
<1>10. \A d \in Conn : StageAt(d)' /\ OwnedAt(d)'
  BY <1>1 DEF IngressInv, StageAt, OwnedAt, TcpAt, QuicAt, InSession, runVars, taskVars, socketVars, quicVars
<1> QED BY <1>6, <1>8, <1>9, <1>10 DEF IngressInv

-----------------------------------------------------------------------------
LEMMA InitHolds == Init => IngressInv
<1> SUFFICES ASSUME Init PROVE IngressInv
  OBVIOUS
<1>1. TypeOK
  <2>1. /\ run \in [Conn -> Run] /\ task \in [Conn -> Task] /\ handshakes \in Int
        /\ runner \in [Conn -> Thread] /\ worker \in [Conn -> Thread] /\ data \in [Conn -> Data]
    BY DEF Init, Run, Task, Thread, Data
  <2>2. /\ left \in [Conn -> BOOLEAN] /\ open \in [Conn -> BOOLEAN] /\ cancelled \in [Quic -> BOOLEAN]
        /\ timer \in [Quic -> {"off", "armed"}] /\ forgotten \subseteq Conn
    BY DEF Init
  <2>3. \A p \in Pool : workers[p] = 0 /\ queue[p] = <<>>
    BY DEF Init
  <2>4. \A p \in Pool : 0 <= Max[p] /\ 0 <= Cap[p]
    BY PoolAssumption
  <2>5. workers \in [Pool -> Nat] /\ queue \in [Pool -> Seq(Conn)]
    BY DEF Init
  <2>6. Len(<<>>) = 0
    OBVIOUS
  <2>7. \A p \in Pool : workers[p] <= Max[p] /\ Len(queue[p]) <= Cap[p]
    BY <2>3, <2>4, <2>6
  <2> QED BY <2>1, <2>2, <2>5, <2>7 DEF TypeOK
<1>2. \A c \in Conn : StageAt(c) /\ OwnedAt(c)
  BY DEF Init, StageAt, OwnedAt, TcpAt, QuicAt, InSession
<1>3. ThreadsApart
  <2> SUFFICES ASSUME NEW p \in Pool PROVE Busy(p) <= workers[p]
    BY DEF ThreadsApart
  <2>1. {c \in Conn : runner[c] = p \/ worker[c] = p} = {}
    BY DEF Init, Pool
  <2>2. Busy(p) = 0 /\ workers[p] = 0
    BY <2>1, FS_EmptySet DEF Busy, Init
  <2> QED BY <2>2
<1>4. HandshakesAccounted
  <2>1. Admitted = {} /\ TurnedAway = {}
    BY DEF Init, Admitted, TurnedAway, Conn
  <2> QED BY <2>1, FS_EmptySet, HandshakesAssumption DEF HandshakesAccounted, Init
<1> QED BY <1>1, <1>2, <1>3, <1>4 DEF IngressInv

LEMMA StepKeeps == IngressInv /\ [Next]_vars => IngressInv'
<1> SUFFICES ASSUME IngressInv, [Next]_vars PROVE IngressInv'
  OBVIOUS
<1>1. CASE UNCHANGED vars
  BY <1>1 DEF vars, runVars, taskVars, clientVars, socketVars, poolVars, quicVars, IngressInv, TypeOK,
     HandshakesAccounted, Admitted, TurnedAway, ThreadsApart, Busy, StageAt, OwnedAt, TcpAt, QuicAt, InSession
<1>2. ASSUME NEW c \in Conn,
             \/ ClientSends(c) \/ ClientLeaves(c) \/ Accept(c) \/ AcceptFails(c)
             \/ HandshakeStep(c) \/ CamouflageStep(c) \/ ProxyStep(c) \/ RunReturns(c)
             \/ ChannelActive(c) \/ QuicStep(c) \/ SessionStep(c) \/ TimerFires(c)
      PROVE  IngressInv'
  BY <1>2, ClientSteps, RunSteps, TcpSubmits, ChannelActiveKeeps, QuicSteps, SessionSteps
     DEF HandshakeStep, CamouflageStep, ProxyStep
<1>3. ASSUME NEW p \in Pool, Dequeue(p) \/ KeepAliveEnds(p) PROVE IngressInv'
  BY <1>3, DequeueKeeps, KeepAliveKeeps
<1> QED BY <1>1, <1>2, <1>3 DEF Next

\* The invariant of the server's ingress, for every number of connections and
\* every size of the pools.
THEOREM IngressInvariant == Spec => []IngressInv
BY InitHolds, StepKeeps, PTL DEF Spec

\* The counter QuicServer.handshakes is, at every moment, the number of streams
\* that hold a count, and the streams admitted never exceed quicMaxHandshakes,
\* although channelActive increments before it compares.
THEOREM CounterExact == Spec => []HandshakesAccounted
<1>1. IngressInv => HandshakesAccounted
  BY DEF IngressInv
<1> QED BY <1>1, IngressInvariant, PTL

\* Whoever has a socket closes it, and nobody else does: not the finally block
\* of ConnectionHandler.run under a session it was handed to, whether that one
\* waits in the stream pool's queue, runs on a thread of it or on this very
\* thread, or has left a bridge behind; and what nobody has any more is closed,
\* but for the two drops recorded in `forgotten`.
THEOREM OwnershipPasses == Spec => []SocketsOwned
<1>1. ASSUME IngressInv PROVE SocketsOwned
  <2>1. \A c \in Conn : OwnedAt(c)
    BY <1>1 DEF IngressInv
  <2> QED BY <2>1 DEF SocketsOwned, OwnedAt, Conn
<1> QED BY <1>1, IngressInvariant, PTL

\* The thread pools within their limits: threads, queue, and one task a thread,
\* CallerRunsPolicy and keep-alive included.
PoolsWithinLimits ==
  \A p \in Pool : Busy(p) <= workers[p] /\ workers[p] <= Max[p] /\ Len(queue[p]) <= Cap[p]

\* A pool never has more tasks on its threads than threads, nor more threads or
\* queued tasks than it was given (Main, ThreadPoolExecutor).
THEOREM PoolsBounded == Spec => []PoolsWithinLimits
<1>1. IngressInv => PoolsWithinLimits
  BY DEF IngressInv, TypeOK, ThreadsApart, PoolsWithinLimits
<1> QED BY <1>1, IngressInvariant, PTL
=============================================================================
