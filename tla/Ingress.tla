------------------------------ MODULE Ingress ------------------------------
(***************************************************************************)
(* How a connection gets a thread of the server, who owns its socket, and  *)
(* who closes it:                                                          *)
(*                                                                         *)
(*   TCP   Main.acceptLoop -> handshakePool -> ConnectionHandler.run       *)
(*         -> streamPool -> ConnectionHandler.runSession, or the copy      *)
(*         loops of the camouflage proxy (proxyRaw)                        *)
(*   QUIC  QuicStreamInboundHandler.channelActive, on the stream's event   *)
(*         loop -> streamPool, guarded by the `handshakes` counter and by  *)
(*         a timer                                                         *)
(*                                                                         *)
(* So a connection has up to two threads at a time: the one in run() (or   *)
(* in channelActive), which closes the socket in its finally block unless  *)
(* it has handed it off, and the one of the task it submitted.  Both pools *)
(* are ThreadPoolExecutors with a bounded queue and CallerRunsPolicy: when *)
(* a pool is saturated the submitting thread, be it the acceptor, a        *)
(* handshake thread or an event loop, runs the task.                       *)
(*                                                                         *)
(* What the sessions do is left to the other modules: here a session runs  *)
(* until it ends.  What a client has said is nothing yet; a hello; junk;   *)
(* or, over TCP, half of an HTTP request, or a mask (a whole HTTP request  *)
(* or a TLS opening).                                                      *)
(***************************************************************************)
EXTENDS Integers, Sequences, FiniteSets

CONSTANTS
  Tcp, Quic,        \* TCP connections and QUIC streams that may arrive
  Loop, LoopOf,     \* event loops; LoopOf[c] serves stream c
  Core, Max, Cap,   \* per pool: core threads, most threads, queue capacity
  MaxHandshakes     \* quicMaxHandshakes (> 0)

Conn == Tcp \union Quic
Pool == {"hs", "sess"}

ASSUME ConnAssumption == IsFiniteSet(Tcp) /\ IsFiniteSet(Quic) /\ Tcp \intersect Quic = {}
ASSUME LoopAssumption == LoopOf \in [Quic -> Loop]
ASSUME PoolAssumption ==
  /\ Core \in [Pool -> Nat \ {0}] /\ Max \in [Pool -> Nat \ {0}] /\ Cap \in [Pool -> Nat \ {0}]
  /\ \A p \in Pool : Core[p] <= Max[p]
ASSUME HandshakesAssumption == MaxHandshakes \in Nat \ {0}

VARIABLES
  run,         \* how far ConnectionHandler.run, or channelActive, has come
  task,        \* how far the task it gave to the stream pool has come
  runner,      \* the thread in run(), or in channelActive
  worker,      \* the thread of the task
  data,        \* what its client has sent
  left,        \* its client has closed or reset it
  open,        \* the server has not closed its socket or stream
  forgotten,   \* the code dropped it without closing it
  workers,     \* live threads of each pool
  queue,       \* queued tasks of each pool
  handshakes,  \* QuicServer.handshakes
  timer,       \* the stream's entry in handshakeTimers
  cancelled    \* its task's Future was cancelled before it ran

runVars == <<run, runner>>
taskVars == <<task, worker>>
clientVars == <<data, left>>
socketVars == <<open, forgotten>>
poolVars == <<workers, queue>>
quicVars == <<handshakes, timer, cancelled>>
vars == <<runVars, taskVars, clientVars, socketVars, poolVars, quicVars>>

Thread == {"none", "acceptor", "loop"} \union Pool
Run == {"idle", "hsQueued", "handshake", "camouflage", "proxy", "proxyWait",
        "final", "handed", "over", "done"}
Task == {"none", "queued", "accept", "session", "bridged", "pumpQueued", "pump", "ended"}
Data == {"none", "half", "hello", "mask", "junk"}

TypeOK ==
  /\ run \in [Conn -> Run] /\ task \in [Conn -> Task]
  /\ runner \in [Conn -> Thread] /\ worker \in [Conn -> Thread]
  /\ data \in [Conn -> Data]
  /\ left \in [Conn -> BOOLEAN] /\ open \in [Conn -> BOOLEAN]
  /\ forgotten \subseteq Conn
  /\ workers \in [Pool -> Nat] /\ \A p \in Pool : workers[p] <= Max[p]
  /\ queue \in [Pool -> Seq(Conn)] /\ \A p \in Pool : Len(queue[p]) <= Cap[p]
  /\ handshakes \in Int
  /\ timer \in [Quic -> {"off", "armed"}]
  /\ cancelled \in [Quic -> BOOLEAN]

Init ==
  /\ run = [c \in Conn |-> "idle"] /\ task = [c \in Conn |-> "none"]
  /\ runner = [c \in Conn |-> "none"] /\ worker = [c \in Conn |-> "none"]
  /\ data = [c \in Conn |-> "none"]
  /\ left = [c \in Conn |-> FALSE] /\ open = [c \in Conn |-> TRUE]
  /\ forgotten = {}
  /\ workers = [p \in Pool |-> 0] /\ queue = [p \in Pool |-> <<>>]
  /\ handshakes = 0
  /\ timer = [c \in Quic |-> "off"] /\ cancelled = [c \in Quic |-> FALSE]

-----------------------------------------------------------------------------
\* An event loop that runs a session itself feeds none of its streams.
LoopFree(c) ==
  \A d \in Quic : LoopOf[d] = LoopOf[c] => runner[d] # "loop" /\ worker[d] # "loop"

\* The client sends its opening at some time, and leaves at any time.  Both
\* matter only until the handshake has read them, so both wait for that; over
\* QUIC they are what the stream's event loop has delivered.
Reading(c) ==
  \/ run[c] \in {"handshake", "camouflage"}
  \/ c \in Quic /\ task[c] \in {"queued", "accept"} /\ LoopFree(c)

\* What may follow what it has sent.
Sends(c) ==
  CASE data[c] = "none" /\ c \in Tcp -> {"half", "hello", "mask", "junk"}
    [] data[c] = "none" /\ c \in Quic -> {"hello", "junk"}
    [] data[c] = "half" -> {"mask"}
    [] OTHER -> {}

ClientSends(c) ==
  /\ ~left[c] /\ Reading(c)
  /\ \E d \in Sends(c) : data' = [data EXCEPT ![c] = d]
  /\ UNCHANGED <<runVars, taskVars, left, socketVars, poolVars, quicVars>>

ClientLeaves(c) ==
  /\ ~left[c] /\ Reading(c)
  /\ left' = [left EXCEPT ![c] = TRUE]
  /\ UNCHANGED <<runVars, taskVars, data, socketVars, poolVars, quicVars>>

\* Past its handshake nothing asks any more what the client said.
Forget(c) ==
  /\ data' = [data EXCEPT ![c] = "none"]
  /\ left' = [left EXCEPT ![c] = FALSE]

-----------------------------------------------------------------------------
\* ThreadPoolExecutor.execute with CallerRunsPolicy: a core thread, else the
\* queue, else a thread up to the maximum, else the calling thread.
Placement(p) ==
  CASE workers[p] < Core[p] -> "spawn"
    [] workers[p] >= Core[p] /\ Len(queue[p]) < Cap[p] -> "queue"
    [] Len(queue[p]) >= Cap[p] /\ workers[p] >= Core[p] /\ workers[p] < Max[p] -> "spawn"
    [] OTHER -> "caller"

Execute(p, c) ==
  /\ workers' = [workers EXCEPT ![p] = IF Placement(p) = "spawn" THEN @ + 1 ELSE @]
  /\ queue' = [queue EXCEPT ![p] = IF Placement(p) = "queue" THEN Append(@, c) ELSE @]

ThreadFor(p, caller) ==
  CASE Placement(p) = "spawn" -> p [] Placement(p) = "queue" -> "none" [] OTHER -> caller

\* streamPool.submit by a thread: the session task, or a copy loop.
Submit(c, queuedAs, startsAs, caller) ==
  /\ Execute("sess", c)
  /\ task' = [task EXCEPT ![c] = IF Placement("sess") = "queue" THEN queuedAs ELSE startsAs]
  /\ worker' = [worker EXCEPT ![c] = ThreadFor("sess", caller)]

\* A thread of a pool that runs both of a connection's parts is one thread.
Busy(p) == Cardinality({c \in Conn : runner[c] = p \/ worker[c] = p})

StartsAs(c) ==
  IF task[c] = "pumpQueued" THEN "pump" ELSE IF c \in Tcp THEN "session" ELSE "accept"

\* An idle worker takes the next task.  The task of a cancelled Future does
\* nothing when it is run.
Dequeue(p) ==
  /\ queue[p] # <<>> /\ Busy(p) < workers[p]
  /\ queue' = [queue EXCEPT ![p] = Tail(@)]
  /\ LET c == Head(queue[p]) IN
       \/ /\ p = "hs" /\ run[c] = "hsQueued"
          /\ run' = [run EXCEPT ![c] = "handshake"]
          /\ runner' = [runner EXCEPT ![c] = "hs"]
          /\ UNCHANGED taskVars
       \/ /\ p = "sess" /\ task[c] \in {"queued", "pumpQueued"}
          /\ task' = [task EXCEPT ![c] = StartsAs(c)]
          /\ worker' = [worker EXCEPT ![c] = "sess"]
          /\ UNCHANGED runVars
       \/ /\ p = "sess" /\ task[c] = "ended"
          /\ UNCHANGED <<runVars, taskVars>>
  /\ UNCHANGED <<clientVars, socketVars, workers, quicVars>>

\* A thread above the core size ends after its keep-alive time.
KeepAliveEnds(p) ==
  /\ queue[p] = <<>> /\ workers[p] > Core[p] /\ Busy(p) < workers[p]
  /\ workers' = [workers EXCEPT ![p] = @ - 1]
  /\ UNCHANGED <<runVars, taskVars, clientVars, socketVars, queue, quicVars>>

-----------------------------------------------------------------------------
\* Main.acceptLoop: accept, then execute the ConnectionHandler.
AcceptorFree == \A d \in Conn : runner[d] # "acceptor"

Accept(c) ==
  /\ run[c] = "idle" /\ c \in Tcp /\ AcceptorFree
  /\ Execute("hs", c)
  /\ run' = [run EXCEPT ![c] = IF Placement("hs") = "queue" THEN "hsQueued" ELSE "handshake"]
  /\ runner' = [runner EXCEPT ![c] = ThreadFor("hs", "acceptor")]
  /\ UNCHANGED <<taskVars, clientVars, socketVars, quicVars>>

\* setOption throws on the accepted channel: acceptLoop logs "accept error" and
\* goes on, and nobody closes the channel.
AcceptFails(c) ==
  /\ run[c] = "idle" /\ c \in Tcp /\ AcceptorFree
  /\ run' = [run EXCEPT ![c] = "done"]
  /\ forgotten' = forgotten \union {c}
  /\ UNCHANGED <<runner, taskVars, clientVars, open, poolVars, quicVars>>

\* ConnectionHandler.run fails, or answers as an HTTP or TLS server would
\* (tryCamouflage), and is left with its finally block.
Said(c) == data[c] \in {"hello", "mask", "junk"} \/ left[c]

RunFails(c) ==
  /\ run' = [run EXCEPT ![c] = "final"]
  /\ Forget(c)
  /\ UNCHANGED <<runner, taskVars, socketVars, poolVars, quicVars>>

\* A mask, a bad hello or token, or the end of the input; an incomplete hello
\* meets the socket timeout to the same effect.
HandshakeFails(c) == run[c] = "handshake" /\ Said(c) /\ RunFails(c)

\* Mutant: the handler does not set handedOff.
HandOffKeepsOwnership(c) ==
  /\ run[c] = "handshake" /\ data[c] = "hello"
  /\ run' = [run EXCEPT ![c] = "final"]
  /\ Submit(c, "queued", "session", runner[c])
  /\ Forget(c)
  /\ UNCHANGED <<runner, socketVars, quicVars>>

\* The handshake succeeds: the handler sets handedOff and submits the session.
\* If the stream pool is saturated this very thread runs the session.
HandOff(c) ==
  /\ run[c] = "handshake" /\ data[c] = "hello"
  /\ run' = [run EXCEPT ![c] = "handed"]
  /\ Submit(c, "queued", "session", runner[c])
  /\ Forget(c)
  /\ UNCHANGED <<runner, socketVars, quicVars>>

\* After the timeout of a client that has sent nothing, and at once for one
\* that has begun an HTTP request, tryCamouflage sets SO_TIMEOUT to 0 and reads.
EnterCamouflage(c) ==
  /\ run[c] = "handshake" /\ ~Said(c)
  /\ run' = [run EXCEPT ![c] = "camouflage"]
  /\ UNCHANGED <<runner, taskVars, clientVars, socketVars, poolVars, quicVars>>

\* Mutant: the client's end of stream does not end the read.
CamouflageReadIgnoresEof(c) == run[c] = "camouflage" /\ Said(c) /\ ~left[c] /\ RunFails(c)

\* That read, or the reads of the request's lines by one of the HTTP endpoints,
\* returns when the client has said enough, or leaves.  With no endpoint
\* configured the first bytes of a request are enough.
CamouflageRead(c) ==
  run[c] = "camouflage" /\ (Said(c) \/ data[c] = "half") /\ RunFails(c)

\* proxyRaw, with camouflageTcpProxyHost set: the copy loop from the client is
\* submitted to the stream pool, the other one runs on this thread.  Neither
\* has a read timeout.
EnterProxy(c) ==
  /\ run[c] \in {"handshake", "camouflage"} /\ data[c] \in {"half", "mask"}
  /\ run' = [run EXCEPT ![c] = "proxy"]
  /\ Submit(c, "pumpQueued", "pump", runner[c])
  /\ Forget(c)
  /\ UNCHANGED <<runner, socketVars, quicVars>>

\* The client's end of stream, an error of either socket.
PumpEnds(c) ==
  /\ task[c] = "pump"
  /\ task' = [task EXCEPT ![c] = "ended"]
  /\ worker' = [worker EXCEPT ![c] = "none"]
  /\ UNCHANGED <<runVars, clientVars, socketVars, poolVars, quicVars>>

\* A task on the submitting thread itself, by CallerRunsPolicy: submit has not
\* returned yet.
Nested(c) == runner[c] # "none" /\ worker[c] = runner[c]

\* The upstream ends: up.get() waits for the other loop.
DownEnds(c) ==
  /\ run[c] = "proxy" /\ ~Nested(c)
  /\ run' = [run EXCEPT ![c] = "proxyWait"]
  /\ UNCHANGED <<runner, taskVars, clientVars, socketVars, poolVars, quicVars>>

\* proxyRaw's finally closes both sockets: after the other loop has ended, or
\* at once when this one fails.
ProxyReturns(c) ==
  /\ run' = [run EXCEPT ![c] = "final"]
  /\ open' = [open EXCEPT ![c] = FALSE]
  /\ UNCHANGED <<runner, taskVars, clientVars, forgotten, poolVars, quicVars>>

Joined(c) == run[c] = "proxyWait" /\ task[c] = "ended" /\ ProxyReturns(c)
DownFails(c) == run[c] = "proxy" /\ ~Nested(c) /\ ProxyReturns(c)

\* The finally block of run: the socket is closed unless it was handed off.
RunReturns(c) ==
  /\ run[c] \in {"final", "handed"} /\ ~Nested(c)
  /\ run' = [run EXCEPT ![c] = "done"]
  /\ runner' = [runner EXCEPT ![c] = "none"]
  /\ open' = [open EXCEPT ![c] = run[c] = "handed" /\ @]
  /\ UNCHANGED <<taskVars, clientVars, forgotten, poolVars, quicVars>>

-----------------------------------------------------------------------------
\* Mutant: no timer is armed for a task that had to queue.
ArmTimerWhenRunning(c) ==
  timer' = [timer EXCEPT ![c] = IF Placement("sess") = "spawn" THEN "armed" ELSE @]

\* handshakeTimers.schedule, after submit has returned: with CallerRunsPolicy
\* it does not return while this very event loop runs the session.
ArmTimer(c) ==
  timer' = [timer EXCEPT ![c] = IF Placement("sess") = "caller" THEN @ ELSE "armed"]

\* channelActive: count the handshake first, then compare.
ChannelActive(c) ==
  /\ run[c] = "idle" /\ c \in Quic /\ LoopFree(c)
  /\ handshakes' = handshakes + 1
  /\ IF handshakes + 1 > MaxHandshakes
       THEN /\ run' = [run EXCEPT ![c] = "over"]
            /\ runner' = [runner EXCEPT ![c] = "loop"]
            /\ UNCHANGED <<taskVars, poolVars, timer>>
       ELSE /\ run' = [run EXCEPT ![c] = "done"]
            /\ Submit(c, "queued", "accept", "loop")
            /\ ArmTimer(c)
            /\ UNCHANGED runner
  /\ UNCHANGED <<clientVars, socketVars, cancelled>>

\* Over the limit: the event loop takes the count back and closes the stream.
TurnAway(c) ==
  /\ run[c] = "over"
  /\ handshakes' = handshakes - 1
  /\ run' = [run EXCEPT ![c] = "done"]
  /\ runner' = [runner EXCEPT ![c] = "none"]
  /\ open' = [open EXCEPT ![c] = FALSE]
  /\ UNCHANGED <<taskVars, clientVars, forgotten, poolVars, timer, cancelled>>

\* The task is done.  A timer that finds it done does nothing, and is dropped.
TaskEnds(c) ==
  /\ task' = [task EXCEPT ![c] = "ended"]
  /\ worker' = [worker EXCEPT ![c] = "none"]
  /\ timer' = [d \in Quic |-> IF d = c THEN "off" ELSE timer[d]]

\* Dexote.accept reads what the event loop has delivered, or the end of the input,
\* which the event loop delivers too when the timer has closed the stream.
Delivered(c) == Said(c) \/ (~open[c] /\ LoopFree(c))

QuicAcceptOk(c) ==
  /\ task[c] = "accept" /\ data[c] = "hello"
  /\ handshakes' = handshakes - 1
  /\ task' = [task EXCEPT ![c] = "session"]
  /\ Forget(c)
  /\ UNCHANGED <<runVars, worker, socketVars, poolVars, timer, cancelled>>

\* Mutant: a failed handshake gives no count back.
QuicAcceptFailsKeepsCount(c) ==
  /\ task[c] = "accept" /\ Delivered(c)
  /\ TaskEnds(c) /\ Forget(c)
  /\ open' = [open EXCEPT ![c] = FALSE]
  /\ UNCHANGED <<runVars, forgotten, poolVars, handshakes, cancelled>>

\* Rejected, or the stream ended: the finally block gives the count back and
\* closes the stream.
QuicAcceptFails(c) ==
  /\ task[c] = "accept" /\ Delivered(c)
  /\ handshakes' = handshakes - 1
  /\ TaskEnds(c) /\ Forget(c)
  /\ open' = [open EXCEPT ![c] = FALSE]
  /\ UNCHANGED <<runVars, forgotten, poolVars, cancelled>>

-----------------------------------------------------------------------------
\* A session ends with its socket or stream closed: TCP, by the catch or the
\* finally block of runSession, by PeerRelayForward or by onDone; QUIC, by the
\* task's finally block or by onDone.
SessionEnds(c) ==
  /\ task[c] = "session"
  /\ TaskEnds(c)
  /\ open' = [open EXCEPT ![c] = FALSE]
  /\ UNCHANGED <<runVars, clientVars, forgotten, poolVars, handshakes, cancelled>>

\* SessionHandler.handle refuses a QUIC session of role UDP (managed client
\* rejected, resume token mismatch) before handleUdp: keepStreamOpen is set and
\* onDone is not reached, so the stream stays open.
RefusedLeftOpen(c) ==
  /\ task[c] = "session" /\ c \in Quic
  /\ TaskEnds(c)
  /\ forgotten' = forgotten \union {c}
  /\ UNCHANGED <<runVars, clientVars, open, poolVars, handshakes, cancelled>>

\* A TCP exit, or a cluster exit, returns once its two pumps are started.  The
\* task's finally block then closes a QUIC stream under its bridge.
Bridge(c) ==
  /\ task[c] = "session"
  /\ task' = [task EXCEPT ![c] = "bridged"]
  /\ worker' = [worker EXCEPT ![c] = "none"]
  /\ timer' = [d \in Quic |-> IF d = c THEN "off" ELSE timer[d]]
  /\ open' = [open EXCEPT ![c] = c \in Tcp /\ @]
  /\ UNCHANGED <<runVars, clientVars, forgotten, poolVars, handshakes, cancelled>>

\* The socket is closed when both pumps have ended.
BridgeEnds(c) ==
  /\ task[c] = "bridged"
  /\ task' = [task EXCEPT ![c] = "ended"]
  /\ open' = [open EXCEPT ![c] = FALSE]
  /\ UNCHANGED <<runVars, worker, clientVars, forgotten, poolVars, quicVars>>

\* The timer armed by channelActive: unless the task is done, close the stream
\* and cancel the Future, which keeps a queued task from ever running.
TimerFires(c) ==
  /\ c \in Quic /\ timer[c] = "armed"
  /\ open' = [open EXCEPT ![c] = FALSE]
  /\ IF task[c] = "queued"
       THEN TaskEnds(c) /\ Forget(c) /\ cancelled' = [cancelled EXCEPT ![c] = TRUE]
       ELSE timer' = [timer EXCEPT ![c] = "off"] /\ UNCHANGED <<taskVars, clientVars, cancelled>>
  /\ UNCHANGED <<runVars, forgotten, poolVars, handshakes>>

-----------------------------------------------------------------------------
HandshakeStep(c) == HandshakeFails(c) \/ HandOff(c) \/ EnterCamouflage(c)
CamouflageStep(c) == CamouflageRead(c) \/ EnterProxy(c)
ProxyStep(c) == PumpEnds(c) \/ DownEnds(c) \/ DownFails(c) \/ Joined(c)
QuicStep(c) == TurnAway(c) \/ QuicAcceptOk(c) \/ QuicAcceptFails(c)
SessionStep(c) == SessionEnds(c) \/ RefusedLeftOpen(c) \/ Bridge(c) \/ BridgeEnds(c)

Next ==
  \/ \E c \in Conn :
       \/ ClientSends(c) \/ ClientLeaves(c) \/ Accept(c) \/ AcceptFails(c)
       \/ HandshakeStep(c) \/ CamouflageStep(c) \/ ProxyStep(c) \/ RunReturns(c)
       \/ ChannelActive(c) \/ QuicStep(c) \/ SessionStep(c) \/ TimerFires(c)
  \/ \E p \in Pool : Dequeue(p) \/ KeepAliveEnds(p)

(***************************************************************************)
(* Threads make progress and timers fire; a read returns when its client   *)
(* has said enough or has left.  Nothing obliges a client to speak or to   *)
(* leave, a session, a copy loop of the proxy or a bridge to end.          *)
(***************************************************************************)
Fairness ==
  /\ \A p \in Pool : WF_vars(Dequeue(p))
  /\ \A c \in Conn :
       /\ WF_vars(HandshakeStep(c)) /\ WF_vars(Said(c) /\ CamouflageStep(c))
       /\ WF_vars(Joined(c)) /\ WF_vars(RunReturns(c))
       /\ WF_vars(QuicStep(c)) /\ WF_vars(TimerFires(c))

Spec == Init /\ [][Next]_vars /\ Fairness

-----------------------------------------------------------------------------
\* Streams that count against quicMaxHandshakes: admitted ones, and those
\* whose queued task was cancelled, since its finally block never runs.
Admitted == {c \in Quic : task[c] \in {"queued", "accept"} \/ cancelled[c]}
TurnedAway == {c \in Quic : run[c] = "over"}

\* The counter is given back exactly once per stream, on whichever of its exits
\* a stream takes, with one exception that is for good: a stream the timer
\* cancels while it is queued.  The limit holds in spite of the increment that
\* precedes the test.
HandshakesAccounted ==
  /\ handshakes = Cardinality(Admitted) + Cardinality(TurnedAway)
  /\ Cardinality(Admitted) <= MaxHandshakes

\* Ownership of the socket passes from the thread in ConnectionHandler.run to
\* the session task, which may run at the same time, later, or on the same
\* thread: the finally block of run never closes a socket under the session or
\* the bridge that has it, and a socket or stream that neither run nor a session
\* nor a bridge has any more is closed.  The two places of the code that drop an
\* open one, AcceptFails and RefusedLeftOpen, are recorded in `forgotten`.
InSession(c) == task[c] \in {"queued", "accept", "session", "bridged"}

SocketsOwned ==
  /\ \A c \in Tcp : InSession(c) => open[c]
  /\ \A c \in Conn : run[c] = "done" /\ ~InSession(c) /\ c \notin forgotten => ~open[c]

\* An event loop caught in a session that the saturated pool made it run.
LoopCaught(c) ==
  \E d \in Quic : LoopOf[d] = LoopOf[c] /\ worker[d] = "loop" /\ task[d] \in {"accept", "session"}

\* A stream that is queued or in its handshake gets out of it, whatever its
\* client does (the timer), unless its event loop is caught.
Settling(c) == task[c] \in {"queued", "accept"} \/ run[c] = "over"
StreamSettles == \A c \in Quic : Settling(c) ~> ~Settling(c) \/ LoopCaught(c)

\* A handshake thread that no step of its own will free: its client says
\* nothing (more), it serves the camouflage proxy until that one's two copy
\* loops end, or it runs a session the stream pool had no room for.
Held(c) ==
  \/ run[c] = "camouflage" /\ ~Said(c)
  \/ run[c] = "proxy"
  \/ run[c] = "proxyWait" /\ task[c] # "ended"
  \/ task[c] = "session" /\ Nested(c)

AllHeld == Cardinality({c \in Tcp : runner[c] = "hs" /\ Held(c)}) = workers["hs"]

\* A TCP connection waits in the handshake queue for good only if from some time
\* on every thread of the handshake pool is held.
HandshakeQueueMoves ==
  \A c \in Tcp : <>[](run[c] = "hsQueued") => <>[](workers["hs"] > 0 /\ AllHeld)

\* "handshake timeout from <client> after <n>ms": a TCP connection does not
\* stay in its handshake for good (ConnectionHandler.run).
HandshakeTimesOut ==
  \A c \in Tcp : run[c] = "handshake" ~> run[c] \notin {"handshake", "camouflage"}

\* "session pool saturated, rejecting <client>": a session runs on a thread of
\* the session pool or not at all (ConnectionHandler.run, QuicServer).
SaturatedPoolRejects ==
  \A c \in Conn : task[c] \in {"accept", "session"} => worker[c] = "sess"

\* quicHandshakeTimeoutMs bounds the handshake: its timer leaves a stream alone
\* whose handshake is over (QuicServer.channelActive).
TimerSparesSessions ==
  [][\A c \in Quic : task[c] = "session" /\ TimerFires(c) => open'[c] = open[c]]_vars
=============================================================================
