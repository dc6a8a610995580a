----------------------------- MODULE VpnSession -----------------------------
(***************************************************************************)
(* Client, internal/vpn: one call of Run.  It dials the UDP multiplexer    *)
(* (streams of one shared QUIC connection, or TCP connections), opens the  *)
(* device and the stack, watches the server, and takes everything down     *)
(* when its context ends.  Beside it run a read loop per channel, which    *)
(* reopens a broken stream, a goroutine per UDP flow, and the watchdog.    *)
(*                                                                         *)
(* The context is not given to the dials: a stop during them waits.  Close *)
(* takes no lock; the shared connection is read and cleared by different   *)
(* goroutines.                                                             *)
(***************************************************************************)
EXTENDS Integers, FiniteSets

CONSTANTS
    N,            \* channels of the multiplexer, 4 in the code
    Attempts,     \* tries to dial the QUIC multiplexer, 4 in the code
    Tries,        \* tries of a TCP channel: 3 rounds over the addresses
    MaxMisses,    \* watchdogMaxMisses, 3 in the code
    Flow,         \* UDP flows of the device
    Key,          \* association keys
    KeyOf(_),     \* a flow's key
    Mirror(_),    \* the key with the ports swapped
    None

Chan == 1 .. N

ASSUME SessionAssumption ==
    /\ {N, Attempts, Tries, MaxMisses} \subseteq Nat \ {0}
    /\ None \notin Flow
    /\ \A f \in Flow : KeyOf(f) \in Key
    /\ \A k \in Key : Mirror(k) \in Key /\ Mirror(Mirror(k)) = k

VARIABLES
    quic,       \* UsesQUICTransport
    phase,      \* where Run is
    at,         \* the channel Run is dialling or closing
    left,       \* tries left
    conn,       \* the QUIC connection: "none", "up", "dead"
    ptr,        \* m.quicConn # nil
    wire,       \* c.conn of each channel: "none", "open", "dead" (broken or closed)
    spare,      \* a reopened stream that is not yet in place
    stop,       \* channels whose stop is closed
    loop,       \* readLoop: "off", "read", "reopen", "swap"
    mu,         \* the flow that holds a channel's lock in Send, or None
    flow,       \* handleUDP: "idle", "half" (first key stored), "run", "send", "over", "over2"
    assoc,      \* key -> flow
    met,        \* ghost: flows that lived beside a flow with one of their keys
    dog,        \* watchdog: "off", "idle", "alive" (between its two reads), "ping"
    misses,
    cancelled,  \* ctx is done
    crashed     \* nil dereference: the process is gone

vars == <<quic, phase, at, left, conn, ptr, wire, spare, stop, loop, mu, flow, assoc, met,
          dog, misses, cancelled, crashed>>
mux == <<at, left, conn, ptr, wire, spare, stop, loop>>
flows == <<mu, flow, assoc, met>>
watch == <<dog, misses>>

Init ==
    /\ quic \in BOOLEAN
    /\ phase = "off" /\ at = 1 /\ left = 0
    /\ conn = "none" /\ ptr = FALSE
    /\ wire = [c \in Chan |-> "none"] /\ spare = [c \in Chan |-> FALSE]
    /\ stop = {} /\ loop = [c \in Chan |-> "off"]
    /\ mu = [c \in Chan |-> None]
    /\ flow = [f \in Flow |-> "idle"] /\ assoc = [k \in Key |-> None] /\ met = {}
    /\ dog = "off" /\ misses = 0
    /\ cancelled = FALSE /\ crashed = FALSE

----------------------------------------------------------------------------
\* A stream lives as long as its connection.
Broken(c) == wire[c] = "dead" \/ (quic /\ conn # "up")
Pick(k) == CHOOSE c \in Chan : TRUE   \* the hash of the key modulo N, one fixed channel

\* Run up to newUDPMux; only mistakes in the options come before.
Run ==
    /\ phase = "off"
    /\ phase' = IF quic THEN "conn" ELSE "chans"
    /\ left' = IF quic THEN Attempts ELSE Tries
    /\ UNCHANGED <<quic, at, conn, ptr, wire, spare, stop, loop, flows, watch, cancelled, crashed>>

\* dialQUICConn, inside an attempt of DialUDPMuxQUIC.
DialConn ==
    /\ phase = "conn"
    /\ \/ /\ conn' = "up" /\ phase' = "streams" /\ UNCHANGED left
       \/ /\ left > 1 /\ left' = left - 1 /\ UNCHANGED <<conn, phase>>
       \/ /\ left = 1 /\ left' = 0 /\ phase' = "failed" /\ UNCHANGED conn
    /\ at' = 1
    /\ UNCHANGED <<quic, ptr, wire, spare, stop, loop, flows, watch, cancelled, crashed>>

\* The deferred clean-up: every opened stream and the connection.
StreamFails ==
    /\ at' = 1 /\ left' = left - 1
    /\ phase' = IF left > 1 THEN "conn" ELSE "failed"
    /\ conn' = "none" /\ wire' = [c \in Chan |-> "none"]
    /\ UNCHANGED <<loop, ptr>>

\* A stream and its handshake; with the last one the multiplexer is there
\* and its loops start.
OpenStream ==
    /\ phase = "streams"
    /\ \/ /\ conn = "up" /\ at < N
          /\ wire' = [wire EXCEPT ![at] = "open"] /\ at' = at + 1
          /\ UNCHANGED <<phase, conn, ptr, loop, left>>
       \/ /\ conn = "up" /\ at = N
          /\ wire' = [wire EXCEPT ![at] = "open"] /\ at' = 1 /\ left' = 0
          /\ phase' = "device" /\ ptr' = TRUE
          /\ loop' = [c \in Chan |-> "read"]
          /\ UNCHANGED conn
       \/ StreamFails
    /\ UNCHANGED <<quic, spare, stop, flows, watch, cancelled, crashed>>

\* newUDPChan for one channel; when its tries are used up the multiplexer is closed.
DialChan ==
    /\ phase = "chans"
    /\ \/ /\ wire' = [wire EXCEPT ![at] = "open"] /\ loop' = [loop EXCEPT ![at] = "read"]
          /\ IF at < N THEN at' = at + 1 /\ left' = Tries /\ UNCHANGED phase
                       ELSE at' = 1 /\ left' = 0 /\ phase' = "device"
       \/ /\ left > 1 /\ left' = left - 1 /\ UNCHANGED <<wire, loop, at, phase>>
       \/ /\ left = 1 /\ left' = 0 /\ at' = 1 /\ phase' = "close" /\ UNCHANGED <<wire, loop>>
    /\ UNCHANGED <<quic, conn, ptr, spare, stop, flows, watch, cancelled, crashed>>

\* The device and the stack; a failure closes the multiplexer.
OpenDevice ==
    /\ phase \in {"device", "stack"}
    /\ \/ phase' = IF phase = "device" THEN "stack" ELSE "ready"
       \/ phase' = "close"
    /\ dog' = IF phase' = "ready" THEN "idle" ELSE dog
    /\ UNCHANGED <<quic, mux, flows, misses, cancelled, crashed>>

\* <-ctx.Done(), and then the deferred calls.
Cancel ==
    /\ ~cancelled /\ phase # "off"
    /\ cancelled' = TRUE
    /\ UNCHANGED <<quic, phase, mux, flows, watch, crashed>>

Leave ==
    /\ phase = "ready" /\ cancelled
    /\ phase' = "close"
    /\ UNCHANGED <<quic, mux, flows, watch, cancelled, crashed>>

\* Close of one channel: stop, then whatever c.conn is at that moment.
CloseChan ==
    /\ phase = "close"
    /\ stop' = IF wire[at] # "none" THEN stop \cup {at} ELSE stop
    /\ wire' = [wire EXCEPT ![at] = IF @ = "none" THEN @ ELSE "dead"]
    /\ IF at < N THEN at' = at + 1 /\ UNCHANGED phase ELSE at' = 1 /\ phase' = "quicClose"
    /\ UNCHANGED <<quic, left, conn, ptr, spare, loop, flows, watch, cancelled, crashed>>

\* Mutant: the shared connection is not shut.
KeepsShared == UNCHANGED conn

QuicShut == conn' = IF conn = "none" THEN conn ELSE "dead"

CloseQuic ==
    /\ phase = "quicClose"
    /\ QuicShut
    /\ phase' = "clear"
    /\ UNCHANGED <<quic, at, left, ptr, wire, spare, stop, loop, flows, watch, cancelled, crashed>>

ClearPtr ==
    /\ phase = "clear"
    /\ ptr' = FALSE /\ phase' = "assoc"
    /\ UNCHANGED <<quic, at, left, conn, wire, spare, stop, loop, flows, watch, cancelled, crashed>>

\* The associations go, then the stack and the device are closed.
ClearAssoc ==
    /\ phase = "assoc"
    /\ assoc' = [k \in Key |-> None]
    /\ phase' = "ended"
    /\ UNCHANGED <<quic, mux, mu, flow, met, watch, cancelled, crashed>>

----------------------------------------------------------------------------
\* The network: a connection or a stream breaks.
Break ==
    /\ \/ /\ quic /\ conn = "up" /\ conn' = "dead" /\ UNCHANGED wire
       \/ /\ \E c \in Chan : wire[c] = "open" /\ loop[c] # "off" /\ wire' = [wire EXCEPT ![c] = "dead"]
          /\ UNCHANGED conn
    /\ phase \notin {"failed", "ended"}
    /\ UNCHANGED <<quic, phase, at, left, ptr, spare, stop, loop, flows, watch, cancelled, crashed>>

\* readLoop meets an error: without the shared connection it ends, else it
\* goes on to reopen its stream.
ReadFails(c) ==
    /\ loop[c] = "read" /\ Broken(c)
    /\ loop' = [loop EXCEPT ![c] = IF quic /\ ptr /\ c \notin stop THEN "reopen" ELSE "off"]
    /\ UNCHANGED <<quic, phase, at, left, conn, ptr, wire, spare, stop, flows, watch, cancelled, crashed>>

\* The loop may be past its look at stop when Close comes.
ReadFailsLate(c) ==
    /\ loop[c] = "read" /\ Broken(c) /\ c \in stop /\ quic /\ ptr
    /\ loop' = [loop EXCEPT ![c] = "reopen"]
    /\ UNCHANGED <<quic, phase, at, left, conn, ptr, wire, spare, stop, flows, watch, cancelled, crashed>>

\* Mutant: a loop that cannot reopen its stream drops the shared connection.
ReopenClears(c) ==
    /\ loop[c] = "reopen"
    /\ \/ /\ ptr /\ conn = "up" /\ loop' = [loop EXCEPT ![c] = "swap"]
          /\ spare' = [spare EXCEPT ![c] = TRUE] /\ UNCHANGED ptr
       \/ loop' = [loop EXCEPT ![c] = "off"] /\ ptr' = FALSE /\ UNCHANGED spare
    /\ UNCHANGED <<quic, phase, at, left, conn, wire, stop, flows, watch, cancelled, crashed>>

\* ReopenUDPMuxSlot reads the connection again; a failure ends the loop.
Reopen(c) ==
    /\ loop[c] = "reopen"
    /\ \/ ptr /\ conn = "up" /\ loop' = [loop EXCEPT ![c] = "swap"] /\ spare' = [spare EXCEPT ![c] = TRUE]
       \/ loop' = [loop EXCEPT ![c] = "off"] /\ UNCHANGED spare
    /\ UNCHANGED <<quic, phase, at, left, conn, ptr, wire, stop, flows, watch, cancelled, crashed>>

\* The lock, the old stream closed, the new one in its place; then the top
\* of the loop looks at stop.
Swap(c) ==
    /\ loop[c] = "swap" /\ mu[c] = None
    /\ wire' = [wire EXCEPT ![c] = "open"]
    /\ spare' = [spare EXCEPT ![c] = FALSE]
    /\ loop' = [loop EXCEPT ![c] = IF c \in stop THEN "off" ELSE "read"]
    /\ UNCHANGED <<quic, phase, at, left, conn, ptr, stop, flows, watch, cancelled, crashed>>

----------------------------------------------------------------------------
Live(f) == flow[f] # "idle"
Keys(f) == {KeyOf(f), Mirror(KeyOf(f))}
Rivals(f) == {g \in Flow \ {f} : Live(g) /\ Keys(g) \cap Keys(f) # {}}

\* handleUDP registers its key and then the mirror of it.
Register(f) ==
    /\ flow[f] = "idle" /\ phase = "ready"
    /\ flow' = [flow EXCEPT ![f] = "half"]
    /\ assoc' = [assoc EXCEPT ![KeyOf(f)] = f]
    /\ met' = (met \ {f}) \cup Rivals(f) \cup (IF Rivals(f) # {} THEN {f} ELSE {})
    /\ UNCHANGED <<quic, phase, mux, mu, watch, cancelled, crashed>>

RegisterMirror(f) ==
    /\ flow[f] = "half"
    /\ flow' = [flow EXCEPT ![f] = "run"]
    /\ assoc' = [assoc EXCEPT ![Mirror(KeyOf(f))] = f]
    /\ UNCHANGED <<quic, phase, mux, mu, met, watch, cancelled, crashed>>

\* A packet of the flow: Send takes the channel's lock and may sit in it.
SendBegins(f) ==
    /\ flow[f] = "run" /\ mu[Pick(KeyOf(f))] = None
    /\ flow' = [flow EXCEPT ![f] = "send"]
    /\ mu' = [mu EXCEPT ![Pick(KeyOf(f))] = f]
    /\ UNCHANGED <<quic, phase, mux, assoc, met, watch, cancelled, crashed>>

SendEnds(f) ==
    /\ flow[f] = "send"
    /\ flow' = [flow EXCEPT ![f] = IF Broken(Pick(KeyOf(f))) THEN "over" ELSE "run"]
    /\ mu' = [mu EXCEPT ![Pick(KeyOf(f))] = None]
    /\ UNCHANGED <<quic, phase, mux, assoc, met, watch, cancelled, crashed>>

\* The device's side is done: idle timeout, or the stack is closed.
FlowEnds(f) ==
    /\ flow[f] = "run"
    /\ flow' = [flow EXCEPT ![f] = "over"]
    /\ UNCHANGED <<quic, phase, mux, mu, assoc, met, watch, cancelled, crashed>>

\* Mutant: the mirror key is forgotten.
ForgetsMirror(f) == UNCHANGED assoc

DropMirror(f) == assoc' = [assoc EXCEPT ![Mirror(KeyOf(f))] = None]

\* The deferred calls, last one first; both delete whoever is stored there.
UnregisterMirror(f) ==
    /\ flow[f] = "over"
    /\ flow' = [flow EXCEPT ![f] = "over2"]
    /\ DropMirror(f)
    /\ UNCHANGED <<quic, phase, mux, mu, met, watch, cancelled, crashed>>

Unregister(f) ==
    /\ flow[f] = "over2"
    /\ flow' = [flow EXCEPT ![f] = "idle"]
    /\ assoc' = [assoc EXCEPT ![KeyOf(f)] = None]
    /\ met' = met \ {f}
    /\ UNCHANGED <<quic, phase, mux, mu, watch, cancelled, crashed>>

----------------------------------------------------------------------------
\* A tick: quicAlive tests the pointer ...
Tick ==
    /\ dog = "idle" /\ phase \notin {"failed"}
    /\ dog' = IF ptr THEN "alive" ELSE "ping"
    /\ UNCHANGED <<quic, phase, mux, flows, misses, cancelled, crashed>>

\* ... and uses what is there now.
QuicAlive ==
    /\ dog = "alive"
    /\ \/ /\ ptr /\ conn = "up" /\ dog' = "idle" /\ misses' = 0 /\ UNCHANGED crashed
       \/ /\ ptr /\ conn # "up" /\ dog' = "ping" /\ UNCHANGED <<misses, crashed>>
       \/ /\ ~ptr /\ crashed' = TRUE /\ dog' = "off" /\ UNCHANGED misses
    /\ UNCHANGED <<quic, phase, mux, flows, cancelled>>

\* The pings of all servers; enough rounds without an answer call OnWatchdogFail.
Ping ==
    /\ dog = "ping"
    /\ \/ dog' = "idle" /\ misses' = 0 /\ UNCHANGED cancelled
       \/ /\ misses + 1 < MaxMisses
          /\ dog' = "idle" /\ misses' = misses + 1 /\ UNCHANGED cancelled
       \/ /\ misses + 1 = MaxMisses
          /\ dog' = "off" /\ misses' = 0 /\ cancelled' = TRUE
    /\ UNCHANGED <<quic, phase, mux, flows, crashed>>

DogLeaves ==
    /\ dog = "idle" /\ cancelled
    /\ dog' = "off" /\ misses' = 0
    /\ UNCHANGED <<quic, phase, mux, flows, cancelled, crashed>>

----------------------------------------------------------------------------
RunSteps == \/ DialConn \/ OpenStream \/ DialChan \/ OpenDevice \/ Leave
            \/ CloseChan \/ CloseQuic \/ ClearPtr \/ ClearAssoc
LoopSteps(c) == ReadFails(c) \/ Reopen(c) \/ Swap(c)
FlowSteps(f) == RegisterMirror(f) \/ UnregisterMirror(f) \/ Unregister(f)
DogSteps == QuicAlive \/ Ping

Next ==
    /\ ~crashed
    /\ \/ Run \/ RunSteps \/ Cancel \/ Break
       \/ \E c \in Chan : LoopSteps(c) \/ ReadFailsLate(c)
       \/ \E f \in Flow : Register(f) \/ FlowSteps(f) \/ SendBegins(f) \/ SendEnds(f) \/ FlowEnds(f)
       \/ Tick \/ DogSteps \/ DogLeaves

\* Run's dials and pings have timeouts; a read or a write of a broken channel
\* returns; the stack's end ends the reads of the flows; a select that finds
\* ctx.Done ready again and again takes it (Go picks at random).
Spec ==
    /\ Init /\ [][Next]_vars
    /\ WF_vars(~crashed /\ RunSteps)
    /\ \A c \in Chan : WF_vars(~crashed /\ LoopSteps(c))
    /\ \A f \in Flow : /\ WF_vars(~crashed /\ FlowSteps(f))
                       /\ WF_vars(~crashed /\ phase = "ended" /\ FlowEnds(f))
                       /\ SF_vars(~crashed /\ Broken(Pick(KeyOf(f))) /\ SendEnds(f))
    /\ WF_vars(~crashed /\ DogSteps)
    /\ SF_vars(~crashed /\ DogLeaves)

----------------------------------------------------------------------------
MuxTypeOK ==
    /\ phase \in {"off", "conn", "streams", "chans", "device", "stack", "ready", "close",
                  "quicClose", "clear", "assoc", "ended", "failed"}
    /\ at \in Chan /\ left \in 0 .. Attempts + Tries
    /\ conn \in {"none", "up", "dead"}
    /\ wire \in [Chan -> {"none", "open", "dead"}] /\ spare \in [Chan -> BOOLEAN]
    /\ stop \subseteq Chan /\ loop \in [Chan -> {"off", "read", "reopen", "swap"}]

FlowTypeOK ==
    /\ mu \in [Chan -> Flow \cup {None}]
    /\ flow \in [Flow -> {"idle", "half", "run", "send", "over", "over2"}]
    /\ assoc \in [Key -> Flow \cup {None}] /\ met \subseteq Flow

WatchTypeOK ==
    /\ dog \in {"off", "idle", "alive", "ping"} /\ misses \in 0 .. MaxMisses - 1

FlagTypeOK == quic \in BOOLEAN /\ ptr \in BOOLEAN /\ cancelled \in BOOLEAN /\ crashed \in BOOLEAN

TypeOK == MuxTypeOK /\ FlowTypeOK /\ WatchTypeOK /\ FlagTypeOK

\* A reply finds its flow (vpn.go:383-415, 632-641): an association belongs
\* to a flow that has that key or its mirror and has not ended, and a flow
\* that met no flow with one of its keys is found under both of them while it
\* runs.  Two flows that mirror each other do lose replies: each overwrites
\* and deletes the other's associations.
RepliesFindTheirFlow ==
    /\ \A k \in Key : assoc[k] # None => Live(assoc[k]) /\ k \in Keys(assoc[k])
    /\ phase # "ended" =>
          \A f \in Flow \ met : flow[f] \in {"run", "send"} => \A k \in Keys(f) : assoc[k] = f

\* The watchdog dereferences a nil connection only when Run is taking the
\* multiplexer down: the two reads of vpn.go:280 meet the store of vpn.go:375.
PanicOnlyWhileStopping == crashed => quic /\ phase \in {"assoc", "ended"}

Quiet ==
    /\ phase \in {"ended", "failed"} /\ conn # "up"
    /\ quic \/ \A c \in Chan : wire[c] # "open"
    /\ \A c \in Chan : loop[c] = "off"
    /\ \A f \in Flow : flow[f] = "idle"
    /\ dog = "off"

\* However it is stopped (by its caller or its own watchdog, in the middle of
\* its dials, of a reopened stream or of a Send that sits on the lock), a Run
\* that began ends with every connection shut and no goroutine left, unless
\* the watchdog's panic took the process down.
StopsClean == cancelled ~> (Quiet \/ crashed)
=============================================================================
