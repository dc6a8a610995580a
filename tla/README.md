# Volter: a verification project in TLA+

Volter is a VPN: a Go client (`internal/`, `cmd/volter-client`), a Java server
(`server/src/main/java/dev/c0redev/volter`) and an Android application. The
client takes TCP and UDP flows from a TUN device and carries them to a server
over TCP or QUIC, inside an encrypted stream ("Dexote"). Servers form a cluster
and relay for one another; clients find servers and peers through a DHT and
gossip.

This directory holds TLA+ models of the client (connections, UDP multiplexer,
path choice, DHT, presence, process life cycle, configuration, update), of the
server's concurrent core and of the Android service, the TLC configurations that
check them, and TLAPS proofs of the invariants that matter most.
`PROJECT.json` maps every definition to the lines it models and lists the runs,
the theorems and the hazards of the code.

## Inventory

### Server

| Part | State | Operations | What is hard |
|---|---|---|---|
| Ingress (`Main`, `ConnectionHandler`, `QuicServer`) | accept, handshake and session pools; `handshakes`; one timer per stream | accept, execute, hand-off, `channelActive`, `tryCamouflage`, timer | saturated pools run tasks on the caller, which may be an event loop; a timer races the session; every exit must close the socket and give its count back |
| QUIC stream input (`QuicStreamInboundHandler`, `QuicStreamIO`, `SpscChunkRing`) | `q`, `bytes`, `pending`, auto-read | `channelRead`, `flushPending`, `channelInactive`, `read` | event loop and session thread share the ring without a lock; back-pressure with hysteresis may lose a wake-up |
| Relay (`SessionHandler`, `RelayRegistry`, `PeerRelayForward`, the TCP exits) | `total`, `active` per remote; hop counters in the client's options | `tryAcquire`, `release`, `forward`, pumps | two counters taken in two steps; chains through several servers, torn down from either end |
| UDP sessions (`UdpSessions`) | session table, datagram channels, writers | `onFrame`, `evictIfNeeded`, `removeWriter`, selector loop, `closeSession` | handlers and selector close sessions they looked up earlier |
| Cluster (`SessionResumeRegistry`, `ClusterClientRegistry`, `ClusterRoutingRegistry`, `ClusterRuntime`) | session owners and tokens, client and route snapshots | accept, touch, gossip, expiry | check-then-act on shared maps, snapshots merged out of order |
| Control (`ControlStore`, `ControlAuth`, `ControlRuntime`) | clients, devices, nonces, sessions in SQLite | create, revoke, rotate, verify, start and end session | replay protection, device limits, sessions that never end |
| Handshake (`Dexote`, `AeadStream`, `MemReplayCache`, `Protocol`) | keys, nonce counters, replay cache | accept, read, write | replay window, option negotiation |
| DHT (`DhtRpcUdpServer`, `DhtFindHttp`) | records, rate limits | store, find | expiry, unreliable datagrams |
| Shaping, configuration, update, logging | timers, files | | I/O and timing |

### Client

| Part | State | Operations | What is hard |
|---|---|---|---|
| VPN core (`internal/vpn/vpn.go`, `watchdog.go`) | UDP channels, associations, the shared QUIC connection | `Run`, `handleUDP`, `readLoop`, `Send`, `Close`, watchdog ticks | flows, read loops, watchdog and shutdown interleave without locks; associations are removed by key |
| Tunnel (`internal/tunnel`) | statistics per destination, sticky TCP, dual selector | `Decide`, `Record`, `DialTunFlow`, `dialDualRace` | `Decide` releases its lock half-way; six stages of fall-backs, each recorded once; two dials race for one result |
| DHT and discovery (`internal/dht`, `internal/discovery`, `internal/vpn/*dht*`) | buckets and map of nodes, key-value store | insert, trim, probe, iterative search, gossip, bootstrap | loops of old and new sessions fill one table; eviction by two rules |
| Presence and messages (`presence_dht.go`, `control_store_forward.go`) | records at seeds, queue, list of what was seen | publish, punch rounds, fetch, flush, pull | stores are lost, late, overtaken and expire; three publishers write one key |
| Peers (`peer_udp_listener.go`, `peer_socket.go`, `internal/ice`) | peer slots, STUN results | listen, punch, relay | datagrams, bounded slots |
| Process (`cmd/volter-client`, `internal/ipc`) | attempts, stop handles, state file, bypass routes, IPC socket | connect, disconnect, watchdog, headless loop, tray commands | two user interfaces and a watchdog drive one life cycle; one mutex for send, receive and close |
| Terminal UI and configuration (`internal/tui`, `internal/config`) | profile files, cached list, forms, cloud list | keys, forms, load, save, migrate, merge | files, cache and forms disagree after failing writes; answers arrive for entries that moved |
| Update (`internal/update`) | partial file, new file, executable | check, download, verify, rename, exec | a kill between any two steps |
| Control loops (`route_controller.go`, `cluster_*.go`, `emergency_policy.go`) | directives, preferred server | polls and timers | stale directives |
| Platform networking, DPI engine, shaping | routes, packets, timers | | I/O and timing |

### Android

`VolterVpnService` handles commands on its main thread, starts a worker per
start, and keeps one core handle and one TUN descriptor; `android/core/bind.go`
keeps the sessions and three globals for all of them (socket hook, protector, log
writer). What is hard: commands, workers and ending sessions interleave, and a
generation number is looked at several times on the way.

The client speaks to the server only through streams; the server's parts meet in
`SessionHandler`, which runs on the thread that Ingress found for a connection,
reads through QuicIngress when the transport is QUIC, and branches into the
relay, UDP and TCP exit code.

## Modules

| Module | Models | Run |
|---|---|---|
| `QuicIngress`, `QuicIngressProofs` | one QUIC stream of the server between event loop and session thread | `quic_ingress` |
| `Ingress`, `IngressProofs` | connections and threads: both pools, hand-offs, QUIC admission, the timer | `ingress`, and three runs that show a disagreement |
| `RelaySession`, `RelaySessionProofs` | relay slots and chains of relays on a cluster | `relay_session` |
| `UdpSessions`, `UdpSessionsProofs` | the server's UDP session table | `udp_sessions` |
| `PathManager` | statistics per destination, cooldown, choice of server or peer | `path_manager` |
| `DhtTable` | the client's table of nodes and the loops that fill it | `path_manager` (part `table`) |
| `FlowService` | abstract: what a TCP flow is promised by `DialTunFlow` | implemented by `TunFlow` |
| `TunFlow`, `TunFlowProofs` | `handleTCP` and `DialTunFlow` over `PathManager` | `tun_flow` |
| `VpnSession` | one call of `vpn.Run`: UDP multiplexer, flows, watchdog, shutdown | `vpn_session` |
| `ClientApp`, `ClientAppProofs` | the Linux process: UI, attempts, headless loop, IPC, state file, routes | `client_app` (part `app`) |
| `Presence` | where a volunteer can be reached, told to seeds and asked from them | `client_app` (part `presence`) |
| `ControlPlane` | store-and-forward messages over key-value stores | `tui_forms` (part `control`) |
| `ConfigStore` | operators: what a profile holds, migration, merges, defaults | used by `TuiForms`, `CloudList` |
| `TuiForms` | keys and forms over the profile files | `tui_forms` (part `forms`) |
| `SelfUpdate` | download, checksum, renames, exec | `tui_forms` (part `update`) |
| `CloudList` | the cloud list refetched under running probes, the settings file | `tui_forms` (part `cloud`) |
| `AndroidService`, `AndroidServiceProofs` | the VPN service, its workers and the core's sessions | `tui_forms` (part `android`) |
| `ClientCoreProofs` | proofs about `VpnSession`, `TuiForms`, `SelfUpdate`, `CloudList`, `DhtTable` and `ControlPlane` | |

`TunFlow` extends `PathManager`: its actions take `Decide` and `Record` as they
are. Modules that share no state are checked in one run by an MC module with a
variable `part`: a behaviour moves the part chosen at its start and leaves the
others in their initial states, so each part is explored exactly as it would be
alone. `Presence`, `ControlPlane`, `DhtTable` and `AndroidService` run beside the
others in the program too, but touch nothing the others read.

`MC*.tla` and `MC*.cfg` give the constants their values. Operators whose comment
begins with "Mutant" are wrong on purpose: each replaces the definition after it
to show that a property notices.

### QuicIngress

`ChannelRead`, `FlushPending` and `ChannelInactive` start a handler on the event
loop; `OfferBytes`, `OfferEnqueue`, `OfferAccount` and `EndInput` are its unlocked
accesses to the ring; `Take`, `TakeAccount` and `Deliver` are the session's
`read()`. `PutEof` is the common-pool task that waits for a free slot. A chunk is
its position in what the peer sent, so `Conservation` and `CutOff` are about
order, loss and repetition at once.

Run: five chunks around the limits of a ring with two slots and 4 bytes: small
ones, an empty one, one at the limit and one beyond it. Every refusal (bytes,
slots), every pending chunk and a close in each state of the handler occur.

Fairness: the event loop finishes handlers and drains its tasks, the common pool
runs its task, the session thread reads. The peer need not send or close.

### Ingress

`Submit` is `ThreadPoolExecutor.execute` with `CallerRunsPolicy`: core thread,
queue, extra thread, caller. A TCP connection has up to two threads: `run` is what
`ConnectionHandler.run` does on the one, `task` what the submitted session, or a copy
loop of the camouflage proxy, does on the other; on a saturated pool both are the
same thread (`Nested`). `Accept` to `RunReturns` follow a TCP connection,
`ChannelActive` to `QuicAcceptFails` a QUIC stream, `TimerFires` is the handshake timer.
The `finally` block of `run` is a step of its own (`RunReturns`), so it races the
session it has handed the socket to. The body of a session is one stage that may end,
leave a bridge behind or be refused at any time.

Run: two TCP connections and two streams on one event loop; pools of one thread
(two at most for sessions) and queues of one, one QUIC handshake at a time: every
placement, a cancelled queued task, a caught event loop and a proxy on each kind of
thread are reachable.

Fairness: pool threads take tasks, timers fire, a read of ended input returns.
Sessions, bridges and the copy loops of the proxy are not obliged to end, nor clients
to speak. `StreamSettles` and `HandshakeQueueMoves` name the ways in which the code
really can be stuck: an event loop that runs a session for a saturated pool; handshake
threads held by clients that say nothing more, by sessions, or by `proxyRaw`, whose
two loops have no read timeout.

`SocketsOwned` is about the hand-over: `run` must not close a socket a session or a
bridge has, and a socket nobody has any more is closed. Two places of the code drop
an open one, recorded in `forgotten`: `acceptLoop` when `setOption` throws, and
`QuicServer` for a refused session of role UDP, for which it has set `keepStreamOpen`
although `onDone` is never reached. One more fact the model shows: the task of a QUIC
session that leaves a cluster-exit bridge behind closes the stream under it
(`QuicServer.java:395-414`), so such a bridge carries nothing.

The three violation runs show where the code and its own messages disagree:

- `ingress_silent_client`: "handshake timeout" does not end a connection whose
  client stays silent: `tryCamouflage` sets the socket timeout to 0 and reads
  again, so a handshake thread waits without a limit.
- `ingress_saturated_pool`: "session pool saturated, rejecting" never happens:
  with `CallerRunsPolicy` nothing is rejected, and the session runs on the
  handshake thread or the event loop.
- `ingress_handshake_timer`: the timer of `quicHandshakeTimeoutMs` watches the
  task, which includes the session, and closes streams whose handshake succeeded.

`HandshakesAccounted` records one more exception, for good: a stream cancelled
while its task is queued keeps its handshake count, since the task's `finally`
never runs.

Left out: when `proxyRaw` returns without having copied anything `run` may try it a
second time on a socket it has already closed, which fails at once.

### RelaySession

One session is one run of `SessionHandler.handle` in the relay role. A slot is
taken in two steps (`AcquireTotal`, `AcquireRemote`), rolled back in one, and
given back in two. `Forward` opens a session on the next node with both hop
counters raised. A session that forwards or exits has two pumps, which end each by
itself; an exit keeps its target until one of the two hangs up. `Reject` stands for
every check, which may fail for reasons outside the model (budget, identity).

The client's counters are taken as they come (`Asks`): `relayHop` 0, or no options at
all, passes the checks like any other number, and a chain counted from 0 holds a
slot more than `RELAY_HOP_HARD_LIMIT`. `ChainBounded` says exactly how many: one for each
hop from the client's number to the limit. A `hopIndex` of 0 makes the first server
and the second use the same entry of the route. The clamps of the parser (8 and 16)
lie above what a chain can reach.

What a slot counts against is the text of the remote address. Over TCP that includes
the port, so `relay.maxPerRemote` never limits a TCP client; over QUIC it is the number
of the stream, which the streams of different clients share (`Remote`).

Run: two nodes; clients ask for an exit on the first node or for a route `a, b, a` that
is longer than the hop limit of 1, counted from 0 or from 1, and for 2 hops; three
sessions of at most two clients (`MaxClients`) for two slots per node and one per
remote. The direct route reaches both kinds of exit, the circular one the hop limit
from either start; two QUIC clients on one stream number reach the limit per remote.

Fairness: threads run, `readTcpConnect` returns at the end of the input. A pump of a
chain whose client has left is obliged to end only when the exit's target is gone
too and `RelayCopyPool` has a thread for it: until then a target that keeps sending
keeps the down pump busy, since nothing refuses what is written for a QUIC client that
is gone, and one that does not read blocks the up pump in its write.

So `SlotsComeBack` has three exceptions, each what the code does. A slot taken by a
session whose client leaves before its `TcpConnect` is lost (stage `leaked`):
`readTcpConnect` throws before the `try` that gives it back (`SlotsAccounted` counts it as
held). A target that stays connected, and a pump pool with more pumps than threads
(`Crowded`), may hold the slots of a chain long after its client left.

### UdpSessions

A handler per client channel (`ReadFrame` to `SweepClose`) and the selector
(`Select` to `SelectorClose`). Between looking a session up and closing it any
other thread may run. `closeSession` removes what the key now maps to and closes
only the session it was given; if that is another one, the removed session is
open and unreachable (`orphans`). `createSession` opens its channel before the calls
that may throw and closes it nowhere (`CreateFails`, `stray`; such a channel is open
until the collector finds it). `ChannelsAccounted` says that nothing else goes wrong.
The selector thread can end: `selectLoop` asks a key `isValid()` and then
`isReadable()`, and if a handler closes the session in between, the second call throws
`CancelledKeyException`, which the loop does not catch (`SelectorDies`). From then on no
reply is read and no idle session cleaned up, for any client; `HandlersEnd` and
`ChannelsAccounted` hold in that state too, and it is all they promise about it.

`TableBounded` holds for any number of handlers. Handlers that look for a session to
evict at the same time choose the same oldest one and count it each, so a handler may
use up its batch without removing anything and pass a full table. `blind` counts these
passes since the table was last below its cap, and the table outgrows the cap by no more
than one session per handler and one per blind pass. That is no bound on the table: the
pools of a default server run more handlers (`Main.java:76-113`: 64 sessions and more,
and the threads that run a session for a full pool) than `EVICT_BATCH` (64). The run
has that shape, two handlers and a batch of one, and TLC finds the table beyond
cap and handlers in it.

Time is left out: any session may be idle or oldest.

Run: two channels with two flows each, both handlers at once, one or two sessions per
key, a cap of one session and a batch of one eviction: eviction across channels, the
lost `putIfAbsent`, sweeps racing the selector, orphans, blind passes and the end of
the selector all occur.

Fairness: handlers and the selector finish what they are in. Clients and remotes
are free.

### PathManager and DhtTable

`Decide` is the code's up to its first unlock: sweep, touch, and either the answer
or the search for peers, for which the lock is released; `TryPeer` takes it again
with a statistic that may be gone. `Record` and `Probe` are the other writers.
The average success rate is abstracted to "may be below its threshold once two
failures were seen". `PathsBounded`: the table outgrows its limit by the one entry
inserted after the sweep, never by more. `StickHasReason`: a destination sticks to
TCP only if its statistic is there and bad, except for a cooldown set by a
`Decide` that was overtaken while it looked for peers.

In `DhtTable` an identifier is its XOR distance from the client's own. A job is a
bootstrap or gossip merge, a probe of the seeds or an iterative search; jobs insert
one node at a time, their requests are answered or not, and a job of a cancelled
session still inserts what it has. `KeepsNearest`: a node that was ever inserted is
missing only where nearer ones fill its bucket or the table, and the buckets hold
what the map holds. `OnlyAdmitted`: every node passed the filters of the session
that put it there.

Run: three destinations and two callers for a limit of one statistic; identifiers
of three bits, buckets of one, a table of two, two jobs at a time, two sessions
with different filters, among them the client's own identifier and one node with
two records. That is the least at which a bucket overflows while the table does not
and the other way round. Destinations, callers and jobs are interchangeable; only
invariants are checked under symmetry.

### TunFlow and FlowService

`FlowService` says what a flow is promised: it ends with one result, and what was
last recorded about its destination is that result; the one wait without a
deadline is for a peer's answer over UDP. `TunFlow` has every stage of
`DialTunFlow` (the hop of a route, peers over QUIC, UDP and TCP, the race of QUIC
and TCP, the server again), the goroutines of the race with the channel they send
to, and what each exit records. `DeliversOneResult` is the refinement: `phase` is
computed from the flow's stage (`PhaseOf`), `verdict` from what was recorded.
`WiresAccounted`: every open connection has an owner, except for a race's loser
that found room in the channel after the race was over (`preamble.go:623-629`):
it is never closed.

Run: one flow that may use its slot again, one destination, no peer or one with
all transports, two tries, QUIC degraded after two failures and tried every second
time. Cooldown is off here; `path_manager` has it.

Fairness: weak, per flow and per racer. Every dial has a deadline and the race a
timeout; a flow that waits for a peer's UDP answer owes nothing, because
`peer_udp.go:117` clears the deadline before it reads.

### VpnSession

`Run` dials its channels (`DialConn` to `OpenDevice`), serves, and takes them down
(`CloseChan` to `ClearAssoc`) without a lock. Beside it: a read loop per channel
(`ReadFails`, `Reopen`, `Swap`), `handleUDP` per flow (two stores, sends, two
deletes), the watchdog with the two reads of `quicAlive`.

- `RepliesFindTheirFlow`: associations belong to flows that live, and a flow that
  met no flow with one of its keys is found. Two flows with mirrored ports do lose
  replies, since each deletes the other's keys.
- `PanicOnlyWhileStopping`: the nil dereference between the two reads of
  `vpn.go:280` happens only while `Run` takes the multiplexer down.
- `StopsClean`: a stop in any state ends with everything closed and no goroutine
  left, or in that panic.

Run: two channels, two attempts, two mirrored flows, two misses; both transports.

Fairness: weak for `Run`, read loops, flows and pings (their waits have timeouts,
or end when the wire is closed); strong for a `Send` whose channel is broken and
for the watchdog's `select` that finds `ctx.Done` ready again and again. The
network and the device owe nothing.

### ClientApp

An attempt is one call of `ConnectFn`; `conn` says where it stands and `kind` what
its stop ends: the `runPlatform` of this process, the client that `pkexec` runs as
root (its kill may fail, and it outlives the process), or nothing, because
`connectVPN` returned neither a stop nor an error and the wrapper calls nil. `live`
holds the attempts whose tunnel or child runs. `Update` runs on one goroutine and
waits in `m.stop()` (`wait`). The headless loop takes over when the UI ends, but not
when `p.Run` returns an error (`RunBreaks`). `ipc = "recv"` holds the one mutex of
the IPC client. The UI may start as connected without a stop, when the state file
names a living process (`InitState`, `NewModel`).

`mishaps` is history. `crossed`: a command was handled while an attempt answered; it
stays. The other two are about the present tunnel, and a stop that returns, a failure
or a report of a live tunnel ends them. `lost`: what is shown ended with nobody
waiting, was gone when it was reported, or belonged to another process from the
start. `stale`: a tray command was dropped by a full channel or swallowed by the
listener of the ended UI, or a late status was written while a tunnel was up.

- `HandleKept`: a tunnel that is up can be stopped by `headlessStop`, and while the
  UI runs the UI holds its stop or is about to get it, as long as no command crossed
  an attempt. If one did, `connectedMsg` and `errMsg` overwrite or forget the only
  stop.
- `ViewsAgree`: at rest, in the UI and in the headless loop, until a command crosses
  an attempt. The UI holds whatever runs and shows it, whatever was lost or stale.
  What UI and file show as connected runs, unless it was `lost`. What runs is in the
  file, unless the file is `stale`. So a lost command excuses the file and not the
  UI, and only until the next change of tunnel.
- `BypassInPlace`: a tunnel of this process has its bypass route, unless a second
  attempt failed and removed the routes both share. A child adds its own routes;
  they are not modelled beyond what its end may remove.
- `LeavesOnceTrayIsGone`: `Close` needs the mutex that `Receive` holds; once the
  tray has closed its socket a leaving process ends. While the tray lives and is
  silent, it does not.

Run: two attempts (what crosses needs two), a command channel of one, two messages
on the socket, one use of the tray's menu. Once a command crossed an attempt a
running UI only leaves (`AppStep` in `MCClientApp`): what is promised ends there, and
the headless loop and the end of the process are still explored.

Fairness: goroutines run and a cancelled tunnel of this process ends; the user, the
tray, the network and a killed child owe nothing.

### Presence and ControlPlane

`Presence`: the relay listener, the STUN probe and the punch loop publish under one
key at every seed; a store may be lost, or held up and arrive after a later one;
records live `Ttl` rounds; the NAT may give the socket a new address. The seeds
keep whatever comes last, and the record's epoch is not compared.
`PresenceFollows`: with an open socket a client that keeps asking finds the present
address again and again and, from some time on, never another one. It rests on the
punch loop: a volunteer without it expires after 900 s.

`ControlPlane`: `FlushTick` and `FlushNext` store each queued message under its own
key and the head key of the peer, the seeds in any order; `PullHead` reads a head
and counts what it has not seen. The list of what was seen is pruned by age and by
number (`PruneSeen`); which of equally old entries go is left open. `CountedOnce`
holds although stores are delayed, because a record expires with its message and the
list forgets no message that lives: `SeenTtl >= MsgTtl` (24 hours against 30 s), and
`SeenMax >= 2 * MsgTtl + 2`, more messages than can be seen within two lives (8192
against rounds of 4 s). With a shorter memory or a shorter list TLC finds a message
counted twice. The property also says that no store outgrows its limit.

Run: two seeds, a record that lives two rounds and a seed that misses at most one
in a row (`MaxMisses < Ttl`: 900 s against rounds of 22 s), one new address, one
delayed store. The messages are checked in `tui_forms`, where there is room for them:
three rounds, two seeds of two keys, a list of four that forgets after two rounds, so
that it is trimmed by number and by age.

Fairness: rounds, stores and delayed packets go on; a client that asks a seed which
has the record again and again is answered (strong). The NAT and the STUN probe
owe nothing.

### ConfigStore, TuiForms, SelfUpdate, CloudList

`ConfigStore` keeps one field per class of fields that the code treats alike (its
header lists the classes; `WellFormed` says which values a section may hold) and has
the conversions as operators: migration of the relay section into the mesh section,
its carry-over, defaults, presets, merges, connection links. `TuiForms` has one
action per key and form; a write may fail half-way and leave a truncated file.

- `FormsKeepTheRest`: a form or key changes only its own section of a profile that
  stays. The first save of a profile with an old relay section migrates it; `Migrated`
  says what of its options the file then no longer has: `StakeMin`, which
  `LegacyRelayCarryOver` does not copy (`mesh.go:290-311`), the transports where path
  probing was off, the reflexive address where it did not listen; a missing peer rate
  becomes the general one. Nothing else changes. The mesh form keeps the key, and the
  geo lists of a profile whose mesh was off, neither of which it shows; of one whose
  mesh was on it drops the relay section. The edit form drops the managed identity.
- `ListAgrees`: the list shows what the files hold, except for files that handlers
  without a reload or a failed save touched, and options a connect completed
  through the shared pointer.
- `PanicsOnlyAfterShrink`: the target index leaves the list only after a deletion.
- `ConnectsAsRead`: enter on the list and a connect by name use the profile as the
  list was last read, whatever connects completed in place since; the reconnect of the
  watchdog uses the file (`configSnapshotForActive`); the defaults fill only what is
  absent, unless `VOLTER_ANTIDPI_PRESET` is set. List and file have the same protection
  except for profiles a handler without a reload wrote: the protection form, its
  presets, the cluster keys, a failed save. There enter connects with the **old**
  options, although the cluster tab tells the user to reconnect after a change of the
  route (`model.go:508`).

`SelfUpdate`: `RunsWhatWasChecked`, with a kill between any two steps: the client
runs, and will be started from, the old executable or a whole download that matched
its checksum; without a checksum in the release nothing is verified. Executing the new
file in place after a failed rename ends a behaviour's part in the names: a process that
runs as `<exe>.new` would name its next files after itself, the model keeps the names.

`CloudList`: a line of the list has a server (address and token) and options, and a
profile saved under its name replaces it if it has the same server (`Chosen`).
`ProbesFindTheirServer`: a connect goes without QUIC only if the line or that profile
says TCP, or a probe of the listed server said "tcp only", except where the list moved
since the last answer or a probe of another server was in flight; and it has an IPv6
network only if one of them names it or a probe of that server reported it, except for
the latter: answers are kept under `cloud-<line>`. (`connectVPN` probes the server once
more before it dials; that is not part of this property.)

Run: three names in directory order with the ticket store between two profiles (an
old one with a relay section, a managed one with everything), the environment unset
or, for one write, `paranoid` (`FewWrites`), one failing write of two; two kills; one
entry, two servers, three lines (two plain, one with both options), any list and saved profile at the start, two
fetches and one edit. Each behaviour moves one part; the others rest, in one state.

### AndroidService

`OnStart`, `OnStop`, `OnDestroy` begin a command; `StopActive`, `WaitCoreStopped`,
`ClearFields`, `BeginGeneration` are the rest of it. `Probed` to `CheckHandle` are a
worker, `Launch`, `RunReturns`, `CleanUp` the goroutine of a session. A generation
is a flag, "started after the last command": the code only compares for equality.

- `SessionsReachable`: a session nobody stopped is in the service's field or in the
  hands of its worker, and an open descriptor has somebody who will close it. Two
  exceptions are recorded as `lost`: a command between the last two looks of a
  worker, and a stale TUN worker that sets the field of a newer one to -1
  (`VolterVpnService.kt:427`). A third is named in the property: `vpn.Run` that
  fails before it opens the device (`vpn.go:137-140`) leaves the descriptor open,
  since `stopActive` closes it only when there is no handle.
- `GlobalsOwned`: hook, log writer and protector belong to the session that runs and
  nothing of a session stays behind, unless sessions overlapped or a self-test ran;
  and sessions overlap only when the wait of one second ran out, a handle was lost,
  or a stale worker's session was still ending.

Run: two starts, both with a TUN device, in the two modes without one, or first with
and then without one; the last with two instances of the service, so that what an
instance leaves behind meets the next (`FewInstances` in `MCTuiForms`).

## Proofs

TLC shows the properties on the instances above; TLAPS proves these for all
values of the constants that satisfy the named assumptions. Each inductive
invariant was checked by TLC on the instance of its run as well. Every invariant and
every action property of the passing runs is stated by a theorem.

`QuicIngressProofs` (any finite input of the peer, at least two slots, a positive
limit):

- `StreamInvariant`, with `StreamInv == TypeOK /\ HoldInv /\ EndInv /\ OrderInv`.
  `OrderInv` is `Conservation` chunk by chunk: what was read, what was taken, the ring
  and what the event loop has in its hands are consecutive numbers. It needs
  `HoldInv` (while a chunk is held back nothing is read from the network, so a new
  chunk cannot overtake it) and `EndInv` (a marker in the ring means the stream is no
  longer active and nothing else is in it). `NothingLost` (`Conservation`) and
  `ClosesCutOff` (`CutOff`) follow.
- `RingIsBounded` (`RingBounded`). `ByteInv`: while the stream is active the counter
  differs from the bytes in the ring by the chunk that `read()` has taken and not yet
  subtracted and the one the event loop has put in and not yet added, so the limit is
  tested against no less than what the ring holds. That a sum over the ring grows and
  shrinks with it is proved by induction, as the absence of a least counterexample.

`IngressProofs` (any finite sets of connections and streams, any event loops, pools
with at least one thread and one place in the queue):

- `IngressInvariant`, with the stages of `run` and of the task that go together, the
  threads that run them and who has the socket in each, next to `HandshakesAccounted` and
  `SocketsOwned`. A cancelled stream is gone, so whoever gives a count back has one;
  that no two threads have one connection's part is what `CallerRunsPolicy` and the
  keep-alive could break. `CounterExact`, `OwnershipPasses` and `PoolsBounded` follow.

`RelaySessionProofs` (any finite set of sessions, any nodes and stream numbers, non-empty
routes, any counters of the clients and positive limits):

- `SlotInvariant`, with `SlotInv == TypeOK /\ SlotsAccounted /\ SlotsBounded`,
  from which `TypeCorrect`, `SlotsAreAccounted` and `SlotsAreBounded` follow. The
  bound needs the accounting: only because the counters equal the holders does a
  release never run against the floor of zero and hide a loss. Each step either
  is quiet (no counter and no holder changes: `QuietActions`, `QuietStep`) or
  changes one counter together with one holder (`TotalChanges`, `RemoteChanges`).
- `ChainIsBounded`, with `ChainInv`: a chain grows at its end only, so its sessions
  carry different hops, from its client's on, and a thread past the checks is within
  the limit the *server* chose. Hops are then an injection of the sessions that were
  let in into the hops there are (`ChainCounted`).

`UdpSessionsProofs` (any finite set of channels, any flows, generations and positive
limits):

- `UdpInvariant`, with `UdpInv == TypeOK /\ HandInv /\ PutInv /\ TableInv /\
  OpenInv`: each thread has in hand what its stage needs; a session about to be
  put is open, of its handler's key and not yet in the table; the table maps each key
  to an open session of that key; every open session is in the table, about to be put,
  an orphan or stray. `ChannelsAreAccounted` follows. The middle parts are needed since
  `Put` and `CloseSession` are separated from the step that chose the session.
- `LoadInvariant` and from it `TableIsBounded`, with no condition on the limits. No
  bound on the table alone is inductive. `CapInv` bounds the sessions in the table and
  the handlers with one to their `Credit` together: those about to put a session, and
  those whose eviction has removed one. Below the cap the sum is within its bound
  whatever the credits, since only running handlers have one; from there an eviction
  turns a session into a credit, a put turns it back, and only a blind pass adds to it.

`TunFlowProofs` (any destinations, callers, peers and limits):

- `ManagerBounded` and `CooldownHasReason` for `PathManager` under any callers
  (`PathSpec`). `ManagerInv` adds to `StickHasReason` what a caller that looks for peers
  without the lock may rely on (`AskInv`): as long as it was not overtaken, the
  statistic that sent it there is still there and bad.
- `TunInvariant`, with `TunInv`: the manager's invariant and, per flow, what its
  stage, its racers and its channel hold (`SlotOK`). `WiresOwned` (`WiresAccounted`) and
  `FlowsUseManagerWell` follow: the flows are callers under which the manager keeps
  both its promises.
- `ImplementsService`: `Spec => Service!Init /\ [][Service!Next]_(Service!vars)`, the
  safety of the refinement of `FlowService`, action by action: each step is the step
  of the abstract flow that `PhaseOf` and `verdict` make of it, or changes neither.

`ClientCoreProofs`, `VpnSession` (any number of channels, flows and keys with an
involutive mirror):

- `SessionInvariant`, with `SessionInv == TypeOK /\ DialInv /\ DogInv /\ OwnInv /\
  MetInv /\ FoundInv`. An association belongs to a live flow with that key (`OwnInv`); a
  flow that met no other has no rival (`MetInv`), so what it stored is still there
  (`FoundInv`); the watchdog is between its reads only if the pointer was set, and it
  is cleared in the last steps of `Run` (`DogInv`). `RepliesFound` and `PanicConfined`
  follow.

`AndroidServiceProofs` (any plans of starts, any number of instances):

- `AndroidInvariant`, with eleven named parts. The ones that carry the argument: at most
  one worker is of the present generation (`RecentInv`); as long as no handle was lost,
  the field belongs to that generation and a worker between its last two looks is alone
  with it (`KeptInv`); if moreover every wait was long enough, only the session the field
  names is in the core's map (`WaitedInv`), and alone there it owns the globals
  (`CoreInv`). `NoSessionOutOfReach` and `GlobalsBelong` follow.

`ClientCoreProofs`, the user interface (any names without an empty one, any
directories of well-formed profiles over them; any releases; any entries and servers):

- `UpdInvariant`: between checksum and executable there is only a download that
  matched, or a release without a checksum. `UpdateIsChecked` follows.
- `CloudInvariant`: word of a server other than the listed one is in flight or known
  only under names the history has noted. `ProbesFind` follows.
- `FormsInvariant`, with `FormsInv == FormTypes /\ IdxInv /\ ListAgrees`. A step of the
  forms leaves list and files alone, or reads the list again, or writes files it notes as
  not read since, or completes one profile in place (`FilesStep`, `Connect`); the
  target index moves by `ctrl+left` and `ctrl+right` only (`IndexStep`).
  `ListFollowsFiles` and `PanicNeedsShrink` follow.
- `SectionsInvariant`: every section of a profile, in a file, in the global file, in
  the list and in an open form, holds values the program writes (`SectionsOK`), and a
  listed profile has the protection it was read with, at most with its embedded engine
  completed once, which is that of its file if it was not written since (`UsesRead`). It
  rests on what the conversions do: the migration is due once and what it leaves reads
  back as `Migrated` says (`RepairIsOne`, `ReadBack`, `MigrationIsOne`), and completing
  twice is completing once (`TopUpOnce`).
- `ConnectUsesRead` (`ConnectsAsRead`) follows, and `FormsKeepSections`
  (`FormsKeepTheRest`) handler by handler: what each writes is the loaded profile with its
  own section replaced, and a save keeps all sections (`SavedKeeps`).

`ClientCoreProofs`, `DhtTable` (any number of bits, bucket size and table limit of the
module's assumption, any jobs and filters):

- `TableInvariant`: the table holds no more than its limits, and a node that was
  inserted once and is not there is missing because its bucket, or the table, is full
  of nearer ones. An insertion keeps everything, or drops the farthest of one
  bucket, or the farthest of all, so the nodes that stay bear witness for the one
  that goes. What the loops still have to insert has passed the filters of their
  session, which needs that the filter of a list, taken one by one, lets through
  only what it admits: by induction over the list. `TableKeepsNearest`
  (`KeepsNearest`) and `TableIsAdmitted` (`OnlyAdmitted`) follow.

`ClientCoreProofs`, `ControlPlane` (any number of rounds, seeds that are not none, any
limits with a memory as above):

- `ControlInvariant`: what the sender handles was created in this round, so a record
  expires with its message (`StoresInv`) and a message is first seen while it lives;
  as long as it lives the reader remembers it if it counted it (`SeenInv`): forgetting
  it by number would need as many messages seen after it as two lives do not hold.
  `ControlCountsOnce` (`CountedOnce`) follows.

`ClientAppProofs` (any number of attempts, any capacities, any use of the menu):

- `AppTypeCorrect`. Most handlers of `Update` come to one of four things (`UiTurn`), and what
  happens outside it, the IPC and the tray, leaves attempts and tunnels alone
  (`Outside`), so each later invariant is proved for effects and not for 40 actions.
- `HandleKeptCorrect` and `BypassCorrect`, with `AppIInv`: `Turns` says who may wait for
  which stop; unless a command crossed an attempt, one attempt at a time answers, no
  other tunnel is up meanwhile, and the routes stand from `AddRoutes` on
  (`OneAtATime`).
- `ViewsAgreeCorrect` needs two more. `TrayIsHeard`: while the tray is up a living client
  listens to it, so that a "disconnect" is on its way (`Coming`) until somebody takes
  it or its loss is noted. `InStep`: without a loss, nothing that is shown is down
  outside a stop or a call (`Shown`); with a file that is not stale, what runs and was
  told is in it, or a "disconnect" that will end it is on its way (`Seen`).

Only model-checked:

- the liveness properties: `EveryChunkIsRead`, `CloseReachesReader`, `StreamSettles`,
  `HandshakeQueueMoves`, `SlotsComeBack`, `HandlersEnd`, `StopsClean`, `LeavesOnceTrayIsGone`,
  `PresenceFollows`; the prover has no rule for fairness;
- the fairness part of the refinement of `FlowService` (`DeliversOneResult`), whose safety
  part is `ImplementsService`.

What the prover cannot read shapes the models in a few places: `ConfigStore` names the
strings of the profiles in a set (`Text`), since a literal is not known to be a member of
`STRING`; the filter of the DHT and the sum over the ring are recursive functions, and
induction over them goes through the least element of a set of naturals (`LeastNatural`),
since the library's induction theorems take an operator as a parameter.

## What the models show about the code

Properties name their exceptions, so that each of these is a recorded fact about the
code and not an assumption.

- Server: the three disagreements above; a handshake count that is never given
  back; sockets and connections dropped open (an accepted socket whose options cannot be
  set, a refused QUIC stream in the UDP role) and a cluster bridge closed under its QUIC
  stream; a relay slot lost before `TcpConnect`, slots kept by a target that stays
  connected after its client left, one slot more for a chain that announces hop 0, and
  a limit per remote that counts a TCP client's port and a QUIC stream's number as the
  remote; UDP sessions orphaned by `closeSession`, channels left open by a
  `createSession` that fails, a table that outgrows its cap by evictions counted in
  vain, and a selector thread that dies of a key cancelled under it.
- Flows: the loser of a race may keep its connection; a peer's UDP answer has no
  deadline; after a race that both lost, with QUIC preferred, the selector hears that QUIC
  succeeded; flows with mirrored ports lose replies; the watchdog may read a nil
  connection during shutdown.
- Process: a command that crosses an attempt loses the stop of a tunnel or its
  bypass routes; a silent tray keeps a leaving process; the first command after the
  UI ended is swallowed by its listener; a UI that starts on the state file of a
  living process shows a connection it cannot stop; a signal during an attempt may
  leave a stop that wraps nil and panics when it is called.
- Profiles: a rename deletes the old file before it saves the new one; `ctrl+left`
  after deletions panics; `peer-tickets.json` is listed as a profile; a connect
  writes defaults into the cached profile; UI and tray overwrite each other's
  settings.
- DHT and presence: an older record of a node replaces a newer one; `k = 256` is sent
  as the byte 0; a put at the limit evicts a key even if it only refreshes one;
  epochs are not compared; an advertised address is overwritten by the next punch
  round; without a peer socket the presence names a socket that is closed.
- Android: `stop(coreHandle)` at `VolterVpnService.kt:250` and `:437` reads a field the main
  thread may have cleared; a session that ends late strips the next one's hook and
  log writer, and so does a self-test; the descriptor of a stale worker is closed by
  the main thread and by the worker; a session leaves the map before `done` is
  closed, so `PollState` hardly ever reports how it ended.

## What is not modelled

The components without a module in `PROJECT.json`, each with its reason. In short:
cryptography, parsing, timing and padding are data; logging, routes, devices and
screens are I/O; the registries of the cluster and of managed clients, the replay
cache and the server's own update are in the plan.

Inside the modelled parts: mesh datagrams and HTTP answers of the ingress, the
server's shutdown, bandwidth budgets and traffic accounting of relays, the outgoing
queues of UDP writers and their pool; packets and the network stack of the client;
relayed peer sessions; signatures and packet formats of the DHT; what the tray
itself shows, and other platforms than Linux in `ClientApp` and Unix in
`SelfUpdate`; that a confirmed update takes the tunnel down first; the polling of
the Android view model.

## Plan

1. Cluster and control: session resume and ownership, client registry and gossip,
   managed clients (nonces, device limits, sessions), with an abstract specification
   of one owner per session.
2. Handshake: replay cache, counters of the encrypted stream, negotiation, with both
   ends composed.
3. The relay copy pool and the pool of UDP writers, which wait for one another.
