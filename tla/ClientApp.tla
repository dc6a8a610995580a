------------------------------ MODULE ClientApp ------------------------------
(* The Linux client process: the terminal UI, the connection attempts it     *)
(* starts, the headless loop that survives the UI, the IPC client shared     *)
(* with the tray process, the state file both write, and the bypass routes.  *)
(*                                                                           *)
(* An attempt is one call of ConnectFn.  conn[i] is where the call stands,   *)
(* kind[i] what its stop does: cancel this process's runPlatform, kill the   *)
(* client that pkexec runs as root, or nothing, because connectVPN returned  *)
(* neither a stop nor an error.  live is the set of attempts whose tunnel is *)
(* up, or whose pkexec child runs.  Update runs on one goroutine, so while   *)
(* it waits in m.stop() (variable wait) the UI handles nothing.  The IPC     *)
(* client has ONE mutex for Send, Receive and Close, and Receive blocks on   *)
(* the socket while it holds it (ipc = "recv").                              *)
EXTENDS Naturals, Sequences, FiniteSets

CONSTANTS Attempts,  \* bound: connection attempts in a behaviour
          CmdCap,    \* capacity of ipcCommandCh (10 in the code)
          WireCap,   \* bound: tray messages in the socket at once
          Clicks     \* bound: uses of the tray's menu

ASSUME AppBounds == Attempts \in Nat \ {0} /\ CmdCap \in Nat \ {0} /\ WireCap \in Nat \ {0} /\ Clicks \in Nat

VARIABLES
  prog,     \* the process: run, quitting, headless, leaving, gone, panicked
  ui,       \* Model: status, whether activeCfg is set, the stop it holds (0: nil)
  conn,     \* where attempt i's ConnectFn stands
  kind,     \* what attempt i's stop ends: own tunnel, pkexec child, or nil
  live,     \* attempts whose tunnel is up or whose child runs
  cut,      \* attempts whose context was cancelled
  byHead,   \* attempts started by the headless loop
  head,     \* headlessStop: the attempt it stops, 0 when nil
  disk,     \* the state file's Connected
  mail,     \* messages on their way to Update
  wait,     \* the stop() that the UI or the headless loop is waiting in
  cmds,     \* ipcCommandCh
  shut,     \* ipcCommandCh is closed
  lst,      \* Bubbletea's listenIPCCommands goroutine is waiting on it
  wire,     \* tray -> client
  ipc,      \* tuiIPCListener: none, recv (in Receive, holding the mutex), free, end
  hand,     \* the command the listener received and has not queued yet
  late,     \* tuiStatusListener waits to Send a status and then write the state file
  tray,     \* the tray process: up, uses of its menu so far
  bypass,   \* the bypass routes are installed
  mishaps   \* history: crossed, and until the next change of tunnel lost and stale

progVars == <<prog, cmds, shut, lst>>
tunVars  == <<conn, kind, live, cut, byHead, bypass>>
ipcVars  == <<wire, ipc, hand>>
vars == <<progVars, tunVars, ipcVars, ui, head, disk, mail, wait, late, tray, mishaps>>

Conns == 1..Attempts
Commands == {"disconnect", "connect", "unknown", "quit"}   \* unknown: connect to a name no list has
Idle == [conn |-> 0, then |-> "none"]
UiOff == [status |-> "off", active |-> FALSE, stop |-> 0]
Calling == {"check", "routes", "up", "held"}
InCall(i) == conn[i] \in Calling
HeadKinds == {"hoff", "hquit", "hdial"}

UiStates == [status : {"off", "connecting", "connected"}, active : BOOLEAN, stop : {0} \cup Conns]
Afterwards == {"off", "toggle", "quit", "dial"}   \* what Update was stopping for
Waits == [conn : {0} \cup Conns, then : {"none"} \cup Afterwards \cup HeadKinds]

ControlType ==
  /\ prog \in {"run", "quitting", "headless", "leaving", "gone", "panicked"}
  /\ disk \in BOOLEAN /\ bypass \in BOOLEAN /\ shut \in BOOLEAN /\ lst \in BOOLEAN /\ late \in BOOLEAN
AttemptType ==
  /\ conn \in [Conns -> {"new", "told", "done"} \cup Calling]
  /\ kind \in [Conns -> {"own", "child", "nil"}]
  /\ live \in SUBSET Conns /\ cut \in SUBSET Conns /\ byHead \in SUBSET Conns
UiType == ui \in UiStates /\ mail \subseteq {"err", "dog", "ok"} \X ({0} \cup Conns)
WaitType == head \in {0} \cup Conns /\ wait \in Waits
QueueType ==
  /\ cmds \in Seq(Commands) /\ Len(cmds) <= CmdCap
  /\ wire \in Seq(Commands) /\ Len(wire) <= WireCap
  /\ hand \in Commands \cup {"none"} /\ ipc \in {"none", "recv", "free", "end"}
TrayType == tray \in [up : BOOLEAN, clicks : 0..Clicks]

AppTypeOK == ControlType /\ AttemptType /\ UiType /\ WaitType /\ QueueType /\ TrayType

\* NewModel: disconnected, or what the state file said of another process.
NewModel == mail = {} /\ ui = [status |-> IF disk THEN "connected" ELSE "off", active |-> disk, stop |-> 0]

\* Init's listenIPCCommands waits on the command channel.
ModelInit == lst = TRUE /\ cmds = <<>> /\ shut = FALSE

\* runTUI: with -ipc-socket the listener and the status listener are started.
IpcInit ==
  /\ \E attached \in BOOLEAN :
       /\ tray = [up |-> attached, clicks |-> 0]
       /\ ipc = IF attached THEN "free" ELSE "none"
  /\ head = 0 /\ wire = <<>> /\ hand = "none" /\ late = FALSE

\* InitState: a file that says connected is believed when the process it names
\* lives, a headless client or whoever has its number now.  This process has no
\* tunnel, and the history notes it.
InitState == disk \in BOOLEAN /\ mishaps = IF disk THEN {"lost"} ELSE {}

AppInit ==
  /\ prog = "run" /\ InitState /\ NewModel /\ ModelInit /\ IpcInit
  /\ conn = [i \in Conns |-> "new"] /\ kind = [i \in Conns |-> "own"]
  /\ live = {} /\ cut = {} /\ byHead = {} /\ wait = Idle /\ bypass = FALSE

SetConnected(c) == disk' = c
AddBypass == bypass' = TRUE
DelBypass == bypass' = FALSE

-----------------------------------------------------------------------------
\* Starting and stopping attempts

Fresh(i) == conn[i] = "new" /\ \A j \in 1..(i - 1) : conn[j] # "new"
Overlaps == <<"err", 0>> \in mail \/ \E j \in Conns : InCall(j) \/ <<"ok", j>> \in mail

\* The history, m so far, notes a command handled while an attempt still answers.
Crossed(m) == mishaps' = m \cup (IF Overlaps THEN {"crossed"} ELSE {})

\* A tunnel was stopped, failed or reported: what went astray before is past.
Settled == mishaps \cap {"crossed"}

\* waitConnect: a goroutine calls ConnectFn.  Nothing stops a second one while
\* the first is still at it.
WaitConnect(i, m) ==
  /\ Fresh(i)
  /\ conn' = [conn EXCEPT ![i] = "check"]
  /\ Crossed(m)

Connecting == [status |-> "connecting", active |-> TRUE, stop |-> 0]

UiFree == prog = "run" /\ wait = Idle

\* The stop of an attempt: cancel its context, or kill the child, and wait.
StopThen(i, k) == /\ cut' = cut \cup ({i} \cap live)
                  /\ wait' = [conn |-> i, then |-> k]

\* What Update does once stop has returned, or at once when m.stop is nil.
Continue(k, m) ==
  \/ k = "off" /\ ui' = UiOff /\ Crossed(m) /\ UNCHANGED <<prog, conn, mail>>
  \/ k = "toggle" /\ ui' = UiOff /\ mishaps' = m /\ UNCHANGED <<prog, conn, mail>>
  \/ /\ k = "quit" /\ prog' = "quitting" /\ ui' = [ui EXCEPT !.stop = 0] /\ mishaps' = m
     /\ UNCHANGED <<conn, mail>>
  \/ /\ k = "dial" /\ ui' = Connecting /\ \E i \in Conns : WaitConnect(i, m)
     /\ UNCHANGED <<prog, mail>>

\* Update's stop: the handler goes on after the wait, or at once without a stop.
\* The toggle also queues a status for tuiStatusListener, when there is one.  A
\* wrapper around nil panics instead (RunBreaks).
UiStop(k) ==
  \/ /\ ui.stop # 0 /\ kind[ui.stop] # "nil"
     /\ StopThen(ui.stop, k)
     /\ UNCHANGED <<ui, prog, conn, mail, mishaps, late>>
  \/ /\ ui.stop = 0
     /\ Continue(k, mishaps)
     /\ late' = (late \/ (k = "toggle" /\ ipc # "none"))
     /\ UNCHANGED <<cut, wait>>

\* A wrapper that leaves the state file alone.
StopKeepsFile ==
  /\ wait # Idle /\ wait.then \notin HeadKinds /\ wait.conn \notin live
  /\ head' = 0 /\ wait' = Idle
  /\ late' = (late \/ (wait.then = "toggle" /\ ipc # "none"))
  /\ Continue(wait.then, Settled)
  /\ UNCHANGED <<cmds, shut, lst, kind, live, cut, byHead, bypass, ipcVars, tray, disk>>

\* The stop wrapper of ConnectFn: runPlatform is gone, headlessStop is cleared
\* whoever it belonged to, the state file says disconnected, a status is sent.
StopReturns ==
  /\ wait # Idle /\ wait.then \notin HeadKinds /\ wait.conn \notin live
  /\ head' = 0 /\ SetConnected(FALSE) /\ wait' = Idle
  /\ late' = (late \/ (wait.then = "toggle" /\ ipc # "none"))
  /\ Continue(wait.then, Settled)
  /\ UNCHANGED <<cmds, shut, lst, kind, live, cut, byHead, bypass, ipcVars, tray>>

-----------------------------------------------------------------------------
\* What Update handles

uiRest == <<cmds, shut, lst, kind, live, byHead, bypass, ipcVars, head, disk, tray>>

\* enter on the profile or the cloud list: disconnect when connected, connect
\* when disconnected, nothing while connecting.
UiEnter ==
  /\ UiFree
  /\ \/ ui.status = "connected" /\ UiStop("toggle")
     \/ /\ ui.status = "off" /\ ui' = Connecting
        /\ \E i \in Conns : WaitConnect(i, mishaps)
        /\ UNCHANGED <<prog, mail, cut, wait, late>>
  /\ UNCHANGED uiRest

\* q and esc, with no form open.
UiQuit == UiFree /\ UiStop("quit") /\ UNCHANGED uiRest

\* connectedMsg: whatever the status is by now, the UI takes the stop.
Connected(i) ==
  /\ UiFree /\ <<"ok", i>> \in mail /\ mail' = mail \ {<<"ok", i>>}
  /\ ui' = [ui EXCEPT !.status = "connected", !.stop = i]
  /\ UNCHANGED <<uiRest, prog, conn, cut, wait, late, mishaps>>

\* errMsg: the stop is forgotten, whoever it belonged to.
Failed ==
  /\ UiFree /\ <<"err", 0>> \in mail /\ mail' = mail \ {<<"err", 0>>} /\ ui' = UiOff
  /\ UNCHANGED <<uiRest, prog, conn, cut, wait, late, mishaps>>

\* WatchdogReconnectMsg: ignored unless connected to a named profile.
WatchdogReconnect ==
  /\ UiFree /\ <<"dog", 0>> \in mail /\ mail' = mail \ {<<"dog", 0>>}
  /\ IF ui.status = "connected" /\ ui.active /\ ui.stop # 0
       THEN kind[ui.stop] # "nil" /\ StopThen(ui.stop, "dial") /\ UNCHANGED <<ui, prog, conn, mishaps, late>>
       ELSE UNCHANGED <<ui, prog, conn, cut, wait, late, mishaps>>
  /\ UNCHANGED uiRest

\* tryConnect: it stops a connected tunnel, but not an attempt under way; an
\* unknown name is only an error.
TryConnect(known) ==
  \/ known /\ ui.status = "connected" /\ UiStop("dial")
  \/ /\ known /\ ui.status # "connected" /\ ui' = Connecting
     /\ \E i \in Conns : WaitConnect(i, mishaps)
     /\ UNCHANGED <<prog, mail, cut, wait, late>>
  \/ /\ ~known /\ mail' = mail \cup {<<"err", 0>>} /\ mishaps' = mishaps \cup {"crossed"}
     /\ UNCHANGED <<ui, prog, conn, cut, wait, late>>

\* -auto-connect, before any attempt.
AutoConnect ==
  /\ UiFree /\ \A j \in Conns : conn[j] = "new"
  /\ \E known \in BOOLEAN : TryConnect(known)
  /\ UNCHANGED uiRest

\* ipcCommandMsg: after quit nothing listens on the channel any more.
IpcCommand ==
  /\ UiFree /\ lst /\ cmds # <<>> /\ cmds' = Tail(cmds)
  /\ \/ Head(cmds) = "disconnect" /\ UiStop("off") /\ UNCHANGED lst
     \/ Head(cmds) = "connect" /\ TryConnect(TRUE) /\ UNCHANGED lst
     \/ Head(cmds) = "unknown" /\ TryConnect(FALSE) /\ UNCHANGED lst
     \/ Head(cmds) = "quit" /\ UiStop("quit") /\ lst' = FALSE
  /\ UNCHANGED <<shut, kind, live, byHead, bypass, ipcVars, head, disk, tray>>

\* p.Run has returned and the Model is gone: a tunnel that headlessStop can stop keeps the process,
\* otherwise the channels are closed and runTUI returns.
EndRun ==
  /\ prog = "quitting" /\ mail' = {}
  /\ IF head # 0 THEN prog' = "headless" /\ UNCHANGED shut
                 ELSE prog' = "leaving" /\ shut' = TRUE
  /\ ui' = UiOff
  /\ UNCHANGED <<cmds, lst, tunVars, ipcVars, head, disk, wait, late, tray, mishaps>>

\* p.Run returns an error: the terminal failed, or Update panicked, as it does
\* when it calls a stop that wraps nil.  There is no headless loop after that.
RunBreaks ==
  /\ UiFree \/ prog = "quitting"
  /\ prog' = "leaving" /\ shut' = TRUE /\ ui' = UiOff /\ mail' = {}
  /\ UNCHANGED <<cmds, lst, tunVars, ipcVars, head, disk, wait, late, tray, mishaps>>

\* SIGTERM: every runPlatform of this process is cancelled by its own signal
\* context, and Bubbletea quits as well.
SigTerm ==
  /\ UiFree /\ prog' = "quitting"
  /\ cut' = cut \cup {i \in Conns : conn[i] = "routes" \/ (i \in live /\ kind[i] = "own")}
  /\ UNCHANGED <<cmds, shut, lst, conn, kind, live, byHead, bypass, ipcVars, ui, head, disk, mail,
                 wait, late, tray, mishaps>>

-----------------------------------------------------------------------------
\* One attempt: connectVPN and runPlatform

connRest == <<prog, cmds, shut, lst, ipcVars, ui, wait, tray, late>>
Alive == prog \in {"run", "quitting", "headless", "leaving"}

\* The attempt fails: ConnectFn (or the headless loop) writes the state file
\* and sends a status; the UI's attempt also posts errMsg.
Fails(i) ==
  /\ conn' = [conn EXCEPT ![i] = "done"] /\ SetConnected(FALSE) /\ mishaps' = Settled
  /\ mail' = mail \cup (IF i \in byHead \/ prog # "run" THEN {} ELSE {<<"err", 0>>})

\* Bad profile, name resolution, split-tunnel list, pre-check, no pkexec: before
\* any route.
CheckFails(i) ==
  /\ Alive /\ conn[i] = "check" /\ Fails(i)
  /\ UNCHANGED <<connRest, kind, live, cut, byHead, bypass, head>>

\* Without root, a client for the profile is started through pkexec.  It counts
\* as connected when volter0 is there or 20 s went by, and has its own routes.
PkexecStarts(i) ==
  /\ Alive /\ conn[i] = "check"
  /\ conn' = [conn EXCEPT ![i] = "up"] /\ kind' = [kind EXCEPT ![i] = "child"] /\ live' = live \cup {i}
  /\ UNCHANGED <<connRest, cut, byHead, bypass, head, disk, mail, mishaps>>

\* Routes left for later, after the tunnel is up.
AddsNoRoutes(i) ==
  /\ Alive /\ conn[i] = "check"
  /\ conn' = [conn EXCEPT ![i] = "routes"]
  /\ UNCHANGED <<connRest, kind, live, cut, byHead, head, bypass, disk, mail, mishaps>>

\* runPlatform installs the bypass and exclude routes one by one; the clean-up
\* is deferred only after all of them, so an error in between leaves some.
AddRoutes(i) ==
  /\ Alive /\ conn[i] = "check" /\ AddBypass
  /\ \/ conn' = [conn EXCEPT ![i] = "routes"] /\ UNCHANGED <<disk, mail, mishaps>>
     \/ Fails(i)
  /\ UNCHANGED <<connRest, kind, live, cut, byHead, head>>

\* The tunnel is ready.  The TUN device (or the proxy's port) is exclusive; a
\* child that runs may not have made its own yet.
TunnelReady(i) ==
  /\ Alive /\ conn[i] = "routes" /\ i \notin cut /\ \A j \in live : kind[j] = "child"
  /\ conn' = [conn EXCEPT ![i] = "up"] /\ live' = live \cup {i}
  /\ UNCHANGED <<connRest, kind, cut, byHead, bypass, head, disk, mail, mishaps>>

\* runPlatform has returned before connectVPN saw it ready.
Returned(i) == conn[i] = "routes" \/ (conn[i] = "up" /\ i \notin live /\ kind[i] = "own")

\* vpn.Run failed, the device was busy, or 90 s went by: the deferred clean-up
\* removes the routes, which a second attempt shares with the first.
TunnelFails(i) ==
  /\ Alive /\ Returned(i)
  /\ DelBypass /\ Fails(i) /\ cut' = cut \ {i}
  /\ UNCHANGED <<connRest, kind, live, byHead, head>>

\* It returned nil, as it does after a signal: connectVPN returns no stop and no
\* error, and ConnectFn takes that for a success.
ReturnsNil(i) ==
  /\ Alive /\ Returned(i)
  /\ conn' = [conn EXCEPT ![i] = "up"] /\ kind' = [kind EXCEPT ![i] = "nil"]
  /\ DelBypass /\ cut' = cut \ {i}
  /\ UNCHANGED <<connRest, live, byHead, head, disk, mail, mishaps>>

StopOf(i) == IF kind[i] = "nil" THEN 0 ELSE i

\* A headless loop that does not keep the new stop.
HoldsNothing(i) ==
  /\ Alive /\ conn[i] = "up" /\ wait.then \notin HeadKinds
  /\ conn' = [conn EXCEPT ![i] = "held"] /\ head' = IF i \in byHead THEN head ELSE StopOf(i)
  /\ UNCHANGED <<connRest, kind, live, cut, byHead, bypass, disk, mail, mishaps>>

\* ConnectFn publishes the tunnel: headlessStop under stopMu first ...
Hold(i) ==
  /\ Alive /\ conn[i] = "up" /\ wait.then \notin HeadKinds
  /\ conn' = [conn EXCEPT ![i] = "held"] /\ head' = StopOf(i)
  /\ UNCHANGED <<connRest, kind, live, cut, byHead, bypass, disk, mail, mishaps>>

\* ... then the state file, the status and connectedMsg, for a tunnel that may
\* be gone by now.
Tell(i) ==
  /\ Alive /\ conn[i] = "held"
  /\ conn' = [conn EXCEPT ![i] = "told"] /\ SetConnected(TRUE)
  /\ mail' = mail \cup (IF i \in byHead \/ prog # "run" THEN {} ELSE {<<"ok", i>>})
  /\ mishaps' = IF i \in live THEN Settled ELSE mishaps \cup {"lost"}
  /\ UNCHANGED <<connRest, kind, live, cut, byHead, bypass, head>>

\* The tunnel is down and its device gone.  Its routes go with it, unless they
\* are those of a child, which a kill leaves.
Down(i) ==
  /\ live' = live \ {i} /\ cut' = cut \ {i}
  /\ \/ DelBypass
     \/ kind[i] = "child" /\ UNCHANGED bypass
  /\ UNCHANGED <<connRest, conn, kind, byHead, head, disk>>

\* runPlatform ends after a cancel, or the child after a kill, which it may be
\* immune to.  After a signal nobody waits for it.
Teardown(i) ==
  /\ Alive /\ i \in live \cap cut /\ Down(i)
  /\ mishaps' = IF wait.conn = i THEN mishaps ELSE mishaps \cup {"lost"}
  /\ UNCHANGED mail

\* The tunnel ends by itself: the watchdog tells the UI (the headless loop's
\* attempts have a channel nobody reads), an error of vpn.Run tells nobody, nor
\* does the end of a child.
Dies(i) ==
  /\ Alive /\ i \in live \ cut /\ Down(i)
  /\ \/ mail' = mail \cup (IF kind[i] = "child" \/ i \in byHead \/ prog # "run" THEN {} ELSE {<<"dog", 0>>})
     \/ UNCHANGED mail
  /\ mishaps' = mishaps \cup {"lost"}

-----------------------------------------------------------------------------
\* The headless loop

headFree == prog = "headless" /\ wait = Idle /\ \A i \in byHead : ~InCall(i)

\* (*stopFn)() under stopMu, or nothing when it is nil.
HeadStop(k) ==
  IF head # 0 THEN StopThen(head, k) ELSE wait' = [conn |-> 0, then |-> k] /\ UNCHANGED cut

\* The first command after the UI ended goes to Bubbletea's listener, which
\* still waits on the channel, and is lost.
Swallowed ==
  /\ prog = "headless" /\ lst /\ cmds # <<>>
  /\ cmds' = Tail(cmds) /\ lst' = FALSE /\ mishaps' = mishaps \cup {"stale"}
  /\ UNCHANGED <<prog, shut, tunVars, ipcVars, ui, head, disk, mail, wait, late, tray>>

HeadCommand ==
  /\ headFree /\ ~lst /\ cmds # <<>> /\ cmds' = Tail(cmds)
  /\ \/ Head(cmds) = "disconnect" /\ HeadStop("hoff")
     \/ Head(cmds) = "connect" /\ HeadStop("hdial")
     \/ Head(cmds) = "quit" /\ HeadStop("hquit")
     \/ Head(cmds) = "unknown" /\ UNCHANGED <<cut, wait>>
  /\ UNCHANGED <<prog, shut, lst, conn, kind, live, byHead, bypass, ipcVars, ui, head, disk, mail,
                 late, tray, mishaps>>

HeadSignal ==
  /\ headFree /\ HeadStop("hquit")
  /\ UNCHANGED <<progVars, conn, kind, live, byHead, bypass, ipcVars, ui, head, disk, mail, late,
                 tray, mishaps>>

\* The stop has returned: disconnect writes the state file, quit does not.
HeadStopped ==
  /\ wait.then \in HeadKinds /\ wait.conn \notin live
  /\ head' = 0 /\ wait' = Idle
  /\ \/ /\ wait.then = "hoff" /\ SetConnected(FALSE) /\ mishaps' = Settled
        /\ UNCHANGED <<prog, late, conn, byHead>>
     \/ /\ wait.then = "hquit" /\ prog' = "leaving"
        /\ UNCHANGED <<disk, late, conn, byHead, mishaps>>
     \/ /\ wait.then = "hdial"
        /\ \E i \in Conns : WaitConnect(i, mishaps) /\ byHead' = byHead \cup {i}
        /\ UNCHANGED <<prog, disk, late>>
  /\ UNCHANGED <<cmds, shut, lst, kind, live, cut, bypass, ipcVars, ui, mail, tray>>

-----------------------------------------------------------------------------
\* The IPC client and the tray

ipcRest == <<prog, lst, shut, tunVars, ui, head, mail, wait>>

\* tuiIPCListener calls Receive and keeps the mutex until a message comes.
IpcLock ==
  /\ Alive /\ ipc = "free" /\ hand = "none" /\ ipc' = "recv"
  /\ UNCHANGED <<ipcRest, cmds, wire, hand, disk, late, tray, mishaps>>

\* A listener that tries again when the socket is closed.
ReceivesForever ==
  /\ Alive /\ ipc = "recv" /\ wire # <<>>
  /\ ipc' = "free" /\ hand' = Head(wire) /\ wire' = Tail(wire)
  /\ UNCHANGED <<ipcRest, cmds, disk, late, tray, mishaps>>

\* A message, or the error that ends the listener once the tray has closed.
IpcReceive ==
  /\ Alive /\ ipc = "recv"
  /\ \/ wire # <<>> /\ ipc' = "free" /\ hand' = Head(wire) /\ wire' = Tail(wire)
     \/ wire = <<>> /\ ~tray.up /\ ipc' = "end" /\ UNCHANGED <<hand, wire>>
  /\ UNCHANGED <<ipcRest, cmds, disk, late, tray, mishaps>>

\* The process ends: its memory and its tunnels go, the routes it installed stay.
\* A pkexec child outlives it and is nobody's from then on.
ProcessEnds(how) ==
  /\ prog' = how /\ live' = {} /\ cut' = {} /\ byHead' = {} /\ ui' = UiOff /\ head' = 0
  /\ conn' = [i \in Conns |-> "done"] /\ mail' = {} /\ wait' = Idle /\ cmds' = <<>>
  /\ wire' = <<>> /\ hand' = "none" /\ ipc' = "end" /\ late' = FALSE /\ lst' = FALSE
  /\ UNCHANGED <<kind, shut, bypass, disk, tray, mishaps>>

\* The command is queued if there is room; on the closed channel the send panics.
IpcQueue ==
  /\ Alive /\ hand # "none"
  /\ \/ shut /\ ProcessEnds("panicked")
     \/ /\ ~shut /\ Len(cmds) < CmdCap /\ cmds' = Append(cmds, hand) /\ hand' = "none"
        /\ UNCHANGED <<ipcRest, wire, ipc, disk, late, tray, mishaps>>
     \/ /\ ~shut /\ Len(cmds) = CmdCap /\ hand' = "none" /\ mishaps' = mishaps \cup {"stale"}
        /\ UNCHANGED <<ipcRest, cmds, wire, ipc, disk, late, tray>>

\* tuiStatusListener's Send gets the mutex; it writes the state file only
\* after that, however late that is.
StatusListener ==
  /\ Alive /\ late /\ ipc # "recv" /\ late' = FALSE /\ SetConnected(FALSE)
  /\ mishaps' = mishaps \cup (IF live # {} THEN {"stale"} ELSE {})
  /\ UNCHANGED <<ipcRest, cmds, ipcVars, tray>>

\* The deferred ipcClient.Close() needs the mutex too; then the process exits
\* and whatever still runs in it dies without its clean-up.
Exit == prog = "leaving" /\ ipc # "recv" /\ ProcessEnds("gone")

trayRest == <<progVars, tunVars, ipc, hand, ui, head, mail, wait, late, mishaps>>
Broadcast(ms) == wire' = IF Alive /\ ipc # "none" THEN wire \o ms ELSE wire
Room(n) == tray.up /\ tray.clicks < Clicks /\ Len(wire) + n <= WireCap

\* "Disconnect" in the menu.
TrayDisconnectAll ==
  /\ Room(1)
  /\ tray' = [tray EXCEPT !.clicks = @ + 1] /\ SetConnected(FALSE) /\ Broadcast(<<"disconnect">>)
  /\ UNCHANGED trayRest

\* A profile in the menu: disconnect, then connect.  The name may be one that
\* the running UI has not loaded.
TrayConnectProfile(c) ==
  /\ Room(2) /\ c \in {"connect", "unknown"}
  /\ tray' = [tray EXCEPT !.clicks = @ + 1] /\ SetConnected(FALSE)
  /\ Broadcast(<<"disconnect", c>>)
  /\ UNCHANGED trayRest

\* "Quit": quit is broadcast and every socket closed.
TrayQuit ==
  /\ tray.up /\ Len(wire) < WireCap /\ tray' = [tray EXCEPT !.up = FALSE] /\ Broadcast(<<"quit">>)
  /\ UNCHANGED <<trayRest, disk>>

-----------------------------------------------------------------------------
Steps(i) == \/ CheckFails(i) \/ PkexecStarts(i) \/ AddRoutes(i) \/ TunnelReady(i) \/ TunnelFails(i)
            \/ ReturnsNil(i) \/ Hold(i) \/ Tell(i)
UserKeys == UiEnter \/ UiQuit \/ AutoConnect
Handlers == Failed \/ WatchdogReconnect \/ IpcCommand \/ \E i \in Conns : Connected(i)
HeadLoop == Swallowed \/ HeadCommand \/ HeadSignal \/ HeadStopped
Listener == IpcLock \/ IpcReceive \/ IpcQueue
TrayMenu == TrayDisconnectAll \/ (\E c \in Commands : TrayConnectProfile(c)) \/ TrayQuit

AppNext ==
  \/ UserKeys \/ Handlers \/ StopReturns \/ EndRun \/ RunBreaks \/ SigTerm
  \/ \E i \in Conns : Steps(i) \/ Teardown(i) \/ Dies(i)
  \/ HeadLoop \/ Listener \/ StatusListener \/ Exit
  \/ TrayMenu

\* Goroutines run; the user, the tray, the network and a killed child owe nothing.
AppFairness ==
  /\ WF_vars(StopReturns) /\ WF_vars(EndRun) /\ WF_vars(HeadStopped)
  /\ WF_vars(Listener) /\ WF_vars(Exit)
  /\ \A i \in Conns : WF_vars(kind[i] = "own" /\ Teardown(i))

AppSpec == AppInit /\ [][AppNext]_vars /\ AppFairness

-----------------------------------------------------------------------------
(* As long as no command crossed an attempt, every tunnel that is up can be  *)
(* stopped: headlessStop stops it, and while the UI runs the UI holds its    *)
(* stop or is about to get it.  headlessStop is cleared by whichever stop    *)
(* runs last, connectedMsg overwrites m.stop and errMsg forgets it, so this  *)
(* is a fact about all orders of the three (tui.go:141-150,                  *)
(* model.go:2192-2214).                                                      *)
HandleKept ==
  (prog \in {"run", "headless"} /\ wait = Idle /\ "crossed" \notin mishaps) =>
    \A i \in live : conn[i] = "told" =>
      /\ head = i
      /\ prog = "run" => ui.stop = i \/ <<"ok", i>> \in mail

Quiet == /\ wait = Idle /\ mail = {} /\ cmds = <<>> /\ wire = <<>> /\ hand = "none"
         /\ ~late /\ \A i \in Conns : ~InCall(i)

(* At rest the UI, the state file and the tunnel agree, in the UI and in the *)
(* headless loop alike, until a command crosses an attempt.  The UI holds    *)
(* whatever runs.  What the UI and the file show as connected runs, unless   *)
(* it was lost since the last stop, failure or report: it ended with nobody  *)
(* waiting, it was gone when it was reported, or it was another process's    *)
(* from the start.  What runs is in the file, unless since then a command    *)
(* was lost or a late status overwrote it (tui.go:337-354).                  *)
ViewsAgree ==
  (prog \in {"run", "headless"} /\ Quiet /\ "crossed" \notin mishaps) =>
    /\ prog = "run" => live \subseteq {ui.stop} /\ (live # {} => ui.status = "connected")
    /\ "lost" \notin mishaps => (disk \/ (prog = "run" /\ ui.status = "connected") => live # {})
    /\ "stale" \notin mishaps => (live # {} => disk)

(* While a tunnel of this process is up its packets to the server have their *)
(* bypass route; only a second attempt, which removes the routes they share  *)
(* when it fails, can take it away (main_linux.go:318-340).                  *)
BypassInPlace == (\E i \in live : kind[i] = "own") /\ "crossed" \notin mishaps => bypass

(* Once the tray has closed its socket a leaving process ends: the listener's *)
(* Receive returns and lets the deferred Close have the mutex (ipc.go:78-105). *)
LeavesOnceTrayIsGone == (prog = "leaving" /\ ~tray.up) ~> (prog \in {"gone", "panicked"})

=============================================================================
