--------------------------- MODULE ClientAppProofs ---------------------------
(***************************************************************************)
(* Proofs about the Linux client process, for any number of connection     *)
(* attempts, any queue capacities and any use of the tray's menu: every    *)
(* tunnel that is up can be stopped by somebody and has its bypass route   *)
(* as long as no command crossed an attempt, and at rest the state file    *)
(* and the UI show what runs and nothing else, but for what was lost or    *)
(* overwritten since the last stop, failure or report.                     *)
(***************************************************************************)
EXTENDS ClientApp, SequenceTheorems, TLAPS

LEMMA NoAttemptZero == 0 \notin Conns
BY DEF Conns

\* What one message handled by Update comes to: it waits for a stop, it goes on
\* at once, it reports an unknown profile, or it does nothing.
UiStill == UiFree /\ UNCHANGED <<kind, live, byHead, bypass, head, disk, shut, tray, wire, ipc, hand>>
TakesCommand ==
  /\ cmds # <<>> /\ cmds' = Tail(cmds)
  /\ lst' = lst \/ (Head(cmds) = "quit" /\ lst' = FALSE)
UiWaits ==
  /\ \E k \in Afterwards : StopThen(ui.stop, k)
  /\ ui.stop # 0
  /\ mail' \in {mail, mail \ {<<"dog", 0>>}}
  /\ UNCHANGED <<ui, prog, conn, mishaps, late>>
UiGoesOn(k) ==
  /\ Continue(k, mishaps)
  /\ ui.stop = 0 \/ ui.status # "connected"
  /\ k = "quit" => (cmds' = cmds \/ Head(cmds) = "quit")
  /\ k = "toggle" => ui.status = "connected"
  /\ late' \in {late, TRUE} /\ UNCHANGED <<cut, wait>>
UiStumbles ==
  /\ mail' = mail \cup {<<"err", 0>>} /\ mishaps' = mishaps \cup {"crossed"}
  /\ UNCHANGED <<ui, prog, conn, cut, wait, late>>
UiIgnores == mail' = mail \ {<<"dog", 0>>} /\ UNCHANGED <<ui, prog, conn, cut, wait, late, mishaps, cmds>>
UiTurn == /\ UiStill
          /\ UNCHANGED <<cmds, lst>> \/ TakesCommand
          /\ UiWaits \/ (\E k \in Afterwards : UiGoesOn(k)) \/ UiStumbles \/ UiIgnores

LEMMA UiStopEffect ==
  ASSUME NEW k \in Afterwards, UiStop(k), k = "quit" => (cmds' = cmds \/ Head(cmds) = "quit"),
         k = "toggle" => ui.status = "connected", late \in BOOLEAN
  PROVE  UiWaits \/ UiGoesOn(k)
BY DEF UiStop, UiWaits, UiGoesOn

LEMMA DialEffect ==
  ASSUME ui.status # "connected", ui' = Connecting, \E i \in Conns : WaitConnect(i, mishaps),
         UNCHANGED <<prog, mail, cut, wait, late>>
  PROVE  UiGoesOn("dial")
BY DEF UiGoesOn, Continue

UiHandles == UiEnter \/ UiQuit \/ AutoConnect \/ WatchdogReconnect \/ IpcCommand

LEMMA UiTurnEffect ==
  ASSUME late \in BOOLEAN, UiHandles
  PROVE  UiTurn
<1> USE DEF UiTurn, UiStill, Afterwards
<1>1. CASE UiEnter
  BY <1>1, UiStopEffect, DialEffect DEF UiEnter, uiRest, ipcVars
<1>2. CASE UiQuit
  BY <1>2, UiStopEffect DEF UiQuit, uiRest, ipcVars
<1>3. CASE WatchdogReconnect
  BY <1>3 DEF WatchdogReconnect, UiWaits, UiIgnores, uiRest, ipcVars
<1>4. CASE IpcCommand
  <2> SUFFICES UiWaits \/ (\E k \in Afterwards : UiGoesOn(k)) \/ UiStumbles
    BY <1>4 DEF IpcCommand, TakesCommand, ipcVars
  <2>1. CASE Head(cmds) = "disconnect" BY <1>4, <2>1, UiStopEffect DEF IpcCommand
  <2>2. CASE Head(cmds) = "connect" BY <1>4, <2>2, UiStopEffect, DialEffect DEF IpcCommand, TryConnect
  <2>3. CASE Head(cmds) = "unknown" BY <1>4, <2>3 DEF IpcCommand, TryConnect, UiStumbles
  <2>4. CASE Head(cmds) = "quit" BY <1>4, <2>4, UiStopEffect DEF IpcCommand
  <2> QED BY <1>4, <2>1, <2>2, <2>3, <2>4 DEF IpcCommand
<1>5. CASE AutoConnect
  <2>1. PICK known \in BOOLEAN : TryConnect(known) BY <1>5 DEF AutoConnect
  <2>2. CASE ~known BY <1>5, <2>1, <2>2 DEF AutoConnect, TryConnect, UiStumbles, uiRest, ipcVars
  <2>3. CASE known BY <1>5, <2>1, <2>3, UiStopEffect, DialEffect DEF AutoConnect, TryConnect, uiRest, ipcVars
  <2> QED BY <2>2, <2>3
<1> QED BY <1>1, <1>2, <1>3, <1>4, <1>5 DEF UiHandles

-----------------------------------------------------------------------------
\* Types.
LEMMA DialType ==
  ASSUME AttemptType, \E i \in Conns, m \in {mishaps, Settled} : WaitConnect(i, m)
  PROVE  conn' \in [Conns -> {"new", "told", "done"} \cup Calling]
BY DEF AttemptType, Calling, WaitConnect

LEMMA UiValues == UiOff \in UiStates /\ Connecting \in UiStates
BY DEF UiStates, UiOff, Connecting

LEMMA ContinueType ==
  ASSUME ControlType, AttemptType, UiType, NEW k \in Afterwards, NEW m \in {mishaps, Settled}, Continue(k, m)
  PROVE  /\ prog' \in {prog, "quitting"} /\ UiType'
         /\ conn' \in [Conns -> {"new", "told", "done"} \cup Calling]
<1>1. CASE k = "off" BY <1>1, UiValues DEF Continue, UiType, AttemptType
<1>2. CASE k = "toggle" BY <1>2, UiValues DEF Continue, UiType, AttemptType
<1>3. CASE k = "quit" BY <1>3 DEF Continue, UiType, UiStates, AttemptType
<1>4. CASE k = "dial" BY <1>4, UiValues, DialType DEF Continue, UiType
<1> QED BY <1>1, <1>2, <1>3, <1>4 DEF Afterwards

LEMMA TailType ==
  ASSUME NEW s \in Seq(Commands), s # <<>>
  PROVE  Tail(s) \in Seq(Commands) /\ Len(Tail(s)) = Len(s) - 1 /\ Len(s) \in Nat \ {0} /\ Head(s) \in Commands
BY HeadTailProperties, LenProperties, EmptySeq DEF Commands

\* Waiting for a stop keeps the types of what it touches.
LEMMA StopThenType ==
  ASSUME AttemptType, NEW i \in {0} \cup Conns, NEW k \in Afterwards \cup HeadKinds, StopThen(i, k)
  PROVE  cut' \in SUBSET Conns /\ wait' \in Waits
BY DEF AttemptType, StopThen, Waits

LEMMA UiTurnType ==
  ASSUME AppTypeOK, UiTurn
  PROVE  AppTypeOK'
<1> USE DEF AppTypeOK, UiTurn, UiStill
<1>1. QueueType' /\ lst' \in BOOLEAN
  <2>1. lst' \in BOOLEAN BY DEF TakesCommand, ControlType
  <2>2. QueueType' BY AppBounds, TailType DEF TakesCommand, QueueType
  <2> QED BY <2>1, <2>2
<1>2. TrayType' BY DEF TrayType
<1>3. CASE UiWaits
  <2>1. ui.stop \in {0} \cup Conns BY DEF UiType, UiStates
  <2>2. WaitType' /\ AttemptType'
    BY <1>3, <2>1, StopThenType DEF UiWaits, WaitType, AttemptType
  <2>3. UiType' /\ ControlType'
    BY <1>3, <1>1 DEF UiWaits, UiType, ControlType
  <2> QED BY <1>1, <1>2, <2>2, <2>3
<1>4. ASSUME NEW k \in Afterwards, UiGoesOn(k) PROVE AppTypeOK'
  <2>1. Continue(k, mishaps) /\ late' \in {late, TRUE} /\ UNCHANGED <<cut, wait>> BY <1>4 DEF UiGoesOn
  <2>2. UiType' /\ AttemptType' /\ WaitType' BY <2>1, ContinueType DEF AttemptType, WaitType
  <2>3. ControlType' BY <2>1, <1>1, ContinueType DEF ControlType
  <2> QED BY <1>1, <1>2, <2>2, <2>3
<1>5. CASE UiStumbles
  BY <1>1, <1>2, <1>5 DEF UiStumbles, ControlType, AttemptType, UiType, WaitType
<1>6. CASE UiIgnores
  BY <1>1, <1>2, <1>6 DEF UiIgnores, ControlType, AttemptType, UiType, WaitType
<1> QED BY <1>3, <1>4, <1>5, <1>6

LEMMA AppTypeInit == AppInit => AppTypeOK
<1> SUFFICES ASSUME AppInit PROVE AppTypeOK
  OBVIOUS
<1> USE DEF AppInit, NewModel, ModelInit, IpcInit, InitState
<1>1. ControlType BY DEF ControlType
<1>2. AttemptType BY DEF AttemptType, Calling
<1>3. UiType
  <2>1. ui = UiOff \/ ui = [status |-> "connected", active |-> TRUE, stop |-> 0]
    BY DEF UiOff
  <2>2. [status |-> "connected", active |-> TRUE, stop |-> 0] \in UiStates BY DEF UiStates
  <2>3. ui \in UiStates BY <2>1, <2>2, UiValues
  <2> QED BY <2>3 DEF UiType
<1>4. WaitType BY DEF WaitType, Waits, Idle
<1>5. QueueType BY AppBounds, EmptySeq DEF QueueType, Commands
<1>6. TrayType BY AppBounds DEF TrayType
<1> QED BY <1>1, <1>2, <1>3, <1>4, <1>5, <1>6 DEF AppTypeOK

\* A step of an attempt: the state file, the mail and headlessStop may change.
LEMMA AttemptTypeStep ==
  ASSUME AppTypeOK, NEW i \in Conns, Steps(i) \/ Teardown(i) \/ Dies(i)
  PROVE  AppTypeOK'
<1> USE DEF AppTypeOK, connRest, ipcVars
<1>1. UNCHANGED connRest
  BY DEF Steps, CheckFails, PkexecStarts, AddRoutes, TunnelReady, TunnelFails, ReturnsNil, Hold, Tell, Teardown, Dies, Down
<1>5. QueueType' /\ TrayType'
  BY <1>1 DEF QueueType, TrayType
<1>6. ControlType'
  <2>1. disk' \in {disk, TRUE, FALSE} /\ bypass' \in {bypass, TRUE, FALSE}
    BY DEF Steps, CheckFails, PkexecStarts, AddRoutes, TunnelReady, TunnelFails, ReturnsNil, Hold, Tell, Teardown, Dies, Down, Fails,
           SetConnected, AddBypass, DelBypass
  <2> QED BY <1>1, <2>1 DEF ControlType
<1>2. WaitType'
  <2>1. UNCHANGED wait /\ head' \in {head, 0, i}
    BY DEF StopOf, Steps, CheckFails, PkexecStarts, AddRoutes, TunnelReady, TunnelFails, ReturnsNil, Hold, Tell, Teardown, Dies, Down
  <2> QED BY <2>1 DEF WaitType
<1>3. UiType'
  <2>1. mail' \in {mail, mail \cup {}, mail \cup {<<"err", 0>>}, mail \cup {<<"ok", i>>}, mail \cup {<<"dog", 0>>}}
    BY DEF Steps, CheckFails, PkexecStarts, AddRoutes, TunnelReady, TunnelFails, ReturnsNil, Hold, Tell, Teardown, Dies, Down, Fails
  <2> QED BY <1>1, <2>1 DEF UiType
<1>4. AttemptType'
  <2>1. /\ \E c \in {"done", "routes", "up", "held", "told"} : conn' \in {conn, [conn EXCEPT ![i] = c]}
        /\ \E c \in {"own", "child", "nil"} : kind' \in {kind, [kind EXCEPT ![i] = c]}
    BY DEF Steps, CheckFails, PkexecStarts, AddRoutes, TunnelReady, TunnelFails, ReturnsNil, Hold, Tell, Teardown, Dies, Down, Fails
  <2>2. conn' \in [Conns -> {"new", "told", "done"} \cup Calling] /\ kind' \in [Conns -> {"own", "child", "nil"}]
    BY <2>1 DEF AttemptType, Calling
  <2>3. live' \in SUBSET Conns /\ cut' \in SUBSET Conns /\ byHead' \in SUBSET Conns
    BY DEF Steps, CheckFails, PkexecStarts, AddRoutes, TunnelReady, TunnelFails, ReturnsNil, Hold, Tell, Teardown, Dies, Down, AttemptType
  <2> QED BY <2>2, <2>3 DEF AttemptType
<1> QED BY <1>2, <1>3, <1>4, <1>5, <1>6

LEMMA HeadTypeStep ==
  ASSUME AppTypeOK, HeadLoop
  PROVE  AppTypeOK'
<1> USE DEF AppTypeOK, progVars, tunVars, ipcVars
<1>1. CASE Swallowed
  <2>1. QueueType' BY <1>1, TailType, AppBounds DEF Swallowed, QueueType
  <2> QED BY <1>1, <2>1 DEF Swallowed, ControlType, AttemptType, UiType, WaitType, TrayType
<1>2. CASE HeadCommand \/ HeadSignal
  <2>1. (\E k \in HeadKinds : HeadStop(k)) \/ UNCHANGED <<cut, wait>>
    BY <1>2 DEF HeadCommand, HeadSignal, HeadKinds
  <2>2. cut' \in SUBSET Conns /\ wait' \in Waits
    BY <2>1, StopThenType DEF HeadStop, WaitType, AttemptType, Waits
  <2>3. QueueType'
    BY <1>2, TailType, AppBounds DEF HeadCommand, HeadSignal, QueueType
  <2> QED BY <1>2, <2>2, <2>3 DEF HeadCommand, HeadSignal, ControlType, AttemptType, UiType, WaitType, TrayType
<1>3. CASE HeadStopped
  <2>1. AttemptType'
    BY <1>3, DialType DEF HeadStopped, AttemptType
  <2>2. ControlType'
    BY <1>3 DEF HeadStopped, SetConnected, ControlType
  <2>3. WaitType' BY <1>3 DEF HeadStopped, WaitType, Waits, Idle
  <2> QED BY <1>3, <2>1, <2>2, <2>3 DEF HeadStopped, UiType, QueueType, TrayType
<1> QED BY <1>1, <1>2, <1>3 DEF HeadLoop

\* The IPC goroutines and the tray leave the UI and the attempts alone.
coreVars == <<prog, shut, lst, conn, kind, live, cut, byHead, bypass, ui, head, mail, wait>>
Outside == /\ UNCHANGED coreVars /\ mishaps' \in {mishaps, mishaps \cup {"stale"}}
           /\ disk' \in {disk, FALSE} /\ late' \in {late, FALSE}

EndsProcess == ProcessEnds("gone") \/ ProcessEnds("panicked")

Outsiders == IpcLock \/ IpcReceive \/ IpcQueue \/ StatusListener \/ TrayMenu

LEMMA OutsideEffect ==
  ASSUME Outsiders
  PROVE  Outside \/ EndsProcess
<1> USE DEF Outside, EndsProcess, coreVars, ipcRest, trayRest, tunVars, progVars
<1>1. CASE IpcLock BY <1>1 DEF IpcLock
<1>2. CASE IpcReceive BY <1>2 DEF IpcReceive
<1>3. CASE IpcQueue BY <1>3 DEF IpcQueue
<1>4. CASE StatusListener BY <1>4 DEF StatusListener, SetConnected
<1>5. CASE TrayMenu
  BY <1>5 DEF TrayMenu, TrayDisconnectAll, TrayConnectProfile, TrayQuit, SetConnected
<1> QED BY <1>1, <1>2, <1>3, <1>4, <1>5 DEF Outsiders

LEMMA ProcessEndsType ==
  ASSUME AppTypeOK, EndsProcess
  PROVE  AppTypeOK'
<1> USE DEF AppTypeOK, EndsProcess, ProcessEnds
<1>1. ControlType' BY DEF ControlType
<1>2. AttemptType' BY DEF AttemptType
<1>3. UiType' BY UiValues DEF UiType
<1>4. WaitType' BY DEF WaitType, Waits, Idle
<1>5. QueueType'
  <2>1. cmds' = <<>> /\ wire' = <<>> /\ hand' = "none" /\ ipc' = "end" OBVIOUS
  <2> QED BY <2>1, AppBounds, EmptySeq DEF QueueType
<1>6. TrayType' BY DEF TrayType
<1> QED BY <1>1, <1>2, <1>3, <1>4, <1>5, <1>6

\* Up to two messages appended to the socket.
LEMMA BroadcastType ==
  ASSUME QueueType, NEW ms \in Seq(Commands), Len(wire) + Len(ms) <= WireCap, Broadcast(ms)
  PROVE  wire' \in Seq(Commands) /\ Len(wire') <= WireCap
BY ConcatProperties, LenProperties, AppBounds DEF QueueType, Broadcast

LEMMA MessagesType ==
  /\ <<"disconnect">> \in Seq(Commands) /\ Len(<<"disconnect">>) = 1
  /\ <<"quit">> \in Seq(Commands) /\ Len(<<"quit">>) = 1
  /\ \A c \in Commands : <<"disconnect", c>> \in Seq(Commands) /\ Len(<<"disconnect", c>>) = 2
BY DEF Commands

LEMMA OutsidersType ==
  ASSUME AppTypeOK, Outsiders
  PROVE  AppTypeOK'
<1> USE DEF AppTypeOK
<1>1. CASE EndsProcess BY <1>1, ProcessEndsType
<1>2. CASE Outside /\ ~EndsProcess
  <2>1. ControlType' /\ AttemptType' /\ UiType' /\ WaitType'
    BY <1>2 DEF Outside, coreVars, ControlType, AttemptType, UiType, WaitType
  <2>2. QueueType' /\ TrayType'
    <3>1. CASE IpcLock BY <3>1 DEF IpcLock, QueueType, TrayType
    <3>2. CASE IpcReceive 
      <4>1. UNCHANGED <<cmds, tray>> BY <3>2 DEF IpcReceive
      <4>2. CASE wire # <<>> /\ ipc' = "free" /\ hand' = Head(wire) /\ wire' = Tail(wire)
        BY <4>1, <4>2, TailType, AppBounds DEF QueueType, TrayType
      <4>3. CASE ipc' = "end" /\ UNCHANGED <<hand, wire>>
        BY <4>1, <4>3 DEF QueueType, TrayType
      <4> QED BY <3>2, <4>2, <4>3 DEF IpcReceive
    <3>3. CASE IpcQueue
      <4>1. ~(shut /\ ProcessEnds("panicked")) BY <1>2 DEF EndsProcess
      <4>2. UNCHANGED <<wire, ipc, tray>> /\ hand' = "none" BY <3>3, <4>1 DEF IpcQueue
      <4>3. cmds' \in Seq(Commands) /\ Len(cmds') <= CmdCap
        <5>1. CASE cmds' = cmds BY <5>1 DEF QueueType
        <5>2. CASE cmds' # cmds
          <6>1. hand \in Commands /\ Len(cmds) < CmdCap /\ cmds' = Append(cmds, hand)
            BY <3>3, <4>1, <5>2 DEF IpcQueue, QueueType
          <6> QED BY <6>1, AppendProperties, LenProperties, AppBounds DEF QueueType
        <5> QED BY <5>1, <5>2
      <4> QED BY <4>2, <4>3 DEF QueueType, TrayType
    <3>4. CASE StatusListener BY <3>4 DEF StatusListener, ipcVars, QueueType, TrayType
    <3>5. CASE TrayDisconnectAll
      <4>1. Len(wire) + 1 <= WireCap /\ tray.clicks + 1 <= Clicks
        BY <3>5, LenProperties, AppBounds DEF TrayDisconnectAll, Room, QueueType, TrayType
      <4>2. QueueType' BY <3>5, <4>1, BroadcastType, MessagesType DEF TrayDisconnectAll, trayRest, progVars, QueueType
      <4>3. TrayType' BY <3>5, <4>1, AppBounds DEF TrayDisconnectAll, TrayType
      <4> QED BY <4>2, <4>3
    <3>6. ASSUME NEW c \in Commands, TrayConnectProfile(c) PROVE QueueType' /\ TrayType'
      <4>1. Len(wire) + 2 <= WireCap /\ tray.clicks + 1 <= Clicks
        BY <3>6, LenProperties, AppBounds DEF TrayConnectProfile, Room, QueueType, TrayType
      <4>2. QueueType' BY <3>6, <4>1, BroadcastType, MessagesType DEF TrayConnectProfile, trayRest, progVars, QueueType
      <4>3. TrayType' BY <3>6, <4>1, AppBounds DEF TrayConnectProfile, TrayType
      <4> QED BY <4>2, <4>3
    <3>7. CASE TrayQuit
      <4>1. Len(wire) + 1 <= WireCap BY <3>7, LenProperties, AppBounds DEF TrayQuit, QueueType
      <4>2. QueueType' BY <3>7, <4>1, BroadcastType, MessagesType DEF TrayQuit, trayRest, progVars, QueueType
      <4> QED BY <3>7, <4>2 DEF TrayQuit, TrayType
    <3> QED BY <3>1, <3>2, <3>3, <3>4, <3>5, <3>6, <3>7 DEF Outsiders, TrayMenu
  <2> QED BY <2>1, <2>2
<1> QED BY <1>1, <1>2, OutsideEffect

LEMMA AppTypeStep ==
  ASSUME AppTypeOK, [AppNext]_vars
  PROVE  AppTypeOK'
<1>0. late \in BOOLEAN BY DEF AppTypeOK, ControlType
<1>1. CASE UiHandles
  BY <1>0, <1>1, UiTurnEffect, UiTurnType
<1>2. CASE Failed
  BY <1>2, UiValues DEF AppTypeOK, Failed, uiRest, ipcVars, ControlType, AttemptType, UiType, WaitType, QueueType, TrayType
<1>3. ASSUME NEW i \in Conns, Connected(i) PROVE AppTypeOK'
  <2>1. UiType' BY <1>3 DEF AppTypeOK, Connected, UiType, UiStates
  <2> QED BY <1>3, <2>1 DEF AppTypeOK, Connected, uiRest, ipcVars, ControlType, AttemptType, WaitType, QueueType, TrayType
<1>4. CASE StopReturns
  <2>1. wait.then \in Afterwards /\ Continue(wait.then, Settled)
    BY <1>4 DEF StopReturns, Continue, Afterwards
  <2>2. UiType' /\ prog' \in {prog, "quitting"} /\ conn' \in [Conns -> {"new", "told", "done"} \cup Calling]
    BY <2>1, ContinueType DEF AppTypeOK
  <2>3. WaitType' BY <1>4 DEF StopReturns, WaitType, Waits, Idle
  <2>4. ControlType' BY <1>4, <2>2 DEF StopReturns, SetConnected, AppTypeOK, ControlType
  <2> QED BY <1>4, <2>2, <2>3, <2>4 DEF AppTypeOK, StopReturns, ipcVars, AttemptType, QueueType, TrayType
<1>5. CASE EndRun \/ RunBreaks
  BY <1>5, UiValues DEF AppTypeOK, EndRun, RunBreaks, tunVars, ipcVars, ControlType, AttemptType, UiType, WaitType, QueueType, TrayType
<1>6. CASE SigTerm
  BY <1>6 DEF AppTypeOK, SigTerm, ipcVars, ControlType, AttemptType, UiType, WaitType, QueueType, TrayType
<1>7. ASSUME NEW i \in Conns, Steps(i) \/ Teardown(i) \/ Dies(i) PROVE AppTypeOK'
  BY <1>7, AttemptTypeStep
<1>8. CASE HeadLoop BY <1>8, HeadTypeStep
<1>9. CASE Outsiders BY <1>9, OutsidersType
<1>10. CASE Exit BY <1>10, ProcessEndsType DEF Exit, EndsProcess
<1>11. CASE UNCHANGED vars
  BY <1>11 DEF vars, progVars, tunVars, ipcVars, AppTypeOK, ControlType, AttemptType, UiType, WaitType, QueueType, TrayType
<1> QED
  BY <1>1, <1>2, <1>3, <1>4, <1>5, <1>6, <1>7, <1>8, <1>9, <1>10, <1>11
  DEF AppNext, UserKeys, Handlers, UiHandles, Listener, Outsiders

\* Every variable keeps its type, the queues their bounds (ipcCommandCh is never
\* overfilled), whatever the user, the tray and the network do.
THEOREM AppTypeCorrect == AppSpec => []AppTypeOK
BY AppTypeInit, AppTypeStep, PTL DEF AppSpec
-----------------------------------------------------------------------------
\* Who may be waiting, who owns what, what runs and what a stop ends.
WaitsForUi == wait.then \in Afterwards
Turns ==
  /\ prog \in {"run", "quitting"} => byHead = {}
  /\ prog \notin {"run", "quitting"} => mail = {}
  /\ WaitsForUi => prog = "run" /\ wait.conn = ui.stop /\ ui.stop # 0
  /\ wait.then \in HeadKinds => prog = "headless" /\ wait.conn = head
  /\ wait.then = "none" => wait = Idle
  /\ prog = "run" /\ ui.stop # 0 => ui.status = "connected"
  /\ \A i \in live : conn[i] \in {"up", "held", "told"} /\ kind[i] # "nil"
  /\ \A i \in Conns : conn[i] \in {"new", "check", "routes"} => kind[i] = "own"
  /\ \A i \in Conns : <<"ok", i>> \in mail => conn[i] = "told"
  /\ head # 0 => conn[head] \in {"held", "told"}

\* Attempt i is in its call, or its success is on its way to Update.
Answers(i) == InCall(i) \/ <<"ok", i>> \in mail

\* As long as nothing crossed an attempt, one attempt at a time answers, nothing
\* else runs meanwhile, and the routes stand from AddRoutes on.
OneAtATime ==
  /\ \A i, j \in Conns : Answers(i) /\ Answers(j) => i = j
  /\ \A i \in Conns : Answers(i) => live \subseteq {i}
  /\ \A i, j \in live : i = j
  /\ <<"err", 0>> \in mail => live = {} /\ \A i \in Conns : ~Answers(i)
  /\ prog = "run" => (ui.status = "connecting" <=> Overlaps)
  /\ prog = "run" /\ ui.status = "off" => live = {}
  /\ prog = "run" /\ ui.status = "connected" => live \subseteq {ui.stop}
  /\ \A i \in live : conn[i] # "up" => head = i
  /\ \A i \in Conns : conn[i] = "routes" => bypass
  /\ (\E i \in live : kind[i] = "own") => bypass

AppIInv == Turns /\ ("crossed" \notin mishaps => OneAtATime)

\* What was crossed stays crossed.
Crossings == "crossed" \in mishaps => "crossed" \in mishaps'

LEMMA AppIInvInit == AppInit => AppIInv
<1> SUFFICES ASSUME AppInit PROVE AppIInv
  OBVIOUS
<1>1. ui.stop = 0 /\ ui.status \in {"off", "connected"} BY DEF AppInit, NewModel
<1> QED BY <1>1 DEF AppInit, NewModel, ModelInit, IpcInit, InitState, UiOff, Idle, AppIInv, Turns, WaitsForUi, Afterwards,
       HeadKinds, OneAtATime, Overlaps, Answers, InCall, Calling

LEMMA OverlapsMeans == Overlaps <=> (<<"err", 0>> \in mail \/ \E i \in Conns : Answers(i))
BY DEF Overlaps, Answers

\* A new attempt starts: without crossing anything only when nothing is up.
LEMMA DialKeeps ==
  ASSUME AppTypeOK, AppIInv, NEW i \in Conns, NEW m \in {mishaps, Settled}, WaitConnect(i, m),
         "crossed" \notin mishaps' => live = {},
         UNCHANGED <<kind, live, bypass, mail>>, wait' = Idle, head' \in {head, 0},
         \/ prog = "run" /\ prog' = "run" /\ ui' = Connecting /\ byHead' = byHead
         \/ prog = "headless" /\ prog' = "headless"
  PROVE  AppIInv'
<1>1. /\ conn[i] = "new" /\ conn' = [conn EXCEPT ![i] = "check"]
      /\ \A j \in Conns : j # i => conn'[j] = conn[j]
      /\ conn'[i] = "check"
  BY DEF WaitConnect, Fresh, AppTypeOK, AttemptType
<1>2. Turns'
  BY <1>1, NoAttemptZero DEF AppIInv, Turns, AppTypeOK, AttemptType, WaitType, WaitsForUi, Idle, Afterwards, HeadKinds, Connecting
<1>3. ASSUME "crossed" \notin mishaps' PROVE OneAtATime'
  <2>1. ~Overlaps /\ "crossed" \notin mishaps /\ live = {} BY <1>3 DEF WaitConnect, Crossed, Settled
  <2>7. \A j \in Conns : ~Answers(j) BY <2>1, OverlapsMeans
  <2>2. \A j \in Conns : ~Answers(j) /\ (Answers(j)' => j = i)
    <3> SUFFICES ASSUME NEW j \in Conns, j # i PROVE ~Answers(j)'
      BY <2>7
    <3>1. ~Answers(j) /\ conn'[j] = conn[j] /\ mail' = mail BY <1>1, <2>7
    <3> QED BY <3>1 DEF Answers, InCall
  <2>3. Answers(i)' BY <1>1 DEF Answers, InCall, Calling
  <2>4. <<"err", 0>> \notin mail' BY <2>1 DEF Overlaps
  <2>5. Overlaps' BY <2>3 DEF Overlaps, Answers
  <2>6. \A j \in Conns : conn'[j] # "routes"
    BY <1>1, <2>2 DEF Answers, InCall, Calling
  <2> QED BY <2>1, <2>2, <2>4, <2>5, <2>6 DEF OneAtATime, Connecting
<1> QED BY <1>2, <1>3 DEF AppIInv

LEMMA UiTurnKeeps ==
  ASSUME AppTypeOK, AppIInv, UiTurn
  PROVE  AppIInv'
<1> USE DEF UiTurn, UiStill, UiFree
<1>1. mail' \in {mail, mail \ {<<"dog", 0>>}, mail \cup {<<"err", 0>>}} BY DEF UiWaits, UiGoesOn, UiStumbles, UiIgnores, Continue
<1>2. CASE UNCHANGED <<ui, prog, conn, mishaps>> /\ mail' \in {mail, mail \ {<<"dog", 0>>}} /\ (wait' = wait \/ UiWaits)
  <2>1. /\ \A i \in Conns : (<<"ok", i>> \in mail' <=> <<"ok", i>> \in mail)
        /\ (<<"err", 0>> \in mail' <=> <<"err", 0>> \in mail)
        /\ \A i \in Conns : (InCall(i)' <=> InCall(i))
    BY <1>2 DEF InCall
  <2>2. (Overlaps' <=> Overlaps) /\ \A i \in Conns : (Answers(i)' <=> Answers(i))
    BY <2>1 DEF Overlaps, Answers
  <2>3. Turns'
    <3>1. CASE wait' = wait BY <1>2, <2>1, <3>1 DEF AppIInv, Turns, WaitsForUi
    <3>2. CASE UiWaits
      <4>1. PICK k \in Afterwards : wait' = [conn |-> ui.stop, then |-> k] BY <3>2 DEF UiWaits, StopThen
      <4>2. wait'.then \in Afterwards /\ wait'.then \notin HeadKinds /\ wait'.then # "none" /\ wait'.conn = ui.stop
        BY <4>1 DEF Afterwards, HeadKinds
      <4>3. ui.stop # 0 BY <3>2 DEF UiWaits
      <4> QED BY <1>2, <2>1, <4>2, <4>3 DEF AppIInv, Turns, WaitsForUi
    <3> QED BY <1>2, <3>1, <3>2
  <2>4. ASSUME OneAtATime PROVE OneAtATime'
    BY <1>2, <2>1, <2>2, <2>4 DEF OneAtATime
  <2> QED BY <1>2, <2>3, <2>4 DEF AppIInv
<1>3. CASE UiStumbles
  <2>1. Turns' BY <1>3 DEF UiStumbles, AppIInv, Turns, WaitsForUi
  <2> QED BY <1>3, <2>1 DEF UiStumbles, AppIInv
<1>4. ASSUME NEW k \in Afterwards, UiGoesOn(k) PROVE AppIInv'
  <2>1. wait' = Idle /\ Continue(k, mishaps) /\ ui.stop = 0
    BY <1>4 DEF UiGoesOn, AppIInv, Turns
  <2>2. CASE k = "dial"
    <3>1. PICK i \in Conns : WaitConnect(i, mishaps) BY <2>1, <2>2 DEF Continue
    <3>2. "crossed" \notin mishaps' => live = {}
      <4> SUFFICES ASSUME "crossed" \notin mishaps' PROVE live = {}
        OBVIOUS
      <4>1. ~Overlaps /\ "crossed" \notin mishaps BY <3>1 DEF WaitConnect, Crossed
      <4>2. OneAtATime /\ ui.status \in {"off", "connected"}
        BY <4>1 DEF AppIInv, OneAtATime, AppTypeOK, UiType, UiStates
      <4>3. live \subseteq {0} BY <2>1, <4>2 DEF OneAtATime
      <4> QED BY <4>3, NoAttemptZero DEF AppTypeOK, AttemptType
    <3>3. ui' = Connecting /\ UNCHANGED <<prog, mail>> BY <2>1, <2>2 DEF Continue
    <3> QED BY <2>1, <3>1, <3>2, <3>3, DialKeeps
  <2>3. CASE k # "dial"
    <3>1. UNCHANGED <<conn, mail>> BY <2>1, <2>3 DEF Continue
    <3>2. (Overlaps' <=> Overlaps) /\ \A i \in Conns : (Answers(i)' <=> Answers(i))
      BY <3>1 DEF Overlaps, Answers, InCall
    <3>3. /\ prog' = "run" => ui' = UiOff
          /\ prog' \in {"run", "quitting"} /\ Crossings
      BY <2>1, <2>3 DEF Continue, Crossed, Crossings
    <3>4. Turns'
      BY <2>1, <3>1, <3>3 DEF AppIInv, Turns, WaitsForUi, Idle, Afterwards, HeadKinds, UiOff
    <3>5. ASSUME "crossed" \notin mishaps' PROVE OneAtATime'
      <4>1. "crossed" \notin mishaps /\ OneAtATime BY <3>3, <3>5 DEF AppIInv, Crossings
      <4>2. prog' = "run" => ~Overlaps
        <5>1. CASE k = "off" BY <2>1, <3>5, <5>1 DEF Continue, Crossed
        <5>2. CASE k = "toggle" BY <1>4, <4>1, <5>2 DEF UiGoesOn, OneAtATime
        <5>3. CASE k = "quit" BY <2>1, <5>3 DEF Continue
        <5> QED BY <2>3, <5>1, <5>2, <5>3 DEF Afterwards
      <4>3. prog' = "run" => live = {}
        BY <2>1, <4>1, <4>2, NoAttemptZero DEF OneAtATime, AppTypeOK, UiType, UiStates, AttemptType
      <4> QED BY <3>1, <3>2, <3>3, <4>1, <4>2, <4>3 DEF OneAtATime, UiOff
    <3> QED BY <3>4, <3>5 DEF AppIInv
  <2> QED BY <2>2, <2>3
<1> QED BY <1>2, <1>3, <1>4 DEF UiWaits, UiIgnores

LEMMA ConnectedKeeps ==
  ASSUME AppTypeOK, AppIInv, NEW i \in Conns, Connected(i)
  PROVE  AppIInv'
<1> USE DEF Connected, UiFree, uiRest
<1>1. /\ \A j \in Conns : <<"ok", j>> \in mail' <=> <<"ok", j>> \in mail /\ j # i
      /\ <<"err", 0>> \in mail' <=> <<"err", 0>> \in mail
  OBVIOUS
<1>2. ui'.status = "connected" /\ ui'.stop = i /\ i # 0
  BY NoAttemptZero DEF AppTypeOK, UiType, UiStates
<1>3. Turns' BY <1>1, <1>2 DEF AppIInv, Turns, WaitsForUi, Idle, Afterwards
<1>4. ASSUME OneAtATime PROVE OneAtATime'
  <2>1. Answers(i) BY DEF Answers
  <2>2. \A j \in Conns : Answers(j)' => Answers(j) BY <1>1 DEF Answers, InCall
  <2>5. ~Answers(i)'
    <3>1. conn'[i] = "told" /\ <<"ok", i>> \notin mail' BY <1>1 DEF AppIInv, Turns
    <3> QED BY <3>1 DEF Answers, InCall, Calling
  <2>3. \A j \in Conns : ~Answers(j)' BY <1>4, <2>1, <2>2, <2>5 DEF OneAtATime
  <2>4. ~Overlaps' BY <2>1, <2>3, <1>1, <1>4, OverlapsMeans DEF Overlaps, Answers, OneAtATime
  <2> QED BY <1>1, <1>2, <1>4, <2>1, <2>3, <2>4 DEF OneAtATime
<1> QED BY <1>3, <1>4 DEF AppIInv

LEMMA FailedKeeps ==
  ASSUME AppTypeOK, AppIInv, Failed
  PROVE  AppIInv'
<1> USE DEF Failed, UiFree, uiRest
<1>1. /\ \A j \in Conns : <<"ok", j>> \in mail' <=> <<"ok", j>> \in mail
      /\ <<"err", 0>> \notin mail'
  OBVIOUS
<1>2. Turns' BY <1>1 DEF AppIInv, Turns, WaitsForUi, Idle, Afterwards, UiOff
<1>3. ASSUME OneAtATime PROVE OneAtATime'
  <2>3. \A j \in Conns : ~Answers(j) BY <1>3 DEF OneAtATime
  <2>1. \A j \in Conns : ~Answers(j)'
    <3> SUFFICES ASSUME NEW j \in Conns PROVE ~Answers(j)'
      OBVIOUS
    <3>1. ~Answers(j) /\ conn' = conn /\ (<<"ok", j>> \in mail' <=> <<"ok", j>> \in mail) BY <1>1, <2>3
    <3> QED BY <3>1 DEF Answers, InCall
  <2>2. ~Overlaps' BY <1>1, <2>1 DEF Overlaps, Answers
  <2> QED BY <1>1, <1>3, <2>1, <2>2 DEF OneAtATime, UiOff
<1> QED BY <1>2, <1>3 DEF AppIInv

\* When the stop the UI waited for has returned, nothing is up.
LEMMA StopReturnsKeeps ==
  ASSUME AppTypeOK, AppIInv, StopReturns
  PROVE  AppIInv'
<1>1. /\ WaitsForUi /\ Continue(wait.then, Settled) /\ wait.conn \notin live /\ head' = 0 /\ wait' = Idle
      /\ UNCHANGED <<kind, live, byHead, bypass>>
  BY DEF StopReturns, Continue, WaitsForUi, Afterwards
<1>2. prog = "run" /\ ui.status = "connected" /\ wait.conn = ui.stop BY <1>1 DEF AppIInv, Turns
<1>3. OneAtATime => live = {} /\ ~Overlaps BY <1>1, <1>2 DEF OneAtATime
<1>4. CASE wait.then = "dial"
  <2>1. PICK i \in Conns : WaitConnect(i, Settled) BY <1>1, <1>4 DEF Continue
  <2>2. "crossed" \notin mishaps' => live = {} BY <1>3, <2>1 DEF WaitConnect, Crossed, Settled, AppIInv
  <2>3. ui' = Connecting /\ UNCHANGED <<prog, mail>> BY <1>1, <1>4 DEF Continue
  <2> QED BY <1>1, <1>2, <2>1, <2>2, <2>3, DialKeeps
<1>5. CASE wait.then # "dial"
  <2>1. UNCHANGED <<conn, mail>> BY <1>1, <1>5 DEF Continue
  <2>2. (Overlaps' <=> Overlaps) /\ \A i \in Conns : (Answers(i)' <=> Answers(i))
    BY <2>1 DEF Overlaps, Answers, InCall
  <2>3. /\ prog' = "run" => ui' = UiOff
        /\ prog' \in {"run", "quitting"} /\ Crossings
    BY <1>1, <1>2, <1>5 DEF Continue, Crossed, Crossings, Settled
  <2>4. Turns'
    BY <1>1, <1>2, <2>1, <2>3 DEF AppIInv, Turns, WaitsForUi, Idle, Afterwards, HeadKinds, UiOff
  <2>5. OneAtATime => OneAtATime'
    BY <1>1, <1>3, <2>1, <2>2, <2>3 DEF OneAtATime, UiOff
  <2> QED BY <2>3, <2>4, <2>5 DEF AppIInv, Crossings
<1> QED BY <1>4, <1>5

LEMMA UiLeavesKeeps ==
  ASSUME AppTypeOK, AppIInv, EndRun \/ RunBreaks \/ SigTerm
  PROVE  AppIInv'
<1>1. /\ \A j \in Conns : Answers(j)' => Answers(j)
      /\ \A j \in Conns : <<"ok", j>> \in mail' => <<"ok", j>> \in mail
      /\ <<"err", 0>> \in mail' => <<"err", 0>> \in mail
  BY DEF EndRun, RunBreaks, SigTerm, Answers, InCall, tunVars
<1>2. prog' # "run" /\ UNCHANGED <<mishaps, conn, kind, live, byHead, bypass, head, wait>>
  BY DEF EndRun, RunBreaks, SigTerm, tunVars
<1>3. ~WaitsForUi /\ wait.then \notin HeadKinds /\ (prog' \in {"run", "quitting"} => byHead = {})
      /\ (prog' \notin {"run", "quitting"} => mail' = {})
  BY DEF EndRun, RunBreaks, SigTerm, UiFree, AppIInv, Turns, Idle, WaitsForUi, Afterwards, HeadKinds
<1>4. Turns' BY <1>1, <1>2, <1>3 DEF AppIInv, Turns, WaitsForUi
<1>5. OneAtATime => OneAtATime' BY <1>1, <1>2 DEF OneAtATime
<1> QED BY <1>2, <1>4, <1>5 DEF AppIInv

LEMMA ProcessEndsKeeps ==
  ASSUME EndsProcess
  PROVE  AppIInv'
<1>1. /\ prog' \in {"gone", "panicked"} /\ live' = {} /\ byHead' = {} /\ mail' = {} /\ wait' = Idle /\ head' = 0
      /\ \A i \in Conns : conn'[i] = "done"
  BY DEF EndsProcess, ProcessEnds
<1>2. \A i \in Conns : ~Answers(i)' BY <1>1 DEF Answers, InCall, Calling
<1> QED BY <1>1, <1>2 DEF AppIInv, Turns, WaitsForUi, Idle, Afterwards, HeadKinds, OneAtATime

LEMMA CoreStillKeeps ==
  ASSUME AppIInv, UNCHANGED <<prog, conn, kind, live, byHead, bypass, ui, head, mail, wait>>, Crossings
  PROVE  AppIInv'
<1>1. (Overlaps' <=> Overlaps) /\ \A i \in Conns : (Answers(i)' <=> Answers(i))
  BY DEF Overlaps, Answers, InCall
<1>2. Turns' BY DEF AppIInv, Turns, WaitsForUi
<1>3. OneAtATime => OneAtATime' BY <1>1 DEF OneAtATime
<1> QED BY <1>2, <1>3 DEF AppIInv, Crossings

\* The headless loop asks for a stop; what it waits for is what headlessStop stops.
LEMMA HeadAsksKeeps ==
  ASSUME AppTypeOK, AppIInv, HeadCommand \/ HeadSignal
  PROVE  AppIInv'
<1>1. /\ prog = "headless" /\ wait = Idle
      /\ UNCHANGED <<prog, conn, kind, live, byHead, bypass, ui, head, mail, mishaps>>
  BY DEF HeadCommand, HeadSignal, headFree, progVars
<1>2. CASE wait' = wait BY <1>1, <1>2, CoreStillKeeps DEF Crossings
<1>3. CASE wait' # wait
  <2>1. PICK k \in HeadKinds : HeadStop(k) BY <1>3 DEF HeadCommand, HeadSignal, HeadKinds
  <2>2. wait' = [conn |-> head, then |-> k] BY <2>1 DEF HeadStop, StopThen
  <2>3. wait'.then \notin Afterwards /\ wait'.then # "none" /\ wait'.conn = head
    BY <2>2 DEF HeadKinds, Afterwards
  <2>4. (Overlaps' <=> Overlaps) /\ \A i \in Conns : (Answers(i)' <=> Answers(i))
    BY <1>1 DEF Overlaps, Answers, InCall
  <2>5. Turns' BY <1>1, <2>3 DEF AppIInv, Turns, WaitsForUi
  <2>6. OneAtATime => OneAtATime' BY <1>1, <2>4 DEF OneAtATime
  <2> QED BY <1>1, <2>5, <2>6 DEF AppIInv
<1> QED BY <1>2, <1>3

LEMMA HeadStoppedKeeps ==
  ASSUME AppTypeOK, AppIInv, HeadStopped
  PROVE  AppIInv'
<1>1. /\ prog = "headless" /\ wait.conn = head /\ wait.conn \notin live /\ head' = 0 /\ wait' = Idle
      /\ UNCHANGED <<kind, live, bypass, ui, mail>> /\ prog' \in {"headless", "leaving"}
  BY DEF HeadStopped, AppIInv, Turns
<1>2. OneAtATime => \A i \in live : conn[i] = "up"
  BY <1>1 DEF OneAtATime, AppIInv, Turns
<1>3. CASE wait.then = "hdial"
  <2>1. PICK i \in Conns : WaitConnect(i, mishaps) BY <1>3 DEF HeadStopped
  <2>2. prog' = "headless" BY <1>1, <1>3 DEF HeadStopped
  <2>3. "crossed" \notin mishaps' => live = {}
    <3> SUFFICES ASSUME "crossed" \notin mishaps', live # {} PROVE FALSE
      OBVIOUS
    <3>1. PICK j \in live : TRUE OBVIOUS
    <3>2. ~Overlaps /\ "crossed" \notin mishaps BY <2>1 DEF WaitConnect, Crossed
    <3>3. conn[j] = "up" /\ j \in Conns BY <1>2, <3>2, <3>1 DEF AppIInv, AppTypeOK, AttemptType
    <3> QED BY <3>2, <3>3 DEF Overlaps, InCall, Calling
  <2> QED BY <1>1, <2>1, <2>2, <2>3, DialKeeps
<1>4. CASE wait.then # "hdial"
  <2>1. UNCHANGED <<conn, byHead>> /\ Crossings BY <1>4 DEF HeadStopped, Crossings, Settled
  <2>2. (Overlaps' <=> Overlaps) /\ \A i \in Conns : (Answers(i)' <=> Answers(i))
    BY <1>1, <2>1 DEF Overlaps, Answers, InCall
  <2>3. Turns' BY <1>1, <2>1 DEF AppIInv, Turns, WaitsForUi, Idle, Afterwards, HeadKinds
  <2>4. OneAtATime => OneAtATime' BY <1>1, <1>2, <2>1, <2>2 DEF OneAtATime
  <2> QED BY <2>1, <2>3, <2>4 DEF AppIInv, Crossings
<1> QED BY <1>3, <1>4

\* A call that fails leaves nothing up and no other attempt waiting for routes.
LEMMA FailsKeeps ==
  ASSUME AppTypeOK, AppIInv, NEW i \in Conns, conn[i] \in {"check", "routes", "up"}, i \notin live, Fails(i),
         UNCHANGED <<prog, ui, kind, live, byHead, head, wait>>
  PROVE  AppIInv'
<1>1. /\ conn'[i] = "done" /\ \A j \in Conns : j # i => conn'[j] = conn[j]
      /\ \A j \in Conns : <<"ok", j>> \in mail' <=> <<"ok", j>> \in mail
      /\ <<"err", 0>> \in mail => <<"err", 0>> \in mail'
      /\ prog = "run" => <<"err", 0>> \in mail'
      /\ prog # "run" => mail' = mail
  BY DEF Fails, AppTypeOK, AttemptType, AppIInv, Turns
<1>2. Turns'
  BY <1>1, NoAttemptZero DEF AppIInv, Turns, WaitsForUi, AppTypeOK, AttemptType, WaitType
<1>3. ASSUME OneAtATime PROVE OneAtATime'
  <2>1. Answers(i) BY DEF Answers, InCall, Calling
  <2>2. live = {} /\ \A j \in Conns : ~Answers(j)'
    BY <1>1, <1>3, <2>1 DEF OneAtATime, Answers, InCall, Calling, AppIInv, Turns
  <2>3. prog = "run" => Overlaps' /\ ui.status = "connecting"
    BY <1>1, <1>3, <2>1, OverlapsMeans DEF Overlaps, OneAtATime
  <2>4. \A j \in Conns : conn'[j] # "routes" BY <2>2 DEF Answers, InCall, Calling
  <2> QED BY <1>3, <2>2, <2>3, <2>4 DEF OneAtATime
<1>4. Crossings BY DEF Crossings, Fails, Settled
<1> QED BY <1>2, <1>3, <1>4 DEF AppIInv, Crossings

\* A call goes on: the same attempt answers as before.
LEMMA GoesOnKeeps ==
  ASSUME AppTypeOK, AppIInv, NEW i \in Conns, NEW c \in {"routes", "up", "held"}, NEW w,
         InCall(i), conn' = [conn EXCEPT ![i] = c], UNCHANGED <<prog, ui, byHead, wait, mail, mishaps>>,
         kind' = [kind EXCEPT ![i] = w], live' \in {live, live \cup {i}},
         i \in live' => c \in {"up", "held"} /\ w # "nil",
         c = "routes" => w = "own",
         \/ head' = head /\ c # "held" /\ conn[i] # "held"
         \/ head' = StopOf(i) /\ w = kind[i] /\ c = "held" /\ wait.then \notin HeadKinds,
         OneAtATime => (c = "routes" \/ (i \in live' /\ w = "own") => bypass')
  PROVE  AppIInv'
<1>1. /\ conn'[i] = c /\ \A j \in Conns : j # i => conn'[j] = conn[j]
      /\ kind'[i] = w /\ \A j \in Conns : j # i => kind'[j] = kind[j]
      /\ \A j \in Conns : Answers(j)' <=> Answers(j)
      /\ Answers(i)
  BY DEF AppTypeOK, AttemptType, Answers, InCall, Calling
<1>2. Overlaps' /\ Overlaps BY <1>1 DEF Overlaps, Answers, InCall, Calling
<1>3. conn[i] # "told" /\ (head = i => conn[i] = "held")
  BY NoAttemptZero DEF InCall, Calling, AppIInv, Turns
<1>4. Turns'
  <2>1. \A j \in live' : conn'[j] \in {"up", "held", "told"} /\ kind'[j] # "nil"
    BY <1>1 DEF AppIInv, Turns, AppTypeOK, AttemptType
  <2>2. \A j \in Conns : conn'[j] \in {"new", "check", "routes"} => kind'[j] = "own"
    BY <1>1 DEF AppIInv, Turns
  <2>3. head' # 0 => conn'[head'] \in {"held", "told"}
    BY <1>1, <1>3, NoAttemptZero DEF AppIInv, Turns, StopOf, AppTypeOK, WaitType
  <2>4. wait.then \in HeadKinds => wait.conn = head'
    BY DEF AppIInv, Turns
  <2> QED BY <1>1, <1>3, <2>1, <2>2, <2>3, <2>4 DEF AppIInv, Turns, WaitsForUi
<1>5. ASSUME OneAtATime PROVE OneAtATime'
  <2>1. live \subseteq {i} /\ live' \subseteq {i} /\ <<"err", 0>> \notin mail /\ (prog = "run" => ui.status = "connecting")
    BY <1>1, <1>2, <1>5 DEF OneAtATime
  <2>2. \A j \in Conns : j # i => conn[j] # "routes" BY <1>1, <1>5 DEF OneAtATime, Answers, InCall, Calling
  <2>3. \A j \in live' : conn'[j] # "up" => head' = j
    BY <1>1, <1>5, <2>1 DEF OneAtATime, StopOf
  <2>4. (\A j \in Conns : conn'[j] = "routes" => bypass') /\ ((\E j \in live' : kind'[j] = "own") => bypass')
    BY <1>1, <1>5, <2>1, <2>2
  <2> QED BY <1>1, <1>2, <1>5, <2>1, <2>3, <2>4 DEF OneAtATime
<1> QED BY <1>4, <1>5 DEF AppIInv

LEMMA TellKeeps ==
  ASSUME AppTypeOK, AppIInv, NEW i \in Conns, Tell(i)
  PROVE  AppIInv'
<1> USE DEF Tell, connRest
<1>1. /\ conn'[i] = "told" /\ conn[i] = "held" /\ \A j \in Conns : j # i => conn'[j] = conn[j]
      /\ \A j \in Conns : j # i => (<<"ok", j>> \in mail' <=> <<"ok", j>> \in mail)
      /\ <<"err", 0>> \in mail' <=> <<"err", 0>> \in mail
      /\ prog = "run" => <<"ok", i>> \in mail'
      /\ prog # "run" => mail' = mail
      /\ Crossings
  BY DEF AppTypeOK, AttemptType, AppIInv, Turns, Crossings, Settled
<1>2. Answers(i) BY <1>1 DEF Answers, InCall, Calling
<1>3. \A j \in Conns : Answers(j)' => Answers(j) BY <1>1, <1>2 DEF Answers, InCall, Calling
<1>4. Turns'
  BY <1>1 DEF AppIInv, Turns, WaitsForUi, AppTypeOK, AttemptType, WaitType
<1>5. ASSUME OneAtATime PROVE OneAtATime'
  <2>1. prog = "run" => Overlaps' /\ ui.status = "connecting"
    BY <1>1, <1>2, <1>5, OverlapsMeans DEF Overlaps, OneAtATime
  <2>2. \A j \in Conns : conn'[j] = "routes" => conn[j] = "routes" BY <1>1
  <2>3. \A j \in live : conn[j] # "up" => head = j BY <1>5 DEF OneAtATime
  <2>4. \A j \in live : conn'[j] # "up" => head = j BY <1>1, <2>3 DEF AppTypeOK, AttemptType
  <2> QED BY <1>1, <1>3, <1>5, <2>1, <2>2, <2>4 DEF OneAtATime
<1> QED BY <1>1, <1>4, <1>5 DEF AppIInv, Crossings

\* What runs ends, by itself or after a cancel: nothing else does, uncrossed.
LEMMA TunnelEndsKeeps ==
  ASSUME AppTypeOK, AppIInv, NEW i \in live, Teardown(i) \/ Dies(i)
  PROVE  AppIInv'
<1>1. /\ live' = live \ {i} /\ Crossings /\ UNCHANGED <<prog, ui, conn, kind, byHead, head, wait>>
      /\ \A j \in Conns : <<"ok", j>> \in mail' <=> <<"ok", j>> \in mail
      /\ <<"err", 0>> \in mail' <=> <<"err", 0>> \in mail
      /\ prog # "run" => mail' = mail
  BY DEF Teardown, Dies, Down, connRest, Crossings
<1>2. (Overlaps' <=> Overlaps) /\ \A j \in Conns : (Answers(j)' <=> Answers(j))
  BY <1>1 DEF Overlaps, Answers, InCall
<1>3. Turns' BY <1>1 DEF AppIInv, Turns, WaitsForUi
<1>4. ASSUME OneAtATime PROVE OneAtATime'
  <2>1. live' = {} BY <1>1, <1>4 DEF OneAtATime
  <2>2. \A j \in Conns : conn[j] # "routes"
    BY <1>4 DEF OneAtATime, Answers, InCall, Calling, AppIInv, Turns
  <2> QED BY <1>1, <1>2, <1>4, <2>1, <2>2 DEF OneAtATime
<1> QED BY <1>1, <1>3, <1>4 DEF AppIInv, Crossings

\* An attempt that stays in its call: PkexecStarts, AddRoutes, TunnelReady,
\* ReturnsNil and Hold.
LEMMA CallGoesOn ==
  ASSUME AppTypeOK, AppIInv, NEW i \in Conns,
         PkexecStarts(i) \/ AddRoutes(i) \/ TunnelReady(i) \/ ReturnsNil(i) \/ Hold(i),
         AddRoutes(i) => ~Fails(i)
  PROVE  AppIInv'
<1> USE DEF connRest
<1>0. /\ \A c \in {"check", "routes"} : conn[i] = c => i \notin live /\ kind[i] = "own"
      /\ \A c \in Calling : conn[i] = c => InCall(i)
      /\ kind = [kind EXCEPT ![i] = kind[i]]
  BY DEF AppIInv, Turns, InCall, AppTypeOK, AttemptType
<1>1. CASE PkexecStarts(i)
  <2>1. InCall(i) BY <1>0, <1>1 DEF PkexecStarts, Calling
  <2> QED BY <1>1, <2>1, GoesOnKeeps DEF PkexecStarts
<1>2. CASE AddRoutes(i)
  <2>1. /\ conn[i] = "check" /\ InCall(i) /\ conn' = [conn EXCEPT ![i] = "routes"] /\ bypass' = TRUE
        /\ UNCHANGED <<prog, ui, byHead, wait, mail, mishaps, live, head, kind>>
    BY <1>0, <1>2 DEF AddRoutes, AddBypass, Calling
  <2>2. kind' = [kind EXCEPT ![i] = "own"] BY <1>0, <2>1
  <2> QED BY <1>0, <2>1, <2>2, GoesOnKeeps
<1>3. CASE TunnelReady(i)
  <2>1. conn[i] = "routes" /\ InCall(i) BY <1>0, <1>3 DEF TunnelReady, Calling
  <2>2. kind' = [kind EXCEPT ![i] = "own"] BY <1>0, <1>3, <2>1 DEF TunnelReady
  <2>3. OneAtATime => bypass' BY <1>3, <2>1 DEF OneAtATime, TunnelReady
  <2> QED BY <1>3, <2>1, <2>2, <2>3, GoesOnKeeps DEF TunnelReady
<1>4. CASE ReturnsNil(i)
  <2>1. InCall(i) /\ i \notin live /\ conn[i] \in {"routes", "up"}
    BY <1>0, <1>4 DEF ReturnsNil, Returned, Calling
  <2> QED BY <1>4, <2>1, GoesOnKeeps DEF ReturnsNil
<1>5. CASE Hold(i)
  <2>1. conn[i] = "up" /\ InCall(i) BY <1>0, <1>5 DEF Hold, Calling
  <2>2. kind' = [kind EXCEPT ![i] = kind[i]] BY <1>0, <1>5 DEF Hold
  <2>3. i \in live => kind[i] # "nil" BY DEF AppIInv, Turns
  <2>4. OneAtATime => (i \in live /\ kind[i] = "own" => bypass) BY DEF OneAtATime
  <2> QED BY <1>5, <2>1, <2>2, <2>3, <2>4, GoesOnKeeps DEF Hold
<1> QED BY <1>1, <1>2, <1>3, <1>4, <1>5

LEMMA FailsOrGoesOn ==
  ASSUME AppIInv, NEW i \in Conns, Steps(i), ~Tell(i)
  PROVE  \/ /\ Fails(i) /\ conn[i] \in {"check", "routes", "up"} /\ i \notin live
            /\ UNCHANGED <<prog, ui, kind, live, byHead, head, wait>>
         \/ /\ AddRoutes(i) => ~Fails(i)
            /\ PkexecStarts(i) \/ AddRoutes(i) \/ TunnelReady(i) \/ ReturnsNil(i) \/ Hold(i)
<1> USE DEF connRest
<1>1. \A c \in {"check", "routes"} : conn[i] = c => i \notin live BY DEF AppIInv, Turns
<1>2. CASE CheckFails(i) BY <1>1, <1>2 DEF CheckFails
<1>3. CASE TunnelFails(i) BY <1>1, <1>3 DEF TunnelFails, Returned
<1>4. CASE AddRoutes(i) /\ Fails(i) BY <1>1, <1>4 DEF AddRoutes
<1> QED BY <1>2, <1>3, <1>4 DEF Steps

LEMMA AttemptKeeps ==
  ASSUME AppTypeOK, AppIInv, NEW i \in Conns, Steps(i) \/ Teardown(i) \/ Dies(i)
  PROVE  AppIInv'
<1>1. CASE Tell(i) BY <1>1, TellKeeps
<1>2. CASE Teardown(i) \/ Dies(i) BY <1>2, TunnelEndsKeeps DEF Teardown, Dies
<1>3. CASE Steps(i) /\ ~Tell(i)
  BY <1>3, FailsOrGoesOn, FailsKeeps, CallGoesOn
<1> QED BY <1>1, <1>2, <1>3

LEMMA AppIInvStep ==
  ASSUME AppTypeOK, AppIInv, [AppNext]_vars
  PROVE  AppIInv'
<1>0. late \in BOOLEAN BY DEF AppTypeOK, ControlType
<1>1. CASE UiHandles
  BY <1>0, <1>1, UiTurnEffect, UiTurnKeeps
<1>2. CASE Failed BY <1>2, FailedKeeps
<1>3. ASSUME NEW i \in Conns, Connected(i) PROVE AppIInv'
  BY <1>3, ConnectedKeeps
<1>4. CASE StopReturns BY <1>4, StopReturnsKeeps
<1>5. CASE EndRun \/ RunBreaks \/ SigTerm BY <1>5, UiLeavesKeeps
<1>6. ASSUME NEW i \in Conns, Steps(i) \/ Teardown(i) \/ Dies(i) PROVE AppIInv'
  BY <1>6, AttemptKeeps
<1>7. CASE HeadLoop
  <2>1. CASE Swallowed BY <2>1, CoreStillKeeps DEF Swallowed, tunVars, Crossings
  <2> QED BY <1>7, <2>1, HeadAsksKeeps, HeadStoppedKeeps DEF HeadLoop
<1>8. CASE Outsiders
  <2>1. Outside => Crossings BY DEF Outside, Crossings
  <2> QED BY <1>8, <2>1, OutsideEffect, ProcessEndsKeeps, CoreStillKeeps DEF Outside, coreVars
<1>9. CASE Exit BY <1>9, ProcessEndsKeeps DEF Exit, EndsProcess
<1>10. CASE UNCHANGED vars BY <1>10, CoreStillKeeps DEF vars, progVars, tunVars, Crossings
<1> QED
  BY <1>1, <1>2, <1>3, <1>4, <1>5, <1>6, <1>7, <1>8, <1>9, <1>10
  DEF AppNext, UserKeys, Handlers, UiHandles, Listener, Outsiders

\* Inductive together with the types.
LEMMA AppIInvCorrect == AppSpec => [](AppTypeOK /\ AppIInv)
<1>1. AppInit => AppTypeOK /\ AppIInv BY AppTypeInit, AppIInvInit
<1>2. AppTypeOK /\ AppIInv /\ [AppNext]_vars => (AppTypeOK /\ AppIInv)' BY AppTypeStep, AppIInvStep
<1> QED BY <1>1, <1>2, PTL DEF AppSpec

\* As long as no command crossed an attempt, a tunnel that is up and was told
\* can be stopped: headlessStop is the one its attempt stored, and the running
\* UI holds its stop or has it in the mail, although every stop clears
\* headlessStop and connectedMsg and errMsg overwrite m.stop (tui.go:141-150,
\* model.go:2192-2214).
THEOREM HandleKeptCorrect == AppSpec => []HandleKept
<1>1. AppTypeOK /\ AppIInv => HandleKept
  <2> SUFFICES ASSUME AppTypeOK, AppIInv, OneAtATime, NEW i \in live, conn[i] = "told"
               PROVE  head = i /\ (prog = "run" => ui.stop = i \/ <<"ok", i>> \in mail)
    BY DEF HandleKept, AppIInv
  <2>1. head = i BY DEF OneAtATime
  <2>2. ASSUME prog = "run" PROVE ui.stop = i \/ <<"ok", i>> \in mail
    <3>1. CASE ui.status = "connected" BY <2>2, <3>1 DEF OneAtATime
    <3>2. CASE ui.status = "connecting"
      <4>1. PICK j \in Conns : Answers(j) BY <2>2, <3>2, OverlapsMeans DEF OneAtATime
      <4> QED BY <4>1 DEF OneAtATime, Answers, InCall, Calling
    <3> QED BY <2>2, <3>1, <3>2 DEF OneAtATime, AppTypeOK, UiType, UiStates
  <2> QED BY <2>1, <2>2
<1> QED BY <1>1, AppIInvCorrect, PTL

\* As long as no command crossed an attempt, the bypass routes stand while a
\* tunnel is up: no other attempt is there to remove them (main_linux.go:318-340).
THEOREM BypassCorrect == AppSpec => []BypassInPlace
<1>1. AppIInv => BypassInPlace BY DEF AppIInv, OneAtATime, BypassInPlace
<1> QED BY <1>1, AppIInvCorrect, PTL

-----------------------------------------------------------------------------
\* The tray's commands keep their order on the way from its socket to Update,
\* and while it is up a living client listens to it.
Has(s, x) == \E k \in 1..Len(s) : s[k] = x
Coming == Has(wire, "disconnect") \/ hand = "disconnect" \/ Has(cmds, "disconnect")

TrayIsHeard ==
  /\ ipc \in {"none", "end"} /\ Alive => ~tray.up
  /\ ipc = "recv" => hand = "none"

LEMMA HasEmpty == \A x : ~Has(<<>>, x)
BY EmptySeq DEF Has

LEMMA HasTail ==
  ASSUME NEW s \in Seq(Commands), s # <<>>, NEW x
  PROVE  Has(s, x) <=> Head(s) = x \/ Has(Tail(s), x)
<1> DEFINE t == Tail(s)
<1>1. /\ Len(s) \in Nat \ {0} /\ Len(t) = Len(s) - 1 /\ t \in Seq(Commands)
      /\ \A k \in 1..(Len(s) - 1) : t[k] = s[k + 1]
      /\ Head(s) = s[1]
  BY HeadTailProperties, EmptySeq, LenProperties
<1> HIDE DEF t
<1>2. Has(s, x) <=> Head(s) = x \/ Has(t, x)
  <2>1. ASSUME NEW k \in 1..Len(s), s[k] = x, k # 1 PROVE k - 1 \in 1..Len(t) /\ t[k - 1] = x
    BY <1>1, <2>1
  <2>2. ASSUME NEW k \in 1..Len(t), t[k] = x PROVE k + 1 \in 1..Len(s) /\ s[k + 1] = x
    BY <1>1, <2>2
  <2>3. 1 \in 1..Len(s) BY <1>1
  <2> QED BY <1>1, <2>1, <2>2, <2>3 DEF Has
<1> QED BY <1>2 DEF t

LEMMA HasConcat ==
  ASSUME NEW s \in Seq(Commands), NEW t \in Seq(Commands), NEW x
  PROVE  Has(s, x) \/ Has(t, x) => Has(s \o t, x)
<1> DEFINE u == s \o t
<1>1. /\ Len(s) \in Nat /\ Len(t) \in Nat /\ Len(u) = Len(s) + Len(t)
      /\ \A k \in 1..Len(s) : u[k] = s[k]
      /\ \A k \in 1..Len(t) : u[Len(s) + k] = t[k]
  BY ConcatProperties, LenProperties
<1> HIDE DEF u
<1>2. Has(s, x) => Has(u, x) BY <1>1 DEF Has
<1>3. Has(t, x) => Has(u, x)
  <2> SUFFICES ASSUME NEW k \in 1..Len(t), t[k] = x PROVE Has(u, x) BY DEF Has
  <2>1. Len(s) + k \in 1..Len(u) /\ u[Len(s) + k] = x BY <1>1
  <2> QED BY <2>1 DEF Has
<1> QED BY <1>2, <1>3 DEF u

LEMMA HasMessages ==
  Has(<<"disconnect">>, "disconnect") /\ \A c \in Commands : Has(<<"disconnect", c>>, "disconnect")
BY DEF Has

LEMMA HasAppend ==
  ASSUME NEW s \in Seq(Commands), NEW c \in Commands, NEW x
  PROVE  Has(s, x) \/ c = x => Has(Append(s, c), x)
<1>1. <<c>> \in Seq(Commands) /\ (c = x => Has(<<c>>, x))
  BY DEF Has
<1>2. Append(s, c) = s \o <<c>> BY AppendIsConcat
<1> QED BY <1>1, <1>2, HasConcat

\* A command other than "disconnect" taken from the channel.
LEMMA TakenKeepsComing ==
  ASSUME QueueType, cmds # <<>>, cmds' = Tail(cmds), Head(cmds) # "disconnect", UNCHANGED <<wire, hand>>, Coming
  PROVE  Coming'
<1>1. Has(cmds, "disconnect") => Has(cmds', "disconnect") BY HasTail DEF QueueType
<1> QED BY <1>1 DEF Coming

\* No "disconnect" is lost unless that is noted, and the state file changes only
\* to FALSE: when the tray has sent one, or when nothing runs.
FileFollows ==
  "stale" \notin mishaps' => /\ Coming => Coming'
                             /\ disk' = disk \/ (disk' = FALSE /\ (Coming' \/ live = {}))

\* The tray's messages get to a living client's socket.
LEMMA SendsKeep ==
  ASSUME QueueType, TrayIsHeard, NEW ms \in Seq(Commands), Broadcast(ms), tray.up, Alive, UNCHANGED <<cmds, hand>>
  PROVE  (Coming => Coming') /\ (Has(ms, "disconnect") => Coming')
<1>1. wire' = wire \o ms BY DEF Broadcast, TrayIsHeard
<1>2. Has(wire, "disconnect") \/ Has(ms, "disconnect") => Has(wire', "disconnect")
  BY <1>1, HasConcat DEF QueueType
<1> QED BY <1>2 DEF Coming

\* What a step of the tray or of an IPC goroutine does to the queues.
LEMMA OutsidersOrder ==
  ASSUME AppTypeOK, TrayIsHeard, Outsiders, ~EndsProcess, Alive
  PROVE  TrayIsHeard' /\ FileFollows
<1> USE DEF AppTypeOK, FileFollows
<1>0. QueueType /\ TrayType OBVIOUS
<1>1. CASE IpcLock
  BY <1>1 DEF IpcLock, ipcRest, tunVars, Coming, TrayIsHeard
<1>2. CASE IpcReceive
  <2>1. UNCHANGED <<prog, cmds, tray, disk>> /\ hand = "none" BY <1>2 DEF IpcReceive, ipcRest, TrayIsHeard
  <2>2. CASE wire # <<>> /\ ipc' = "free" /\ hand' = Head(wire) /\ wire' = Tail(wire)
    <3>1. Has(wire, "disconnect") => hand' = "disconnect" \/ Has(wire', "disconnect")
      BY <2>2, HasTail DEF QueueType
    <3> QED BY <2>1, <2>2, <3>1 DEF Coming, TrayIsHeard
  <2>3. CASE wire = <<>> /\ ~tray.up /\ ipc' = "end" /\ UNCHANGED <<hand, wire>>
    BY <2>1, <2>3 DEF Coming, TrayIsHeard
  <2> QED BY <1>2, <2>2, <2>3 DEF IpcReceive
<1>3. CASE IpcQueue
  <2>1. hand # "none" /\ hand' = "none" /\ UNCHANGED <<prog, wire, ipc, tray, disk>>
    BY <1>3 DEF IpcQueue, ipcRest, EndsProcess
  <2>2. CASE cmds' = Append(cmds, hand)
    <3>1. Has(cmds, "disconnect") \/ hand = "disconnect" => Has(cmds', "disconnect")
      BY <2>1, <2>2, HasAppend DEF QueueType
    <3> QED BY <2>1, <3>1 DEF Coming, TrayIsHeard, Alive
  <2>3. CASE "stale" \in mishaps'
    BY <2>1, <2>3 DEF TrayIsHeard, Alive
  <2> QED BY <1>3, <2>2, <2>3 DEF IpcQueue, EndsProcess
<1>4. CASE StatusListener
  <2>1. live # {} => "stale" \in mishaps' BY <1>4 DEF StatusListener
  <2> QED BY <1>4, <2>1 DEF StatusListener, SetConnected, ipcRest, ipcVars, Coming, TrayIsHeard, Alive
<1>5. CASE TrayDisconnectAll
  <2>1. /\ Broadcast(<<"disconnect">>) /\ tray.up /\ tray'.up = tray.up /\ UNCHANGED <<cmds, hand, ipc, prog>>
        /\ disk' = FALSE
    BY <1>5 DEF TrayDisconnectAll, Room, trayRest, progVars, SetConnected, TrayType
  <2>2. Coming' BY <1>0, <2>1, SendsKeep, HasMessages, MessagesType
  <2> QED BY <2>1, <2>2 DEF TrayIsHeard
<1>6. ASSUME NEW c \in Commands, TrayConnectProfile(c) PROVE TrayIsHeard' /\ FileFollows
  <2>1. /\ Broadcast(<<"disconnect", c>>) /\ tray.up /\ tray'.up = tray.up /\ UNCHANGED <<cmds, hand, ipc, prog>>
        /\ disk' = FALSE
    BY <1>6 DEF TrayConnectProfile, Room, trayRest, progVars, SetConnected, TrayType
  <2>2. Coming' BY <1>0, <2>1, SendsKeep, HasMessages, MessagesType
  <2> QED BY <2>1, <2>2 DEF TrayIsHeard
<1>7. CASE TrayQuit
  <2>1. /\ Broadcast(<<"quit">>) /\ tray.up /\ ~tray'.up /\ UNCHANGED <<cmds, hand, ipc, disk>>
    BY <1>7 DEF TrayQuit, trayRest, progVars, TrayType
  <2>2. Coming => Coming' BY <1>0, <2>1, SendsKeep, MessagesType
  <2> QED BY <2>1, <2>2 DEF TrayIsHeard
<1> QED BY <1>1, <1>2, <1>3, <1>4, <1>5, <1>6, <1>7 DEF Outsiders, TrayMenu

LEMMA QueuesStill ==
  ASSUME TrayIsHeard, UNCHANGED <<hand, ipc, tray>>, Alive' => Alive
  PROVE  TrayIsHeard'
BY DEF TrayIsHeard

LEMMA TrayIsHeardStep ==
  ASSUME AppTypeOK, AppIInv, TrayIsHeard, [AppNext]_vars
  PROVE  TrayIsHeard'
<1>0. late \in BOOLEAN BY DEF AppTypeOK, ControlType
<1> USE DEF Alive
<1>1. CASE UiHandles
  <2>1. UiTurn BY <1>0, <1>1, UiTurnEffect
  <2> QED BY <2>1, QueuesStill DEF UiTurn, UiStill, UiFree
<1>2. CASE Failed \/ (\E i \in Conns : Connected(i)) \/ EndRun \/ RunBreaks \/ SigTerm
  <2>1. Alive BY <1>2 DEF Failed, Connected, EndRun, RunBreaks, SigTerm, UiFree
  <2>2. CASE Failed BY <2>1, <2>2, QueuesStill DEF Failed, uiRest, ipcVars
  <2>3. CASE \E i \in Conns : Connected(i) BY <2>1, <2>3, QueuesStill DEF Connected, uiRest, ipcVars
  <2>4. CASE EndRun BY <2>1, <2>4, QueuesStill DEF EndRun, ipcVars
  <2>5. CASE RunBreaks BY <2>1, <2>5, QueuesStill DEF RunBreaks, ipcVars
  <2>6. CASE SigTerm BY <2>1, <2>6, QueuesStill DEF SigTerm, ipcVars
  <2> QED BY <1>2, <2>2, <2>3, <2>4, <2>5, <2>6
<1>3. CASE StopReturns
  <2>1. prog = "run" BY <1>3 DEF StopReturns, Continue, WaitsForUi, Afterwards, AppIInv, Turns
  <2> QED BY <1>3, <2>1, QueuesStill DEF StopReturns, ipcVars
<1>4. ASSUME NEW i \in Conns, Steps(i) \/ Teardown(i) \/ Dies(i) PROVE TrayIsHeard'
  <2>1. UNCHANGED connRest
    BY <1>4 DEF Steps, CheckFails, PkexecStarts, AddRoutes, TunnelReady, TunnelFails, ReturnsNil, Hold, Tell, Teardown, Dies, Down
  <2> QED BY <2>1, QueuesStill DEF connRest, ipcVars
<1>5. CASE HeadLoop
  <2>1. prog = "headless" /\ UNCHANGED <<hand, ipc, tray>>
    BY <1>5 DEF HeadLoop, Swallowed, HeadCommand, HeadSignal, headFree, HeadStopped, ipcVars, AppIInv, Turns
  <2> QED BY <2>1, QueuesStill
<1>6. CASE EndsProcess BY <1>6 DEF EndsProcess, ProcessEnds, TrayIsHeard
<1>7. CASE Outsiders /\ ~EndsProcess
  <2>1. CASE Alive BY <1>7, <2>1, OutsidersOrder
  <2>2. CASE ~Alive
    <3>1. prog' = prog BY <1>7, OutsideEffect DEF Outside, coreVars
    <3>2. ipc' = ipc /\ hand' = hand
      BY <1>7, <2>2 DEF Outsiders, IpcLock, IpcReceive, IpcQueue, StatusListener, TrayMenu, TrayDisconnectAll,
         TrayConnectProfile, TrayQuit, trayRest
    <3> QED BY <2>2, <3>1, <3>2 DEF TrayIsHeard
  <2> QED BY <2>1, <2>2
<1>8. CASE Exit BY <1>6, <1>8 DEF Exit, EndsProcess
<1>9. CASE UNCHANGED vars BY <1>9, QueuesStill DEF vars, progVars, ipcVars
<1> QED
  BY <1>1, <1>2, <1>3, <1>4, <1>5, <1>6, <1>7, <1>8, <1>9
  DEF AppNext, UserKeys, Handlers, UiHandles, Listener, Outsiders

-----------------------------------------------------------------------------
\* Nothing crossed, nothing lost: the state file and the UI show only what runs.
\* And nothing stale: what runs and was told is in the state file, or a
\* "disconnect" that will end it is on its way.
Serving == prog \in {"run", "quitting", "headless"}
Shown ==
  /\ wait = Idle /\ Serving /\ live = {} /\ (\A i \in Conns : ~InCall(i)) => ~disk
  /\ prog = "run" /\ ui.status = "connected" /\ wait = Idle => ui.stop \in live
  /\ \A i \in Conns : <<"ok", i>> \in mail => i \in live
Seen == wait = Idle /\ Serving => \A i \in live : conn[i] = "told" => disk \/ Coming
InStep == ("lost" \notin mishaps => Shown) /\ ("stale" \notin mishaps => Seen)

LEMMA InStepInit == AppInit => InStep /\ TrayIsHeard
<1> SUFFICES ASSUME AppInit PROVE InStep /\ TrayIsHeard
  OBVIOUS
<1>1. live = {} /\ mail = {} /\ (disk => "lost" \in mishaps) /\ (~disk => ui.status # "connected")
  BY DEF AppInit, NewModel, InitState
<1>2. InStep BY <1>1 DEF InStep, Shown, Seen
<1>3. TrayIsHeard BY DEF AppInit, IpcInit, TrayIsHeard
<1> QED BY <1>2, <1>3

\* A new attempt, when nothing is up and nothing else answers.
LEMMA DialInStep ==
  ASSUME AppTypeOK, NEW i \in Conns, NEW m, WaitConnect(i, m), ~Overlaps, live = {},
         UNCHANGED <<live, mail>>, prog' = "run" => ui' = Connecting
  PROVE  InStep'
<1>1. InCall(i)' BY DEF WaitConnect, AppTypeOK, AttemptType, InCall, Calling
<1>2. prog' = "run" => ui'.status # "connected" BY DEF Connecting
<1>3. \A j \in Conns : <<"ok", j>> \notin mail' BY DEF Overlaps
<1> QED BY <1>1, <1>2, <1>3 DEF InStep, Shown, Seen

\* A step that leaves attempts alone and starts no waiting.
LEMMA StillInStep ==
  ASSUME InStep, mishaps \subseteq mishaps', UNCHANGED <<conn, live, wait>>, mail' \subseteq mail, Serving' => Serving,
         disk' \in {disk, FALSE},
         "stale" \notin mishaps' => /\ disk' = disk \/ Coming' \/ live = {}
                                    /\ Coming => Coming' \/ live = {},
         prog' = "run" /\ ui'.status = "connected" /\ wait = Idle /\ "lost" \notin mishaps' => ui'.stop \in live
  PROVE  InStep'
<1>1. \A i \in Conns : InCall(i)' <=> InCall(i) BY DEF InCall
<1>2. "lost" \notin mishaps' => Shown' BY <1>1 DEF InStep, Shown
<1>3. "stale" \notin mishaps' => Seen' BY DEF InStep, Seen
<1> QED BY <1>2, <1>3 DEF InStep

\* From here on somebody waits for a stop.
LEMMA WaitsInStep ==
  ASSUME InStep, mishaps' = mishaps, live' = live, mail' \subseteq mail, wait'.then # "none"
  PROVE  InStep'
<1>1. wait' # Idle BY DEF Idle
<1> QED BY <1>1 DEF InStep, Shown, Seen

LEMMA UiTurnInStep ==
  ASSUME AppTypeOK, AppIInv, OneAtATime, InStep, UiTurn, "crossed" \notin mishaps'
  PROVE  InStep'
<1> USE DEF UiTurn, UiStill, UiFree
<1>1. CASE UiWaits
  <2>1. mishaps' = mishaps /\ live' = live /\ mail' \subseteq mail /\ wait'.then \in Afterwards
    BY <1>1 DEF UiWaits, StopThen
  <2> QED BY <2>1, WaitsInStep DEF Afterwards
<1>2. CASE UiStumbles BY <1>2 DEF UiStumbles
<1>3. CASE UiIgnores
  <2>1. Coming' <=> Coming BY <1>3 DEF UiIgnores, Coming
  <2>2. ui.status = "connected" /\ "lost" \notin mishaps => ui.stop \in live BY DEF InStep, Shown
  <2> QED BY <1>3, <2>1, <2>2, StillInStep DEF UiIgnores, Serving
<1>4. ASSUME NEW k \in Afterwards, UiGoesOn(k) PROVE InStep'
  <2>1. /\ Continue(k, mishaps) /\ (ui.stop = 0 \/ ui.status # "connected") /\ UNCHANGED <<cut, wait>>
        /\ k = "quit" => (cmds' = cmds \/ Head(cmds) = "quit")
        /\ k = "toggle" => ui.status = "connected"
    BY <1>4 DEF UiGoesOn
  <2>2. k \in {"off", "dial"} => ~Overlaps BY <2>1 DEF Continue, Crossed, WaitConnect
  <2>3. ~Overlaps \/ ui.status = "connected" => live = {}
    BY <2>1, NoAttemptZero DEF OneAtATime, AppTypeOK, UiType, UiStates, AttemptType
  <2>4. CASE k = "dial"
    <3>1. PICK i \in Conns : WaitConnect(i, mishaps) BY <2>1, <2>4 DEF Continue
    <3> QED BY <2>1, <2>2, <2>3, <2>4, <3>1, DialInStep DEF Continue
  <2>5. CASE k \in {"off", "toggle"}
    <3>1. live = {} /\ UNCHANGED <<conn, mail, prog>> /\ ui' = UiOff /\ mishaps' = mishaps
      BY <2>1, <2>2, <2>3, <2>5 DEF Continue, Crossed
    <3> QED BY <2>1, <3>1, StillInStep DEF Serving, UiOff
  <2>6. CASE k = "quit"
    <3>1. Coming => Coming'
      <4>1. CASE UNCHANGED cmds BY <4>1 DEF Coming
      <4>2. CASE cmds # <<>> /\ cmds' = Tail(cmds) /\ Head(cmds) = "quit"
        BY <4>2, TakenKeepsComing DEF AppTypeOK
      <4> QED BY <2>1, <2>6, <4>1, <4>2 DEF TakesCommand
    <3>2. prog' = "quitting" /\ UNCHANGED <<conn, mail>> /\ mishaps' = mishaps BY <2>1, <2>6 DEF Continue
    <3> QED BY <2>1, <3>1, <3>2, StillInStep DEF Serving
  <2> QED BY <2>4, <2>5, <2>6 DEF Afterwards
<1> QED BY <1>1, <1>2, <1>3, <1>4

\* connectedMsg, errMsg, the end of Run, SIGTERM.
LEMMA MailInStep ==
  ASSUME AppTypeOK, InStep, Failed \/ (\E i \in Conns : Connected(i)) \/ EndRun \/ RunBreaks \/ SigTerm
  PROVE  InStep'
<1> USE DEF UiFree, uiRest, tunVars, ipcVars, Serving, Coming
<1>1. CASE Failed BY <1>1, StillInStep DEF Failed, UiOff
<1>2. ASSUME NEW i \in Conns, Connected(i) PROVE InStep'
  <2>1. ui'.stop = i /\ ("lost" \notin mishaps => i \in live)
    BY <1>2 DEF Connected, InStep, Shown, AppTypeOK, UiType, UiStates
  <2> QED BY <1>2, <2>1, StillInStep DEF Connected
<1>3. CASE EndRun
  <2>1. /\ prog = "quitting" /\ prog' # "run" /\ mail' = {} /\ Coming' = Coming
        /\ UNCHANGED <<conn, live, wait, disk, mishaps>>
    BY <1>3 DEF EndRun
  <2> QED BY <2>1, StillInStep
<1>4. CASE RunBreaks
  <2>1. /\ prog' = "leaving" /\ mail' = {} /\ Coming' = Coming /\ UNCHANGED <<conn, live, wait, disk, mishaps>>
    BY <1>4 DEF RunBreaks
  <2> QED BY <2>1, StillInStep
<1>5. CASE SigTerm BY <1>5, StillInStep DEF SigTerm
<1> QED BY <1>1, <1>2, <1>3, <1>4, <1>5

LEMMA StopReturnsInStep ==
  ASSUME AppTypeOK, AppIInv, OneAtATime, StopReturns
  PROVE  InStep'
<1>1. /\ WaitsForUi /\ Continue(wait.then, Settled) /\ wait.conn \notin live /\ disk' = FALSE
      /\ live' = live
  BY DEF StopReturns, Continue, WaitsForUi, Afterwards, SetConnected
<1>2. prog = "run" /\ ui.status = "connected" /\ wait.conn = ui.stop BY <1>1 DEF AppIInv, Turns
<1>3. live = {} /\ ~Overlaps BY <1>1, <1>2 DEF OneAtATime
<1>4. CASE wait.then = "dial"
  <2>1. PICK i \in Conns : WaitConnect(i, Settled) BY <1>1, <1>4 DEF Continue
  <2> QED BY <1>1, <1>2, <1>3, <1>4, <2>1, DialInStep DEF Continue
<1>5. CASE wait.then # "dial"
  <2>1. mail' = mail /\ (prog' = "run" => ui' = UiOff)
    BY <1>1, <1>5 DEF Continue
  <2>2. prog' = "run" => ui'.status # "connected" BY <2>1 DEF UiOff
  <2>3. \A j \in Conns : <<"ok", j>> \notin mail' BY <1>3, <2>1 DEF Overlaps
  <2> QED BY <1>1, <1>3, <2>2, <2>3 DEF InStep, Shown, Seen
<1> QED BY <1>4, <1>5

\* An attempt that answers is the only one, and nothing else is up.
LEMMA AnswersAlone ==
  ASSUME AppIInv, OneAtATime, NEW i \in Conns, InCall(i)
  PROVE  /\ live \subseteq {i} /\ (prog = "run" => ui.status = "connecting")
         /\ \A j \in Conns : <<"ok", j>> \notin mail
<1>1. Answers(i) BY DEF Answers
<1> QED BY <1>1, OverlapsMeans DEF OneAtATime, Answers, InCall, Calling, AppIInv, Turns

LEMMA FailsInStep ==
  ASSUME AppIInv, OneAtATime, NEW i \in Conns, conn[i] \in {"check", "routes", "up"}, i \notin live,
         Fails(i), UNCHANGED <<prog, ui, live>>
  PROVE  InStep'
<1>1. live = {} /\ (prog = "run" => ui.status # "connected") /\ \A j \in Conns : <<"ok", j>> \notin mail
  BY AnswersAlone DEF InCall, Calling
<1>2. disk' = FALSE /\ \A j \in Conns : <<"ok", j>> \notin mail'
  BY <1>1 DEF Fails, SetConnected
<1> QED BY <1>1, <1>2 DEF InStep, Shown, Seen

LEMMA GoesOnInStep ==
  ASSUME AppTypeOK, AppIInv, OneAtATime, NEW i \in Conns, NEW c \in {"routes", "up", "held"},
         InCall(i), conn' = [conn EXCEPT ![i] = c], UNCHANGED <<prog, ui, mail>>, live' \in {live, live \cup {i}}
  PROVE  InStep'
<1>1. conn'[i] = c BY DEF AppTypeOK, AttemptType
<1>2. InCall(i)' BY <1>1 DEF InCall, Calling
<1>3. /\ live' \subseteq {i} /\ (prog' = "run" => ui'.status # "connected")
      /\ \A j \in Conns : <<"ok", j>> \notin mail'
  BY AnswersAlone
<1>4. \A j \in live' : conn'[j] # "told" BY <1>1, <1>3
<1> QED BY <1>2, <1>3, <1>4 DEF InStep, Shown, Seen

LEMMA CallInStep ==
  ASSUME AppTypeOK, AppIInv, OneAtATime, NEW i \in Conns, Steps(i), ~Tell(i)
  PROVE  InStep'
<1> USE DEF connRest
<1>1. CASE Fails(i) /\ conn[i] \in {"check", "routes", "up"} /\ i \notin live /\ UNCHANGED <<prog, ui, live>>
  BY <1>1, FailsInStep
<1>2. CASE PkexecStarts(i)
  <2>1. InCall(i) BY <1>2 DEF PkexecStarts, InCall, Calling
  <2> QED BY <1>2, <2>1, GoesOnInStep DEF PkexecStarts
<1>3. CASE AddRoutes(i) /\ ~Fails(i)
  <2>1. InCall(i) /\ conn' = [conn EXCEPT ![i] = "routes"] /\ UNCHANGED <<prog, ui, mail, live>>
    BY <1>3 DEF AddRoutes, InCall, Calling
  <2> QED BY <2>1, GoesOnInStep
<1>4. CASE TunnelReady(i)
  <2>1. InCall(i) BY <1>4 DEF TunnelReady, InCall, Calling
  <2> QED BY <1>4, <2>1, GoesOnInStep DEF TunnelReady
<1>5. CASE ReturnsNil(i)
  <2>1. InCall(i) BY <1>5 DEF ReturnsNil, Returned, InCall, Calling
  <2> QED BY <1>5, <2>1, GoesOnInStep DEF ReturnsNil
<1>6. CASE Hold(i)
  <2>1. InCall(i) BY <1>6 DEF Hold, InCall, Calling
  <2> QED BY <1>6, <2>1, GoesOnInStep DEF Hold
<1> QED BY <1>1, <1>2, <1>3, <1>4, <1>5, <1>6, FailsOrGoesOn

LEMMA TellInStep ==
  ASSUME AppTypeOK, AppIInv, OneAtATime, NEW i \in Conns, Tell(i)
  PROVE  InStep'
<1> USE DEF Tell, connRest
<1>1. InCall(i) BY DEF InCall, Calling
<1>2. live' = live /\ live \subseteq {i} /\ disk' = TRUE /\ (prog' = "run" => ui'.status # "connected")
  BY <1>1, AnswersAlone DEF SetConnected
<1>3. \A j \in Conns : <<"ok", j>> \in mail' => j = i BY <1>1, AnswersAlone
<1>4. CASE i \in live BY <1>2, <1>3, <1>4 DEF InStep, Shown, Seen
<1>5. CASE i \notin live BY <1>2, <1>5 DEF InStep, Seen
<1> QED BY <1>4, <1>5

\* A tunnel ends: unless somebody waits for it, that is noted.
LEMMA EndInStep ==
  ASSUME AppTypeOK, AppIInv, OneAtATime, InStep, NEW i \in Conns, Teardown(i) \/ Dies(i)
  PROVE  InStep'
<1>1. /\ live' \subseteq live /\ UNCHANGED <<prog, conn, disk, wait, wire, hand, cmds, ui>>
      /\ mishaps \subseteq mishaps'
      /\ "lost" \notin mishaps' => wait.conn = i /\ mail' = mail
  BY DEF Teardown, Dies, Down, connRest, ipcVars
<1>2. "stale" \notin mishaps' => Seen'
  <2>1. Coming' <=> Coming BY <1>1 DEF Coming
  <2> QED BY <1>1, <2>1 DEF InStep, Seen, Serving
<1>3. ASSUME "lost" \notin mishaps' PROVE Shown'
  <2>1. wait # Idle BY <1>1, <1>3, NoAttemptZero DEF Idle
  <2>2. WaitsForUi \/ wait.then \in HeadKinds
    BY <2>1 DEF AppIInv, Turns, WaitsForUi, AppTypeOK, WaitType, Waits
  <2>3. \A j \in Conns : <<"ok", j>> \notin mail
    <3>1. CASE WaitsForUi
      <4>1. ~Overlaps BY <3>1 DEF AppIInv, Turns, OneAtATime
      <4> QED BY <4>1 DEF Overlaps
    <3>2. CASE wait.then \in HeadKinds BY <3>2 DEF AppIInv, Turns
    <3> QED BY <2>2, <3>1, <3>2
  <2> QED BY <1>1, <1>3, <2>1, <2>3 DEF Shown
<1> QED BY <1>2, <1>3 DEF InStep

\* The headless loop: nothing is on its way to a UI.
LEMMA HeadAsksInStep ==
  ASSUME AppTypeOK, AppIInv, InStep, Swallowed \/ HeadCommand \/ HeadSignal
  PROVE  InStep'
<1> USE DEF tunVars, ipcVars, progVars
<1>0. prog = "headless" /\ prog' = prog BY DEF Swallowed, HeadCommand, HeadSignal, headFree
<1>1. CASE Swallowed
  BY <1>0, <1>1, StillInStep DEF Swallowed, Serving
<1>2. ASSUME NEW k \in HeadKinds, HeadStop(k), mishaps' = mishaps, live' = live, mail' = mail PROVE InStep'
  <2>1. wait'.then = k BY <1>2 DEF HeadStop, StopThen
  <2> QED BY <1>2, <2>1, WaitsInStep DEF HeadKinds
<1>3. CASE HeadSignal BY <1>2, <1>3 DEF HeadSignal, HeadKinds
<1>4. CASE HeadCommand
  <2>1. CASE \E k \in HeadKinds : HeadStop(k) BY <1>2, <1>4, <2>1 DEF HeadCommand
  <2>2. CASE Head(cmds) = "unknown" /\ UNCHANGED <<cut, wait>>
    <3>1. Coming => Coming' BY <1>4, <2>2, TakenKeepsComing DEF HeadCommand, AppTypeOK
    <3> QED BY <1>0, <1>4, <2>2, <3>1, StillInStep DEF HeadCommand, Serving
  <2> QED BY <1>4, <2>1, <2>2 DEF HeadCommand, HeadKinds
<1> QED BY <1>1, <1>3, <1>4

LEMMA HeadStoppedInStep ==
  ASSUME AppTypeOK, AppIInv, OneAtATime, HeadStopped, "crossed" \notin mishaps'
  PROVE  InStep'
<1>1. prog = "headless" /\ wait.conn = head /\ head \notin live /\ live' = live /\ mail' = {}
  BY DEF HeadStopped, AppIInv, Turns
<1>2. \A i \in live : InCall(i) /\ conn[i] = "up" BY <1>1 DEF OneAtATime, InCall, Calling, AppIInv, Turns
<1>3. CASE wait.then = "hoff"
  <2>1. prog' = "headless" /\ conn' = conn /\ disk' = FALSE BY <1>1, <1>3 DEF HeadStopped, SetConnected
  <2>2. \A i \in live' : conn'[i] # "told" BY <1>1, <1>2, <2>1
  <2> QED BY <1>1, <2>1, <2>2 DEF InStep, Shown, Seen
<1>4. CASE wait.then = "hquit"
  <2>1. prog' = "leaving" BY <1>4 DEF HeadStopped
  <2> QED BY <1>1, <2>1 DEF InStep, Shown, Seen, Serving
<1>5. CASE wait.then = "hdial"
  <2>1. prog' = "headless" BY <1>1, <1>5 DEF HeadStopped
  <2>2. PICK i \in Conns : WaitConnect(i, mishaps) BY <1>5 DEF HeadStopped
  <2>3. ~Overlaps BY <2>2 DEF WaitConnect, Crossed
  <2>4. live = {} BY <1>2, <2>3 DEF Overlaps, AppTypeOK, AttemptType
  <2> QED BY <1>1, <2>1, <2>2, <2>3, <2>4, DialInStep DEF HeadStopped
<1> QED BY <1>3, <1>4, <1>5 DEF HeadStopped

LEMMA OutsideInStep ==
  ASSUME AppTypeOK, InStep, TrayIsHeard, Outsiders \/ Exit
  PROVE  InStep'
<1>1. CASE EndsProcess BY <1>1 DEF EndsProcess, ProcessEnds, InStep, Shown, Seen, Serving
<1>2. CASE Outsiders /\ ~EndsProcess
  <2>1. Outside BY <1>2, OutsideEffect
  <2>2. /\ UNCHANGED <<conn, live, wait, mail, prog, ui>> /\ mishaps \subseteq mishaps'
        /\ disk' \in {disk, FALSE}
    BY <2>1 DEF Outside, coreVars
  <2>3. CASE Alive
    <3>1. FileFollows BY <1>2, <2>3, OutsidersOrder
    <3> QED BY <2>2, <3>1, StillInStep DEF FileFollows, Serving, InStep, Shown
  <2>4. CASE ~Alive BY <2>2, <2>4 DEF InStep, Shown, Seen, Alive, Serving
  <2> QED BY <2>3, <2>4
<1> QED BY <1>1, <1>2 DEF Exit, EndsProcess

LEMMA CrossingsStep ==
  ASSUME AppTypeOK, [AppNext]_vars
  PROVE  Crossings
<1> USE DEF Crossings, Settled
<1>0. late \in BOOLEAN BY DEF AppTypeOK, ControlType
<1>1. CASE UiHandles
  <2>1. UiTurn BY <1>0, <1>1, UiTurnEffect
  <2> QED BY <2>1 DEF UiTurn, UiWaits, UiGoesOn, UiStumbles, UiIgnores, Continue, Crossed, WaitConnect
<1>2. CASE Failed \/ (\E i \in Conns : Connected(i)) \/ EndRun \/ RunBreaks \/ SigTerm
  BY <1>2 DEF Failed, Connected, EndRun, RunBreaks, SigTerm
<1>3. CASE StopReturns BY <1>3 DEF StopReturns, Continue, Crossed, WaitConnect
<1>4. ASSUME NEW i \in Conns, Steps(i) \/ Teardown(i) \/ Dies(i) PROVE Crossings
  BY <1>4 DEF Steps, CheckFails, PkexecStarts, AddRoutes, TunnelReady, TunnelFails, ReturnsNil, Hold, Tell, Fails,
     Teardown, Dies
<1>5. CASE HeadLoop
  BY <1>5 DEF HeadLoop, Swallowed, HeadCommand, HeadSignal, HeadStopped, WaitConnect, Crossed
<1>6. CASE Outsiders \/ Exit
  BY <1>6, OutsideEffect DEF Outside, EndsProcess, Exit, ProcessEnds
<1>7. CASE UNCHANGED vars BY <1>7 DEF vars
<1> QED
  BY <1>1, <1>2, <1>3, <1>4, <1>5, <1>6, <1>7
  DEF AppNext, UserKeys, Handlers, UiHandles, Listener, Outsiders

LEMMA InStepStep ==
  ASSUME AppTypeOK, AppIInv, TrayIsHeard, "crossed" \notin mishaps => InStep, [AppNext]_vars
  PROVE  "crossed" \notin mishaps' => InStep'
<1> SUFFICES ASSUME "crossed" \notin mishaps' PROVE InStep'
  OBVIOUS
<1>1. InStep /\ OneAtATime /\ late \in BOOLEAN BY CrossingsStep DEF Crossings, AppIInv, AppTypeOK, ControlType
<1>2. CASE UiHandles BY <1>1, <1>2, UiTurnEffect, UiTurnInStep
<1>3. CASE Failed \/ (\E i \in Conns : Connected(i)) \/ EndRun \/ RunBreaks \/ SigTerm BY <1>1, <1>3, MailInStep
<1>4. CASE StopReturns BY <1>1, <1>4, StopReturnsInStep
<1>5. ASSUME NEW i \in Conns, Steps(i) \/ Teardown(i) \/ Dies(i) PROVE InStep'
  BY <1>1, <1>5, CallInStep, TellInStep, EndInStep
<1>6. CASE HeadLoop BY <1>1, <1>6, HeadAsksInStep, HeadStoppedInStep DEF HeadLoop
<1>7. CASE Outsiders \/ Exit BY <1>1, <1>7, OutsideInStep
<1>8. CASE UNCHANGED vars
  <2>1. Coming' <=> Coming BY <1>8 DEF vars, ipcVars, progVars, Coming
  <2> QED BY <1>1, <1>8, <2>1, StillInStep DEF vars, tunVars, progVars, Serving, InStep, Shown
<1> QED
  BY <1>2, <1>3, <1>4, <1>5, <1>6, <1>7, <1>8
  DEF AppNext, UserKeys, Handlers, UiHandles, Listener, Outsiders

LEMMA InStepCorrect == AppSpec => [](AppTypeOK /\ AppIInv /\ TrayIsHeard /\ ("crossed" \notin mishaps => InStep))
<1> DEFINE I == AppTypeOK /\ AppIInv /\ TrayIsHeard /\ ("crossed" \notin mishaps => InStep)
<1>1. AppInit => I BY AppTypeInit, AppIInvInit, InStepInit
<1>2. I /\ [AppNext]_vars => I'
  BY AppTypeStep, AppIInvStep, TrayIsHeardStep, InStepStep
<1> QED BY <1>1, <1>2, PTL DEF AppSpec

\* At rest, until a command crosses an attempt, the UI holds whatever runs; what
\* the UI or the state file shows as connected runs, unless the history since
\* the last change of tunnel says it was lost; what runs is in the state file,
\* unless a command was lost or a late status overwrote it (tui.go:337-354).
THEOREM ViewsAgreeCorrect == AppSpec => []ViewsAgree
<1>1. AppTypeOK /\ AppIInv /\ ("crossed" \notin mishaps => InStep) => ViewsAgree
  <2> SUFFICES ASSUME AppTypeOK, AppIInv, InStep, OneAtATime, prog \in {"run", "headless"}, Quiet
               PROVE  /\ prog = "run" => live \subseteq {ui.stop} /\ (live # {} => ui.status = "connected")
                      /\ "lost" \notin mishaps =>
                           (disk \/ (prog = "run" /\ ui.status = "connected") => live # {})
                      /\ "stale" \notin mishaps => (live # {} => disk)
    BY DEF ViewsAgree, AppIInv
  <2>1. Serving /\ wait = Idle /\ ~Overlaps /\ \A i \in Conns : ~InCall(i)
    BY DEF Serving, Quiet, Overlaps
  <2>2. ~Coming BY HasEmpty DEF Quiet, Coming
  <2>3. \A i \in live : conn[i] = "told"
    BY <2>1 DEF InCall, Calling, AppIInv, Turns, AppTypeOK, AttemptType
  <2>4. ASSUME prog = "run" PROVE live \subseteq {ui.stop} /\ (live # {} => ui.status = "connected")
    BY <2>1, <2>4 DEF OneAtATime, AppTypeOK, UiType, UiStates
  <2>5. ASSUME "lost" \notin mishaps PROVE disk \/ (prog = "run" /\ ui.status = "connected") => live # {}
    BY <2>1, <2>5 DEF InStep, Shown
  <2>6. ASSUME "stale" \notin mishaps PROVE live # {} => disk
    BY <2>1, <2>2, <2>3, <2>6 DEF InStep, Seen, AppTypeOK, ControlType
  <2> QED BY <2>4, <2>5, <2>6
<1> QED BY <1>1, InStepCorrect, PTL
=============================================================================
