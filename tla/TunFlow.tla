------------------------------ MODULE TunFlow ------------------------------
(***************************************************************************)
(* Client, internal/tunnel and handleTCP of internal/vpn: how a TCP flow   *)
(* from the TUN device gets its connection.  DialTunFlow tries the first   *)
(* hop of a route, peers over QUIC, UDP and TCP, a race of QUIC and TCP to *)
(* the server, and last the server again, and records what happened with   *)
(* the path manager and the selector between QUIC and TCP.                 *)
(*                                                                         *)
(* A wire is an open connection or stream, named by the goroutine that     *)
(* dialled it: the flow's own, or one of the two a race starts.            *)
(***************************************************************************)
EXTENDS PathManager

CONSTANTS
    PlannerV2,   \* prot.RoutePlannerV2
    Attempts,    \* tries of a TCP dial: rounds times addresses
    DegradeAt,   \* quicFailDegradeThreshold, 4 in the code
    ProbeEvery   \* a degraded QUIC is tried every so many times, 6 in the code

ASSUME TunAssumption ==
    /\ PlannerV2 \in BOOLEAN
    /\ {Attempts, DegradeAt, ProbeEvery} \subseteq Nat \ {0}

Flow == Caller
Racer == {"rq", "rt"}
Wire == Flow \X ({"main"} \cup Racer)

VARIABLES
    conf,        \* DualTransport and whether the transport is QUIC
    flow,        \* one record per handleTCP
    dial,        \* per goroutine: "off", "wait" (start delay), "try", "open", "ack" (no deadline), "send"
    left,        \* per flow: tries left of its own dial; per racer likewise
    wires,       \* open wires
    ch,          \* resCh of the flow's race
    ctx,         \* the race's context: "none", "live", "done"
    sel,         \* DualPathSelector
    verdict      \* ghost: what the flow last recorded

tunVars == <<conf, flow, dial, left, wires, ch, ctx, sel, verdict>>
vars == <<pathVars, tunVars>>

Idle == [pc |-> "idle", dst |-> "none", mode |-> "direct", exit |-> FALSE, shared |-> FALSE,
         allow |-> FALSE, pref |-> FALSE, dec |-> Direct(FALSE), i |-> 1, conn |-> "none"]

Init ==
    /\ PathInit
    /\ conf \in [dual : BOOLEAN, quic : BOOLEAN]
    /\ flow = [f \in Flow |-> Idle]
    /\ dial = [w \in Wire |-> "off"]
    /\ left = [w \in Wire |-> 0]
    /\ wires = {}
    /\ ch = [f \in Flow |-> <<>>]
    /\ ctx = [f \in Flow |-> "none"]
    /\ sel = [fails |-> 0, degraded |-> FALSE, tick |-> 0]
    /\ verdict = [f \in Flow |-> "unknown"]

Main(f) == <<f, "main">>
HasSel == conf.dual /\ conf.quic
Racing(f) == flow[f].pc = "racing"

\* RecordQuicOutcome: DegradeAt failures in a row degrade QUIC, a success restores it.
SelAfter(ok) ==
    IF ~HasSel THEN sel
    ELSE IF ok THEN [sel EXCEPT !.fails = 0, !.degraded = FALSE]
    ELSE [sel EXCEPT !.fails = Min2(DegradeAt, @ + 1), !.degraded = @ \/ sel.fails + 1 >= DegradeAt]

----------------------------------------------------------------------------
\* The stages of DialTunFlow after the decision, and which of them a flow enters.
Stages == <<"hop", "pquic", "pudp", "ptcp", "race", "last">>

CandidatesAt(s, dec) == CASE s = "pquic" -> dec.quic [] s = "pudp" -> dec.udp [] s = "ptcp" -> dec.tcp

Enters(r, s) ==
    CASE s \in {"pquic", "pudp", "ptcp"} -> CandidatesAt(s, r.dec) > 0
      [] s = "race" -> conf.dual /\ r.shared
      [] OTHER -> TRUE

\* The flow at the first stage from the k-th on that applies to it.
Enter(r, k) ==
    LET j == CHOOSE j \in k .. 6 : Enters(r, Stages[j]) /\ \A m \in k .. j - 1 : ~Enters(r, Stages[m])
        s == Stages[j]
    IN  [r EXCEPT !.pc = IF s # "last" THEN s ELSE IF r.pref THEN "tcp" ELSE "quic", !.i = 1]

\* Without the route planner one candidate of each kind is kept.
Trim(d) ==
    IF PlannerV2 THEN d
    ELSE [d EXCEPT !.tcp = Min2(1, @), !.quic = Min2(1, @), !.udp = Min2(1, @)]

\* BuildRoutePlan: the kinds of the hops; only the first is dialled from here.
RoutePlan(r) ==
    LET d == r.dec
        max == IF d.hops > 0 THEN d.hops ELSE 1
        tcp == [k \in 1 .. d.tcp |-> "peer_tcp"]
        other == (IF d.quic > 0 THEN <<"peer_quic">> ELSE <<>>) \o (IF d.udp > 0 THEN <<"peer_udp">> ELSE <<>>)
        server == <<IF r.exit THEN "server_relay" ELSE "direct_server">>
        all == IF tcp # <<>> THEN tcp ELSE IF other # <<>> THEN other ELSE server
    IN  SubSeq(all, 1, Min2(max, Len(all)))

\* A flow about to dial: over TCP the server's addresses are tried in rounds,
\* a peer or a QUIC stream once.
Tries(r) ==
    CASE r.pc \in {"hop"} -> IF RoutePlan(r)[1] \in {"server_relay", "direct_server"} THEN Attempts ELSE 1
      [] r.pc \in {"pquic", "pudp", "ptcp"} -> 1
      [] r.pc = "quic" -> IF conf.quic THEN 1 ELSE Attempts
      [] r.pc = "direct" -> IF r.pref THEN Attempts ELSE 1
      [] OTHER -> Attempts

Dials(pc) == pc \in {"direct", "hop", "pquic", "pudp", "ptcp", "tcp", "quic", "fallback"}

\* The flow moves to r; if r dials, its dial starts.
Become(f, r) ==
    /\ flow' = [flow EXCEPT ![f] = r]
    /\ dial' = [dial EXCEPT ![Main(f)] = IF Dials(r.pc) THEN "try" ELSE "off"]
    /\ left' = [left EXCEPT ![Main(f)] = IF Dials(r.pc) THEN Tries(r) ELSE 0]

Decided(f, r, d) == Become(f, Enter([r EXCEPT !.dec = Trim(d), !.pref = @ \/ d.pref], 1))

----------------------------------------------------------------------------
\* handleTCP and the head of DialTunFlow: mode, cluster exit, shared QUIC
\* connection.  A slot is used again once its goroutines are gone.
Start(f, d, m, exit, allow) ==
    /\ flow[f].pc = "idle"
    /\ \A w \in Wire : w[1] = f => dial[w] = "off" /\ w \notin wires
    /\ exit => m = "server_relay"
    /\ allow => m = "auto"
    /\ LET r == [Idle EXCEPT !.dst = d, !.mode = m, !.exit = exit, !.shared = conf.quic, !.pref = exit,
                             !.allow = allow \/ m = "peer_relay"]
       IN  CASE m = "direct" -> Become(f, [r EXCEPT !.pc = "direct", !.pref = ~conf.quic])
             [] m = "server_relay" -> Decided(f, r, Direct(exit))
             [] OTHER -> Become(f, [r EXCEPT !.pc = "decide"])
    /\ ch' = [ch EXCEPT ![f] = <<>>]
    /\ ctx' = [ctx EXCEPT ![f] = "none"]
    /\ verdict' = [verdict EXCEPT ![f] = "unknown"]
    /\ UNCHANGED <<pathVars, conf, wires, sel>>

\* pm.Decide, in one step or with the search for peers in a second one.
AskPath(f) ==
    /\ flow[f].pc = "decide" /\ ask[f] = NoAsk
    /\ Decide(f, flow[f].dst, conf.dual /\ flow[f].shared, flow[f].allow, flow[f].mode = "peer_relay")
    /\ IF ask'[f] = NoAsk THEN Decided(f, flow[f], answer') ELSE UNCHANGED <<flow, dial, left>>
    /\ UNCHANGED <<conf, wires, ch, ctx, sel, verdict>>

AskPeers(f) ==
    /\ TryPeer(f)
    /\ Decided(f, flow[f], answer')
    /\ UNCHANGED <<conf, wires, ch, ctx, sel, verdict>>

----------------------------------------------------------------------------
\* What a flow records, and the selector's share of it.
Tell(f, ok) ==
    /\ Record(flow[f].dst, ok)
    /\ verdict' = [verdict EXCEPT ![f] = IF ok THEN "ok" ELSE "fail"]
Quiet == UNCHANGED <<pathVars, verdict>>

\* Mutant: a peer that failed is the end of it, and nothing is recorded.
GiveUpQuietly(f) ==
    /\ Become(f, [flow[f] EXCEPT !.pc = "err"])
    /\ Quiet /\ UNCHANGED sel

\* A dial of the flow succeeded: record it and hand the wire to handleTCP.
Won(f) ==
    /\ Become(f, [Idle EXCEPT !.pc = "up", !.conn = "main"])
    /\ Tell(f, TRUE)
    /\ sel' = IF flow[f].pc = "quic" THEN SelAfter(TRUE) ELSE sel

\* A dial of the flow failed for good: the next candidate, the next stage,
\* the TCP fall-back of a failed QUIC dial, or the end.
Lost(f) ==
    LET r == flow[f] IN
    \/ /\ r.pc = "hop"
       /\ Become(f, Enter(r, 2)) /\ Quiet /\ UNCHANGED sel
    \/ /\ r.pc \in {"pquic", "pudp", "ptcp"}
       /\ LET k == CHOOSE k \in 2 .. 4 : Stages[k] = r.pc
              next == IF r.pc = "ptcp" THEN [r EXCEPT !.dec.class = "direct", !.dec.tcp = 0] ELSE r
          IN  Become(f, IF r.i < CandidatesAt(r.pc, r.dec) THEN [r EXCEPT !.i = @ + 1] ELSE Enter(next, k + 1))
       /\ Quiet /\ UNCHANGED sel
    \/ /\ r.pc = "quic" /\ conf.dual /\ r.shared
       /\ sel' = SelAfter(FALSE)
       /\ Become(f, [r EXCEPT !.pc = "fallback"]) /\ Quiet
    \/ /\ r.pc \in {"direct", "tcp", "fallback"} \/ (r.pc = "quic" /\ ~(conf.dual /\ r.shared))
       /\ Become(f, [Idle EXCEPT !.pc = "err"])
       /\ Tell(f, FALSE) /\ UNCHANGED sel

----------------------------------------------------------------------------
\* One dial: connect, then the handshake, the request and the hop's answer;
\* a failure after the connect closes the wire before the next try.
Connect(w) ==
    /\ dial[w] = "try"
    /\ dial' = [dial EXCEPT ![w] = "open"]
    /\ wires' = wires \cup {w}
    /\ UNCHANGED <<pathVars, conf, flow, left, ch, ctx, sel, verdict>>

\* Mutant: the wire of a rejected hop is kept open for the next try.
FailedWires(w) == wires

CloseOnFailure(w) == wires \ {w}

TryFails(w) ==
    /\ dial[w] \in {"try", "open"} /\ left[w] > 1
    /\ dial' = [dial EXCEPT ![w] = "try"]
    /\ left' = [left EXCEPT ![w] = @ - 1]
    /\ wires' = CloseOnFailure(w)
    /\ UNCHANGED <<pathVars, conf, flow, ch, ctx, sel, verdict>>

\* DialPeerRelayUDP clears the deadline before it reads the peer's answer,
\* which is asked for when the route planner is on or the route is a chain.
OverUDP(r) == r.pc = "pudp" \/ (r.pc = "hop" /\ RoutePlan(r)[1] = "peer_udp")
NeedHopAck(r) == PlannerV2 \/ (r.pc = "hop" /\ Len(RoutePlan(r)) > 1)
Unlimited(f) == OverUDP(flow[f]) /\ NeedHopAck(flow[f])

AwaitAck(f) ==
    /\ dial[Main(f)] = "open" /\ Unlimited(f)
    /\ dial' = [dial EXCEPT ![Main(f)] = "ack"]
    /\ UNCHANGED <<pathVars, conf, flow, left, wires, ch, ctx, sel, verdict>>

DialSucceeds(f) ==
    /\ dial[Main(f)] = IF Unlimited(f) THEN "ack" ELSE "open"
    /\ Won(f)
    /\ UNCHANGED <<conf, wires, ch, ctx>>

DialFails(f) ==
    /\ dial[Main(f)] \in {"try", "open", "ack"} /\ left[Main(f)] = 1
    /\ Lost(f)
    /\ wires' = CloseOnFailure(Main(f))
    /\ UNCHANGED <<conf, ch, ctx>>

----------------------------------------------------------------------------
\* PreferQUIC: a chance while QUIC is good, every ProbeEvery-th time once degraded.
PreferQUIC(yes) ==
    \/ ~sel.degraded /\ sel' = sel
    \/ /\ sel.degraded
       /\ sel' = [sel EXCEPT !.tick = (@ + 1) % ProbeEvery]
       /\ yes = (sel'.tick = 0)

\* dialDualRace: the preferred transport starts at once, the other after 120 ms.
StartRace(f) ==
    /\ flow[f].pc = "race"
    /\ \E yes \in BOOLEAN :
         /\ PreferQUIC(yes)
         /\ flow' = [flow EXCEPT ![f].pc = "racing", ![f].pref = ~yes, ![f].i = 0]
         /\ dial' = [dial EXCEPT ![<<f, "rq">>] = IF yes THEN "try" ELSE "wait",
                                 ![<<f, "rt">>] = IF yes THEN "wait" ELSE "try"]
    /\ left' = [left EXCEPT ![<<f, "rq">>] = 1, ![<<f, "rt">>] = Attempts]
    /\ ctx' = [ctx EXCEPT ![f] = "live"]
    /\ UNCHANGED <<pathVars, conf, wires, ch, verdict>>

DelayEnds(f, k) ==
    /\ dial[<<f, k>>] = "wait"
    /\ \/ dial' = [dial EXCEPT ![<<f, k>>] = "try"] /\ UNCHANGED left
       \/ /\ ctx[f] = "done"
          /\ dial' = [dial EXCEPT ![<<f, k>>] = "off"]
          /\ left' = [left EXCEPT ![<<f, k>>] = 0]
    /\ UNCHANGED <<pathVars, conf, flow, wires, ch, ctx, sel, verdict>>

\* The racer's dial is over; its result waits to be sent.
RacerDone(f, k) ==
    LET w == <<f, k>> IN
    /\ \/ dial[w] = "open" /\ UNCHANGED wires
       \/ dial[w] \in {"try", "open"} /\ left[w] = 1 /\ wires' = CloseOnFailure(w)
    /\ dial' = [dial EXCEPT ![w] = "send"]
    /\ left' = [left EXCEPT ![w] = 0]
    /\ UNCHANGED <<pathVars, conf, flow, ch, ctx, sel, verdict>>

\* Mutant: a racer that finds the race over drops its connection.
RacerQuitsOpen(f, k) ==
    /\ dial[<<f, k>>] = "send" /\ ctx[f] = "done"
    /\ dial' = [dial EXCEPT ![<<f, k>>] = "off"]
    /\ UNCHANGED <<pathVars, conf, flow, left, wires, ch, ctx, sel, verdict>>

\* The select of a racer: once the race is over both branches may be ready.
RacerQuits(f, k) ==
    /\ dial[<<f, k>>] = "send" /\ ctx[f] = "done"
    /\ dial' = [dial EXCEPT ![<<f, k>>] = "off"]
    /\ wires' = wires \ {<<f, k>>}
    /\ UNCHANGED <<pathVars, conf, flow, left, ch, ctx, sel, verdict>>

RacerSends(f, k) ==
    /\ dial[<<f, k>>] = "send"
    /\ dial' = [dial EXCEPT ![<<f, k>>] = "off"]
    /\ ch' = [ch EXCEPT ![f] = Append(@, [who |-> k, ok |-> <<f, k>> \in wires])]
    /\ UNCHANGED <<pathVars, conf, flow, left, wires, ctx, sel, verdict>>

\* The flow takes the first result that is a connection and cancels the race.
RaceWon(f) ==
    /\ Racing(f) /\ ch[f] # <<>> /\ Head(ch[f]).ok
    /\ Become(f, [Idle EXCEPT !.pc = "up", !.conn = Head(ch[f]).who])
    /\ ch' = [ch EXCEPT ![f] = Tail(@)]
    /\ ctx' = [ctx EXCEPT ![f] = "done"]
    /\ sel' = SelAfter(Head(ch[f]).who = "rq")
    /\ Tell(f, TRUE)
    /\ UNCHANGED <<conf, wires>>

RaceError(f) ==
    /\ Racing(f) /\ ch[f] # <<>> /\ ~Head(ch[f]).ok /\ flow[f].i = 0
    /\ ch' = [ch EXCEPT ![f] = Tail(@)]
    /\ flow' = [flow EXCEPT ![f].i = 1]
    /\ UNCHANGED <<pathVars, conf, dial, left, wires, ctx, sel, verdict>>

\* Both failed, or the time is up.  The selector hears of the transport that
\* was preferred, which for QUIC counts as a success.
RaceLost(f) ==
    /\ Racing(f)
    /\ \/ /\ ch[f] # <<>> /\ ~Head(ch[f]).ok /\ flow[f].i = 1
          /\ ch' = [ch EXCEPT ![f] = Tail(@)]
       \/ UNCHANGED ch
    /\ ctx' = [ctx EXCEPT ![f] = "done"]
    /\ sel' = SelAfter(~flow[f].pref)
    /\ Tell(f, FALSE)
    /\ Become(f, Enter(flow[f], 6))
    /\ UNCHANGED <<conf, wires>>

\* handleTCP ends: the wire is closed, or there was none.
HandleTCPEnds(f) ==
    /\ flow[f].pc \in {"up", "err"}
    /\ flow' = [flow EXCEPT ![f] = Idle]
    /\ wires' = wires \ {<<f, flow[f].conn>>}
    /\ verdict' = [verdict EXCEPT ![f] = "unknown"]
    /\ UNCHANGED <<pathVars, conf, dial, left, ch, ctx, sel>>

ProbeICE == Probe /\ UNCHANGED tunVars

FlowSteps(f) ==
    \/ AskPath(f) \/ AskPeers(f) \/ StartRace(f) \/ AwaitAck(f)
    \/ Connect(Main(f)) \/ TryFails(Main(f)) \/ DialSucceeds(f) \/ DialFails(f)
    \/ RaceWon(f) \/ RaceError(f) \/ RaceLost(f)

RacerSteps(f, k) ==
    \/ DelayEnds(f, k) \/ Connect(<<f, k>>) \/ TryFails(<<f, k>>)
    \/ RacerDone(f, k) \/ RacerQuits(f, k) \/ RacerSends(f, k)

Next ==
    \/ \E f \in Flow, d \in Dest, m \in {"direct", "auto", "peer_relay", "server_relay"},
          exit, allow \in BOOLEAN : Start(f, d, m, exit, allow)
    \/ \E f \in Flow : FlowSteps(f) \/ HandleTCPEnds(f)
    \/ \E f \in Flow, k \in Racer : RacerSteps(f, k)
    \/ ProbeICE

\* Every dial has a deadline, except for an answer over UDP, and the race a
\* timeout, so goroutines move on.
Spec == /\ Init /\ [][Next]_vars
        /\ \A f \in Flow : WF_vars(dial[Main(f)] # "ack" /\ FlowSteps(f))
        /\ \A f \in Flow, k \in Racer : WF_vars(RacerSteps(f, k))

----------------------------------------------------------------------------
TypeOK ==
    /\ PathTypeOK
    /\ conf \in [dual : BOOLEAN, quic : BOOLEAN]
    /\ \A f \in Flow : flow[f].dst \in Dest \cup {"none"}
    /\ dial \in [Wire -> {"off", "wait", "try", "open", "ack", "send"}]
    /\ left \in [Wire -> 0 .. Attempts]
    /\ wires \subseteq Wire
    /\ ctx \in [Flow -> {"none", "live", "done"}]
    /\ sel \in [fails : 0 .. DegradeAt, degraded : BOOLEAN, tick : 0 .. ProbeEvery - 1]

InChannel(w) == \E i \in 1 .. Len(ch[w[1]]) : ch[w[1]][i] = [who |-> w[2], ok |-> TRUE]

\* Every open wire has an owner (tunnel.go:49-78, preamble.go:623-629): the
\* goroutine that is dialling it, the flow it was given to, or the channel of
\* a race; and the wire a flow was given is open.  A wire whose race is over
\* and that sits in the channel is nobody's any more: it is never closed.
WiresAccounted ==
    /\ \A w \in wires : \/ dial[w] \in {"open", "ack", "send"}
                        \/ flow[w[1]].conn = w[2]
                        \/ InChannel(w)
    /\ \A f \in Flow : flow[f].pc = "up" => <<f, flow[f].conn>> \in wires

PhaseOf(f) ==
    LET pc == flow[f].pc IN
    CASE pc = "idle" -> "idle" [] pc = "up" -> "up" [] pc = "err" -> "failed"
      [] dial[Main(f)] = "ack" -> "waiting" [] OTHER -> "dialing"

Service == INSTANCE FlowService WITH phase <- [f \in Flow |-> PhaseOf(f)]

\* DialTunFlow implements FlowService: one result per flow, recorded as what
\* it is along each of its return paths (preamble.go:307-601), and always
\* reached, except that a flow may sit in peer_udp.go:120 for good.
DeliversOneResult == Service!Spec
============================================================================
