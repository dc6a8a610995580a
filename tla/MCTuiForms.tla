----------------------------- MODULE MCTuiForms -----------------------------
(***************************************************************************)
(* Three parts of the terminal UI, the Android service and the client's    *)
(* kept messages, which share no variable, checked in one run: each        *)
(* behaviour moves the part chosen at its start, and the others rest in    *)
(* their initial states.                                                   *)
(***************************************************************************)
EXTENDS TuiForms, SelfUpdate, CloudList, AndroidService, ControlPlane, TLC

VARIABLE part

MCNames == <<"home", "peer-tickets", "work">>

\* A profile of an earlier client, with relay options of every kind, and a
\* managed one with its mesh section on, an embedded engine and a route.
Legacy == [ZeroCfg EXCEPT !.server = "srv", !.relay =
             [ZeroRelay EXCEPT !.id = "peer", !.disc = "url", !.listen = "any:1", !.udp = TRUE,
                               !.turn = "old", !.geo = "DE", !.stake = 3]]
Managed == [ZeroCfg EXCEPT !.server = "srv", !.managed = [client |-> "id"],
              !.mesh = [ZeroMesh EXCEPT !.id = "peer", !.key = "key", !.p2p = TRUE, !.sr = TRUE],
              !.relay = [ZeroRelay EXCEPT !.id = "other", !.turn = "old"],
              !.prot = [ZeroProt EXCEPT !.emb = [split |-> 0, split2 |-> 7], !.route = "direct"]]
MCBegin == {"home" :> ProfileFile(Legacy) @@ "work" :> ProfileFile(Managed)}

\* The second has no third number, the third is newer.
MCCurrent == <<1, 4, 2>>
MCReleases == {<<>>, <<1, 4>>, <<1, 5, 0>>}

\* A plain line of each server, and one with both options.
MCServer == {"s1", "s2"}
MCLines == {[server |-> "s1", tcp |-> FALSE, tun6 |-> FALSE], [server |-> "s1", tcp |-> TRUE, tun6 |-> TRUE],
            [server |-> "s2", tcp |-> FALSE, tun6 |-> FALSE]}

\* Two starts: both with a TUN device, of the two modes without one, or of
\* different kinds.
MCPlans == {<<"tun", "tun">>, <<"dpi", "proxy">>, <<"tun", "dpi">>}

vars == <<formVars, updVars, cloudVars, androidVars, cpVars, part>>

Init ==
    /\ FormsInit /\ UpdInit /\ CloudInit /\ AndroidInit /\ CpInit
    /\ part \in {"forms", "update", "cloud", "android", "control"}
    /\ part # "forms" => env = "paranoid"
    /\ part # "android" => work[2].mode = "proxy"
    /\ part # "cloud" => \A e \in Entry : listing[e] = Nil /\ saved[e] = Nil

\* Bounds: a second write of the forms in the empty environment only, a second
\* instance of the service for the starts of different kinds only.
FewWrites == spent.writes <= 1 \/ env = ""
FewInstances == now = 1 \/ (work[1].mode = "tun" /\ work[2].mode = "dpi")

Next ==
    \/ part = "forms" /\ FormsNext /\ FewWrites' /\ UNCHANGED <<updVars, cloudVars, androidVars, cpVars, part>>
    \/ part = "update" /\ UpdNext /\ UNCHANGED <<formVars, cloudVars, androidVars, cpVars, part>>
    \/ part = "cloud" /\ CloudNext /\ UNCHANGED <<formVars, updVars, androidVars, cpVars, part>>
    \/ part = "android" /\ AndroidNext /\ FewInstances' /\ UNCHANGED <<formVars, updVars, cloudVars, cpVars, part>>
    \/ part = "control" /\ CpNext /\ UNCHANGED <<formVars, updVars, cloudVars, androidVars, part>>

Spec == Init /\ [][Next]_vars

=============================================================================
