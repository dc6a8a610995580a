----------------------------- MODULE MCClientApp -----------------------------
(***************************************************************************)
(* The client process and the publishing of its presence, checked in one   *)
(* run: each behaviour moves the part chosen at its start, and the other   *)
(* rests in its initial states.                                            *)
(***************************************************************************)
EXTENDS ClientApp, Presence

VARIABLE part

MCSeeds == <<"s1", "s2">>

allVars == <<vars, presVars, part>>

Init ==
    /\ AppInit /\ PresInit
    /\ part \in {"app", "presence"}
    /\ part # "presence" => sock = "failed"
    /\ part # "app" => ~tray.up /\ ~disk

\* Bound: what the app promises ends when a command crosses an attempt, so from
\* there a running UI only leaves; the headless loop and the end are explored.
AppStep == AppNext /\ ("crossed" \in mishaps /\ prog = "run" => prog' # "run")

Next ==
    \/ part = "app" /\ AppStep /\ UNCHANGED <<presVars, part>>
    \/ part = "presence" /\ PresNext /\ UNCHANGED <<vars, part>>

\* Rounds, stores and late packets go on, and a client that asks again and again
\* is answered again and again.  While another part moves nothing is owed; none
\* of the actions of AppFairness is enabled where ClientApp rests.
Pres(A) == part = "presence" /\ A
PresFairness ==
    /\ WF_presVars(Pres(ListenerGathers)) /\ WF_presVars(Pres(ListenerAdvertises))
    /\ WF_presVars(Pres(PunchRound)) /\ WF_presVars(Pres(HeldEnds))
    /\ \A t \in Publisher : WF_presVars(Pres(StoreNext(t)))
    /\ SF_presVars(Pres(FetchFinds))

Spec == Init /\ [][Next]_allVars /\ AppFairness /\ PresFairness

=============================================================================
