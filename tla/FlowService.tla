---------------------------- MODULE FlowService ----------------------------
(***************************************************************************)
(* What handleTCP is promised by DialTunFlow: a flow that begins ends with *)
(* one result, a connection or an error, and what was last recorded about  *)
(* its destination on its behalf is that result.  The one wait without a   *)
(* deadline is the wait for a peer's answer over UDP: it may never end.    *)
(***************************************************************************)
CONSTANT Flow
VARIABLES phase, verdict

Unknown == "unknown"
vars == <<phase, verdict>>

TypeOK ==
    /\ phase \in [Flow -> {"idle", "dialing", "waiting", "up", "failed"}]
    /\ verdict \in [Flow -> {Unknown, "ok", "fail"}]

Init ==
    /\ phase = [f \in Flow |-> "idle"]
    /\ verdict = [f \in Flow |-> Unknown]

Begin(f) ==
    /\ phase[f] = "idle"
    /\ phase' = [phase EXCEPT ![f] = "dialing"]
    /\ verdict' = [verdict EXCEPT ![f] = Unknown]

\* Something was recorded before the result is there: a race that failed.
Note(f) ==
    /\ phase[f] = "dialing"
    /\ verdict' = [verdict EXCEPT ![f] = "fail"]
    /\ UNCHANGED phase

Wait(f) ==
    /\ phase[f] = "dialing"
    /\ phase' = [phase EXCEPT ![f] = "waiting"]
    /\ UNCHANGED verdict

\* The peer's answer was a refusal: there are others to try.
Resume(f) ==
    /\ phase[f] = "waiting"
    /\ phase' = [phase EXCEPT ![f] = "dialing"]
    /\ UNCHANGED verdict

Finish(f) ==
    /\ phase[f] \in {"dialing", "waiting"}
    /\ \E ok \in BOOLEAN :
          /\ phase' = [phase EXCEPT ![f] = IF ok THEN "up" ELSE "failed"]
          /\ verdict' = [verdict EXCEPT ![f] = IF ok THEN "ok" ELSE "fail"]

Close(f) ==
    /\ phase[f] \in {"up", "failed"}
    /\ phase' = [phase EXCEPT ![f] = "idle"]
    /\ verdict' = [verdict EXCEPT ![f] = Unknown]

Next == \E f \in Flow : Begin(f) \/ Note(f) \/ Wait(f) \/ Resume(f) \/ Finish(f) \/ Close(f)

Spec == Init /\ [][Next]_vars /\ \A f \in Flow : WF_vars(phase[f] = "dialing" /\ Finish(f))
============================================================================
