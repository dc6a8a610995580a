----------------------------- MODULE MCIngress -----------------------------
(* Pools small enough to saturate: one handshake thread, one session thread *)
(* that may become two, queues of one, one QUIC handshake at a time.  Two   *)
(* TCP connections and two streams, both served by one event loop.          *)
EXTENDS Ingress, TLC
CONSTANTS t1, t2, q1, q2
MCTcp == {t1, t2}
MCQuic == {q1, q2}
MCLoopOf == (q1 :> "l1") @@ (q2 :> "l1")
MCCore == [p \in Pool |-> 1]
MCMax == [p \in Pool |-> IF p = "hs" THEN 1 ELSE 2]
MCCap == [p \in Pool |-> 1]
=============================================================================
