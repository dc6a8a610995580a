--------------------------- MODULE MCPathManager ---------------------------
(***************************************************************************)
(* The choice of a path and the table of nodes it is made from, checked in *)
(* one run: each behaviour moves the part chosen at its start (PathManager *)
(* takes any table, so the other part's table adds nothing to it).         *)
(***************************************************************************)
EXTENDS PathManager, DhtTable, TLC

VARIABLE part

\* Destinations and flows are interchangeable; only invariants are checked.
Symmetry == Permutations(Dest) \cup Permutations(Caller) \cup Permutations(Job)

\* No peer at all; or a stale one before two usable ones, of which the second
\* has no TCP address.
MCTables ==
    {<<>>,
     <<[peer |-> TRUE, fresh |-> FALSE, tcp |-> {"b"}, quic |-> {}, udp |-> {}],
       [peer |-> TRUE, fresh |-> TRUE, tcp |-> {"c"}, quic |-> {}, udp |-> {}],
       [peer |-> TRUE, fresh |-> TRUE, tcp |-> {}, quic |-> {"qd"}, udp |-> {"ud"}]>>}

\* The client's own identifier among them; one node with two records.
MCNodes ==
    {[id |-> 0, cls |-> "server", at |-> 1, rpc |-> FALSE],
     [id |-> 2, cls |-> "peer", at |-> 1, rpc |-> TRUE],
     [id |-> 4, cls |-> "server", at |-> 2, rpc |-> TRUE],
     [id |-> 4, cls |-> "peer", at |-> 1, rpc |-> TRUE],
     [id |-> 7, cls |-> "peer", at |-> 0, rpc |-> TRUE]}

MCProfiles == {[allow |-> {}, rounds |-> 2], [allow |-> {"server"}, rounds |-> 1], [allow |-> {"server"}, rounds |-> 0]}

vars == <<pathVars, tableVars, part>>

Init ==
    /\ PathInit /\ TableInit
    /\ part \in {"path", "table"}
    /\ part = "path" => profile.rounds = 0

Next ==
    \/ part = "path" /\ PathNext /\ UNCHANGED <<tableVars, part>>
    \/ part = "table" /\ TableNext /\ UNCHANGED <<pathVars, part>>

Spec == Init /\ [][Next]_vars

============================================================================
