----------------------------- MODULE MCTunFlow -----------------------------
EXTENDS TunFlow

\* No peer, or one that is reached over QUIC and TCP.
MCTables ==
    {<<>>,
     <<[peer |-> TRUE, fresh |-> TRUE, tcp |-> {"a"}, quic |-> {"qa"}, udp |-> {"ua"}]>>}
============================================================================
