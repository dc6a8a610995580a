--------------------------- MODULE MCRelaySession ---------------------------
(* Two nodes; a route of one hop, and one that goes back and forth and is   *)
(* longer than the hop limit; three sessions for two slots per node.  A     *)
(* client counts its hops from 0, or from 1 as the client of this           *)
(* repository does.                                                         *)
EXTENDS RelaySession
CONSTANTS a, b
MCRoutes == {<<a>>, <<a, b, a>>}
MCAsks == {<< <<a>>, 1, 1 >>, << <<a, b, a>>, 0, 0 >>, << <<a, b, a>>, 1, 1 >>}
=============================================================================
