---------------------------- MODULE MCVpnSession ----------------------------
EXTENDS VpnSession

\* f1 talks from port 1 to port 2 of a host, f2 from port 2 to port 1.
MCKeyOf(f) == IF f = "f1" THEN <<1, 2>> ELSE <<2, 1>>
MCMirror(k) == <<k[2], k[1]>>
MCKey == {<<1, 2>>, <<2, 1>>}
=============================================================================
