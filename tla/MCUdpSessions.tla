--------------------------- MODULE MCUdpSessions ---------------------------
\* Two client channels with two flows each, and a cap of one session; one key
\* gets a second session.
EXTENDS UdpSessions

CONSTANTS w1, w2, f1, f2

MCKey == {w1, w2} \X {f1, f2}
MCSession == (MCKey \X {1}) \union {<<<<w1, f1>>, 2>>}
=============================================================================
