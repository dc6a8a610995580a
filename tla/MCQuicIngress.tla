--------------------------- MODULE MCQuicIngress ---------------------------
(* Five chunks around the watermarks of a ring of High = 4, Low = 2: small  *)
(* ones, an empty one, one at the limit and one beyond it.                  *)
EXTENDS QuicIngress
MCLength == <<1, 3, 0, 5, 4>>
=============================================================================
