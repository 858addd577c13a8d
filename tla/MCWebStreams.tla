--------------------------- MODULE MCWebStreams ---------------------------
(* Two windows, one of them without EventSource, ask for three connections *)
(* of a bulkhead with two places; five disturbances let one window arrive, *)
(* lose three connections in a row and leave, or both come and go.         *)
EXTENDS WebStreams
=============================================================================
