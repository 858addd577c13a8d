------------------------------ MODULE MCZmqClient ------------------------------
(* Bounds of ZmqClient for TLC. *)
EXTENDS ZmqClient

CONSTANTS c1

NoCaller  == {}
OneCaller == {c1}
================================================================================
