------------------------------- MODULE MCFullStack -------------------------------
(* Bounds of FullStack for TLC. *)
EXTENDS FullStack
================================================================================
