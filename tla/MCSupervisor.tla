------------------------------ MODULE MCSupervisor ------------------------------
(* Bounds of Supervisor for TLC. *)
EXTENDS Supervisor
================================================================================
