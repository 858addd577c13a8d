------------------------------- MODULE MCOverlay -------------------------------
(* Bounds of Overlay for TLC. *)
EXTENDS Overlay, TLC

CONSTANTS d1, d2  \* detectors

Symmetric == Permutations(Detectors)

(* Bound: a page that meets one new epoch or one new server, early on, or  *)
(* no page and two detectors, before time passes.                          *)
Small ==
  IF link.mode = "none"
  THEN proc = 1 /\ stab.epoch = 1 /\ now = 0 /\ frame.ver < MaxVersion
  ELSE /\ \E d \in Detectors : \A e \in Detectors \ {d} : call[e] = Poll
       /\ stab.epoch + proc =< 3
       /\ proc = 2 => frame.ver < MaxVersion /\ now =< 1
       /\ stab.epoch = 2 => (frame.ver =< 1 \/ frame.epoch = 1) /\ now =< 1
================================================================================
