------------------------------ MODULE MCRingEpoch ------------------------------
(* Bounds of RingEpoch for TLC. *)
EXTENDS RingEpoch, TLC

CONSTANTS r1, r2

OneReader  == {r1}
TwoReaders == {r1, r2}

Symmetry == Permutations(TwoReaders)
================================================================================
