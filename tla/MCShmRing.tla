------------------------------- MODULE MCShmRing -------------------------------
(* Bounds of ShmRing for TLC. *)
EXTENDS ShmRing, TLC

CONSTANTS r1, r2

AllReaders == {r1, r2}
OneReader  == {r1}

Everybody == Proc
Reader1   == {r1}

Symmetry == Permutations(AllReaders)
================================================================================
