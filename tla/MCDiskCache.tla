---------------------------- MODULE MCDiskCache ----------------------------
(* Model values and constants for checking DiskCache with TLC.             *)
EXTENDS DiskCache, TLC

CONSTANTS q1, q2, q3

QuadSymmetry == Permutations({q1, q2, q3})
=============================================================================
