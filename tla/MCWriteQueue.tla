---------------------------- MODULE MCWriteQueue ----------------------------
(* Instances of WriteQueue for TLC. *)
EXTENDS WriteQueue, TLC

CONSTANTS l1, l2, r

Symmetry == Permutations(Local)
=============================================================================
