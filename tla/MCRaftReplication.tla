------------------------- MODULE MCRaftReplication -------------------------
(* Instances of RaftReplication for TLC. *)
EXTENDS RaftReplication, TLC

CONSTANTS s1, s2, s3

Symmetry == Permutations(Server)
=============================================================================
