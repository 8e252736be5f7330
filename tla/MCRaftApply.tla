---------------------------- MODULE MCRaftApply ----------------------------
(* Instances of RaftApply for TLC. *)
EXTENDS RaftApply

CONSTANTS e1, e2
=============================================================================
