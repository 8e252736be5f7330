--------------------------- MODULE MCRaftElection ---------------------------
(* Instances of RaftElection for TLC. *)
EXTENDS RaftElection, TLC

CONSTANTS s1, s2, s3

\* All logs equally up to date.
EqualRank == [s \in Server |-> 1]

\* s1's log is behind the others'.
UnequalRank == [s \in Server |-> IF s = s1 THEN 1 ELSE 2]

Symmetry == Permutations(Server)

\* Where to look for a counterexample: s1 votes, the others stand for election,
\* and no leader has pinged yet.
VoterAndCandidates ==
    /\ role[s1] = "follower"
    /\ \A s, p \in Server : rpc[s][p].kind # "ping"
CandidateSymmetry == Permutations(Server \ {s1})
=============================================================================
