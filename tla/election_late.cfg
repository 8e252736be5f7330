SPECIFICATION Spec
CONSTANTS
    s1 = s1
    s2 = s2
    s3 = s3
    Server = {s1, s2, s3}
    Nil = Nil
    LogRank <- EqualRank
    RpcOutlivesRound = TRUE
    MaxRound = 3
    MaxFail = 0
    MaxRestart = 0
SYMMETRY CandidateSymmetry
CONSTRAINT VoterAndCandidates
INVARIANT ElectionSafety
CHECK_DEADLOCK FALSE
