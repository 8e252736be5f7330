SPECIFICATION Spec
CONSTANTS
    s1 = s1
    s2 = s2
    s3 = s3
    Server = {s1, s2, s3}
    Nil = Nil
    LogRank <- EqualRank
    RpcOutlivesRound = FALSE
    MaxRound = 2
    MaxFail = 0
    MaxRestart = 0
SYMMETRY Symmetry
INVARIANT TypeOK
INVARIANT ElectionSafety
INVARIANT OneVotePerTerm
INVARIANT TallyIsReal
INVARIANT LeaderNotChallenged
CHECK_DEADLOCK FALSE
