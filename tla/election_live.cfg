SPECIFICATION FairSpec
CONSTANTS
    s1 = s1
    s2 = s2
    s3 = s3
    Server = {s1, s2}
    Nil = Nil
    LogRank <- UnequalRank
    RpcOutlivesRound = TRUE
    MaxRound = 2
    MaxFail = 1
    MaxRestart = 1
INVARIANT TallyIsReal
PROPERTY StaleLeaderStepsDown
CHECK_DEADLOCK FALSE
