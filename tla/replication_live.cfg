SPECIFICATION FairSpec
CONSTANTS
    s1 = s1
    s2 = s2
    s3 = s3
    Server = {s1, s2}
    Nil = Nil
    FetchMargin = 1
    RpcOutlivesRound = TRUE
    ForgetsVote = TRUE
    MaxTerm = 3
    MaxIndex = 3
    MaxCall = 2
    MaxFail = 1
    MaxOrphan = 1
    MaxRestart = 1
INVARIANT LeaderCompleteness
INVARIANT NoReuse
PROPERTY ImplementsRaftLog
PROPERTY FollowersCatchUp
CHECK_DEADLOCK FALSE
