SPECIFICATION Spec
CONSTANTS
    s1 = s1
    s2 = s2
    s3 = s3
    Server = {s1, s2, s3}
    Nil = Nil
    FetchMargin = 1
    RpcOutlivesRound = FALSE
    ForgetsVote = FALSE
    MaxTerm = 3
    MaxIndex = 3
    MaxCall = 1
    MaxFail = 1
    MaxOrphan = 0
    MaxRestart = 1
SYMMETRY Symmetry
INVARIANT CommittedStays
INVARIANT NoFatalError
PROPERTY ImplementsRaftLog
CHECK_DEADLOCK FALSE
