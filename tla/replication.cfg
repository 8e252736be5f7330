SPECIFICATION Spec
CONSTANTS
    s1 = s1
    s2 = s2
    s3 = s3
    Server = {s1, s2, s3}
    Nil = Nil
    FetchMargin = 1
    RpcOutlivesRound = TRUE
    ForgetsVote = FALSE
    MaxTerm = 3
    MaxIndex = 4
    MaxCall = 1
    MaxFail = 0
    MaxOrphan = 0
    MaxRestart = 0
SYMMETRY Symmetry
INVARIANT TypeOK
INVARIANT LeaderCompleteness
INVARIANT AppliedAgree
INVARIANT LogMatching
INVARIANT CommittedStays
INVARIANT NoReuse
CHECK_DEADLOCK FALSE
