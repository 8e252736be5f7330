SPECIFICATION FairSpec
CONSTANTS
    e1 = e1
    e2 = e2
    Entry = {e1, e2}
    None = None
    SlowApply = FALSE
    CommitOutcome = {TRUE}
    MaxIndex = 4
    MaxElection = 3
    MaxRestart = 1
INVARIANT TypeOK
INVARIANT DatabaseIsLog
INVARIANT LastAppliedIsTrue
INVARIANT NoAssert
PROPERTY CommittedIsApplied
