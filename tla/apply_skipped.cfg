SPECIFICATION Spec
CONSTANTS
    e1 = e1
    e2 = e2
    Entry = {e1, e2}
    None = None
    SlowApply = TRUE
    CommitOutcome = {TRUE}
    MaxIndex = 4
    MaxElection = 3
    MaxRestart = 0
INVARIANT DatabaseIsLog
