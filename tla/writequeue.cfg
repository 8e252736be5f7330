SPECIFICATION FairSpec
CONSTANTS
    l1 = l1
    l2 = l2
    r = r
    Local = {l1, l2}
    Repl = {r}
    Nil = Nil
    DrainWhileReplicating = FALSE
    LateSpuriousWakeup = FALSE
    ElementReused = FALSE
    MaxUsn = 5
    MaxRound = 1
    MaxUnpopped = 1
    MaxStateSet = 1
    MaxRestart = 1
INVARIANT TypeOK
INVARIANT NoneSkipped
INVARIANT HighestCommittedIsFinal
PROPERTY EveryWriteEnds
PROPERTY DrainEnds
PROPERTY PartnerReceivesAll
CHECK_DEADLOCK FALSE
