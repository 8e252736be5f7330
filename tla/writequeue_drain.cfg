SPECIFICATION FairSpec
CONSTANTS
    l1 = l1
    l2 = l2
    r = r
    Local = {l1}
    Repl = {r}
    Nil = Nil
    DrainWhileReplicating = TRUE
    LateSpuriousWakeup = FALSE
    ElementReused = FALSE
    MaxUsn = 4
    MaxRound = 1
    MaxUnpopped = 0
    MaxStateSet = 1
    MaxRestart = 0
PROPERTY DrainEnds
CHECK_DEADLOCK FALSE
