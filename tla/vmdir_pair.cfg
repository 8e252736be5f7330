SPECIFICATION FairSpec
CONSTANTS
    Server = {1, 2}
    Agreement <- Pair
    Entry = {e1, e2}
    Parent <- Flat
    Initial = {e1, e2}
    Attr = {a}
    Writer = {1, 2}
    e1 = e1
    e2 = e2
    a = a
    b = b
    PageSize = 1
    EmptyPageCnt = 1
    Overlap = TRUE
    None = None
    MaxWrite = 2
    MaxFail = 1
INVARIANT HighWaterIsTrue
PROPERTY Converges
PROPERTY CyclesEnd
