SPECIFICATION Spec
CONSTANTS
    Server = {1, 2, 3}
    Agreement <- Chain
    Entry = {e1, e2}
    Parent <- Child
    Initial = {}
    Attr = {a}
    Writer = {1, 2}
    e1 = e1
    e2 = e2
    a = a
    b = b
    PageSize = 1
    EmptyPageCnt = 1
    Overlap = FALSE
    None = None
    MaxWrite = 4
    MaxFail = 0
INVARIANT TypeOK
INVARIANT NotAhead
INVARIANT VectorIsTrue
INVARIANT HighWaterIsTrue
PROPERTY ChangesWin
