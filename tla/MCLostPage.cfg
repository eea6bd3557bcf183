SPECIFICATION PagingSpec
CONSTANTS
    Threads = {t1, t2}
    Processes = {p1, p2}
    Pages = {0, 1, 2}
    StackPages = {}
    NumPhysPages = 2
    TLBSize = 2
    NumSwapPages = 2
    Values = {x}
    Garbage = Garbage
    Code = Code
    Layouts <- AllLayouts
    Policies = {"FIFO", "RAND"}
    None = None
SYMMETRY Symmetry
INVARIANT
    WritesKeptByAll
CHECK_DEADLOCK FALSE
