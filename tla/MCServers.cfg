\* Two servers and two clients, which share a lock, a monitor, or variables.
SPECIFICATION Spec
CONSTANTS
    NumServers = 2
    Stride = 1
    MaxObjects = 1
    c1 = c1
    c2 = c2
    a = a
    b = b
    Clients = {c1, c2}
    Names = {a, b}
    Sizes = {0, 1}
    Values = {0, 1}
    Programs <- TwoServerPrograms
    Nobody = Nobody
    Null = Null
    NoName = NoName
    NoMsg = NoMsg
INVARIANTS
    MutualExclusion
    OneAnswer
    QueuesSound
PROPERTIES
    OnlyOwnerReleases
SYMMETRY Symmetry
\* the clients' programs end
CHECK_DEADLOCK FALSE
