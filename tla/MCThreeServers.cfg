\* Three servers, two clients with a lock each.
SPECIFICATION FairSpec
CONSTANTS
    NumServers = 3
    Stride = 1
    MaxObjects = 1
    c1 = c1
    c2 = c2
    a = a
    b = b
    Clients = {c1, c2}
    Names = {a, b}
    Sizes = {0, 1}
    Values = {0, 1}
    Programs <- ThreeServerPrograms
    Nobody = Nobody
    Null = Null
    NoName = NoName
    NoMsg = NoMsg
INVARIANTS
    NoReplyOverlooked
    OneAnswer
PROPERTIES
    CallsAnswered
\* the clients' programs end
CHECK_DEADLOCK FALSE
