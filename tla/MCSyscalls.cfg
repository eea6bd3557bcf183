SPECIFICATION FairSpec
CONSTANTS
    Space = Space
    Spaces = {Space}
    Threads = {t1, t2, t3}
    MaxLocks = 2
    MaxConditions = 1
    SpaceOf <- OneSpace
    NoThread = NoThread
INVARIANTS
    LiveLockSound
    NobodyWaitsInDeleted
PROPERTY
    MarkedConditionDeleted
CHECK_DEADLOCK FALSE
