SPECIFICATION FairSpec
CONSTANTS
    MaxProcesses = 3
    MaxThreads = 5
    FirstIDs <- IDs
INVARIANTS
    CountsSound
    HaltsOnlyAtTheEnd
PROPERTY
    LastExitHalts
CHECK_DEADLOCK FALSE
