SPECIFICATION Spec
CONSTANTS
    DiskThreads = {t1, t2}
    EchoThreads = {e}
    Workloads <- Pairs
    RequestSectors = {0, 3}
    Values = {x, y}
    None = None
    Keys = {c, q}
    Quit = q
    SystemTick = 1
    RotationTime = 2
    SeekTime = 1
    SectorsPerTrack = 2
    ConsoleTime = 3
    TimerIntervals = {2, 3}
INVARIANTS
    DevicesSound
    PassesTheHead
    NothingForgotten
PROPERTIES
    ImplementsDisk
CHECK_DEADLOCK FALSE
