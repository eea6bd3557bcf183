\* four threads, a semaphore, two locks and a condition
CONSTANTS
    Threads = {main, t1, t2, t3}
    Main = main
    Sems = {s1}
    Locks = {l1, l2}
    Conds = {c1}
    NoThread = NoThread
    NoLock = NoLock
    NoObj = NoObj
    MaxValue = 2
SPECIFICATION Spec
SYMMETRY Symmetry
\* callers may block for ever: the machine then halts, or every thread has finished
CHECK_DEADLOCK FALSE
INVARIANTS
    TypeOK
    EveryThreadInOnePlace
    MutualExclusion
    LockStateSound
    SleepersSound
PROPERTIES
    MonitorSpec
