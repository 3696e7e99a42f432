SPECIFICATION FairMutexSpec
CONSTANTS
    t1 = t1
    t2 = t2
    t3 = t3
    t4 = t4
    Thread = {t1, t2, t3, t4}
    BootOrder <- FourThreads
    Idle = idle
    NoThread = nothread
    Mutexes = {m1, m2}
    NoMutex = nomutex
INVARIANTS
    MutualExclusion
    MutexPlacement
    NoLostWakeup
PROPERTIES
    HandsOver
