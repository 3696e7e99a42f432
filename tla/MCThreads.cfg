SPECIFICATION Spec
CONSTANTS
    t1 = t1
    t2 = t2
    t3 = t3
    t4 = t4
    User = {t1, t2, t3, t4}
    Cleaner = cleaner
    BootOrder <- FourThreads
    Idle = idle
    NoThread = nothread
INVARIANTS
    QueuesIntact
    ThreadsAccounted
PROPERTIES
    DeadReaped
