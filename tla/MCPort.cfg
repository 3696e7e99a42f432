SPECIFICATION FairSpec
CONSTANTS
    t1 = t1
    t2 = t2
    t3 = t3
    Thread = {t1, t2, t3}
    BootOrder <- ThreeThreads
    Idle = idle
    NoThread = nothread
    PortSlot = {p1}
    MsgSlot = {m1, m2}
    Data = {d}
    Kernel = kernel
    NoPort = noport
    NoMsg = nomsg
    Never = never
    MaxPorts = 2
INVARIANTS
    TypeOK
    ThreadPlacement
    NoLostWakeup
    PortOwnership
    MessageOwnership
PROPERTIES
    ReadyRuns
    ImplementsChannel
