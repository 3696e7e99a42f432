SPECIFICATION FairSpec
CONSTANTS
    t1 = t1
    t2 = t2
    t3 = t3
    short = short
    other = other
    Thread = {t1, t2, t3}
    BootOrder <- ThreeThreads
    Idle = idle
    NoThread = nothread
    Name = {short, other}
    Stored <- ShortNames
    Port = {1, 2}
    NotFound = notfound
    NoName = noname
    MaxServers = 2
    MaxWaiters = 2
INVARIANTS
    ThreadPlacement
    SleepersUnregistered
    WokenFindTheirs
PROPERTIES
    LookupAnswers
