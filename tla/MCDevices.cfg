SPECIFICATION FairDeviceSpec
CONSTANTS
    driver = driver
    terminal = terminal
    Driver = {driver}
    Type = {"INPUT", "PTY"}
    SyncClient = {shell}
    AsyncClient = {terminal}
    LocalPort <- Ports
    NoKey = nokey
    Garbage = {0, 2}
    ShmemBefore = {0, 5}
    MaxPort = 9
    MaxWaiters = 2
    MaxConns = 2
    MaxRequests = 2
    MaxAsync = 2
    MaxKeys = 3
INVARIANTS
    AnswersOnce
    KeysInOrder
PROPERTIES
    KeysArrive
CHECK_DEADLOCK FALSE
