SPECIFICATION Spec
CONSTANTS
    p1 = p1
    p2 = p2
    t1 = t1
    t2 = t2
    t3 = t3
    Boot = Boot
    NoThread = NoThread
    Process = {p1, p2}
    Thread = {t1, t2, t3}
    ProcOf <- MCProcOf
    LastPage = 8
    Span = 5
    MemorySizes = {4, 9}
    Device = 100
    MaxSize = 2
    MaxEntries = 2
    MaxShmem = 1
    MaxKernel = 1
    BootOrder <- MCBootOrder
    Image <- MCImage
INVARIANT NoFault
SYMMETRY MCSymmetry
CHECK_DEADLOCK FALSE
