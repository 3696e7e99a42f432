SPECIFICATION FairSpec
CONSTANTS
    Line <- Lines
    Port = {p1, p2}
    NoLine = noline
    MaxRaise = 3
    MaxYield = 1
    MaxLost = 1
    MaxNoise = 1
INVARIANTS
    EndsSuffice
    FinishedFirst
    NeverPanics
PROPERTY Delivered
CHECK_DEADLOCK FALSE
