SPECIFICATION FairTerminalSpec
CONSTANTS
    Width = 2
    Height = 2
    Blank = " "
    CR = "CR"
    LF = "LF"
    IntRange = 16
    Reports <- SmallReports
    BufSize = 4
    Greetings <- SmallGreetings
    KernelLines <- SmallKernelLines
    Key = {"x", "y"}
    MaxCodes = 3
    MaxPrints = 1
INVARIANTS
    ScreenShowsTexts
    TextsInOrder
PROPERTY KeysEchoed
CHECK_DEADLOCK FALSE
