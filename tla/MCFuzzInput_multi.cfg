SPECIFICATION LineReaderSpec
CONSTANTS
    Byte <- MCByte
    LF = "n"
    HugeString = 3
    TestCases <- MCTestCases
    Splits = {TRUE, FALSE}
    MaxRequests = 2
    Counts = {0, 1, 2}
    MaxCases = 2
INVARIANTS RequestsAreWhole EveryByteServed PeekIsNext
PROPERTIES IsAStream EndIsReached
CHECK_DEADLOCK FALSE
