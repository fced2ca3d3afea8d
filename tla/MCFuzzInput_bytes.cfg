SPECIFICATION ByteReaderSpec
CONSTANTS
    Byte <- MCByte
    LF = "n"
    HugeString = 3
    TestCases <- MCTestCases
    Splits = {FALSE}
    MaxRequests = 2
    Counts = {0, 1, 2}
    MaxCases = 1
PROPERTIES EndIsReached
CHECK_DEADLOCK FALSE
