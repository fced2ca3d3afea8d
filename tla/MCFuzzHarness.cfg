SPECIFICATION FairHarnessSpec
CONSTANTS
    Byte <- MCByte
    LF = "n"
    HugeString = 3
    TestCases <- MCTestCases
    Splits = {FALSE}
    MaxRequests = 1
    Counts = {1}
    MaxCases = 3
    Responses <- MCResponses
    Workers = {w1, w2}
    NoWorker = none
    Transports = {"filter", "socket"}
    ReadCounts = {0, 1, 3}
    MaxConnects = 2
INVARIANTS BufferOwned CurrentResponse ServedOnce PeerAlive
PROPERTIES BackendIsAStream UpstreamEndIsReached
CHECK_DEADLOCK FALSE
