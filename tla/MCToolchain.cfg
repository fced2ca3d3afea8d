SPECIFICATION Spec
CONSTANTS
    Procs = {p1, p2}
    Slots <- ToolNames
    Paths <- ToolPaths
    None = None
    Garbled = Garbled
    Versions = {17, 18}
    Newest = 18
    Analysis = {"llvm-profdata"}
    Plain = 17
    InitialDisks <- MCInitialDisks
    MaxCommands = 2
    MaxChanges = 1
INVARIANTS NothingLost OverridesKept MatchedTriple RecordedLpmBuilt
SYMMETRY ProcSymmetry
CHECK_DEADLOCK FALSE
