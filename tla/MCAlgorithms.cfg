SPECIFICATION MCSpec
CONSTANTS
    Grammars <- MCGrammars
    SeedDirs = {"fuzz-seeds", "my-seeds"}
    DefaultSeeds = "fuzz-seeds"
    Outputs = {"fuzz-output", "my-output"}
    DefaultOutput = "fuzz-output"
    UserSeeds <- MCUserSeeds
    MaxCommands = 3
    MaxDepth = 1
    Count = 2
    LenMod = 256
    Responses <- MCResponses
    Graphs <- MCGraphs
    Entries <- MCEntries
    ShallowDepth = 3
    Files <- MCFiles
    Sizes = {2, 3, 5}
    Newline = "n"
INVARIANTS SeedsAreConcrete QueueHoldsSeeds ResponseIsReceived WalkIsComplete LinesAreTheFile
