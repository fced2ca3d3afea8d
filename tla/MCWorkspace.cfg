SPECIFICATION Spec
CONSTANTS
    Versions = {"old", "new"}
    None = "no version"
    Bugs = {"lua", "sed"}
    BugVersion <- MCBugVersion
    BugHarness <- MCBugHarness
    Harnesses = {"mod_fuzzy", "mod_fuzzy_proto"}
    Sized = {"sed"}
    MaxFailures = 1
    Default = "old"
INVARIANTS DownloadIsComplete LibrariesAreWhole HarnessHasTree ReadyReproduces IInv
