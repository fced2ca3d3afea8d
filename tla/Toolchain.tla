------------------------------ MODULE Toolchain ------------------------------
(***************************************************************************)
(* apatchy setup: finding, installing and recording the tools of the       *)
(* toolchain (managers/toolchain_manager.py, core/toolchain/), and how the *)
(* coverage commands choose an LLVM among what is recorded and in PATH     *)
(* (managers/report_manager.py).                                           *)
(*                                                                         *)
(* clang and the analysis tools of LLVM have a name without a version and  *)
(* one for each version.  Of the other tools, which are only looked up and *)
(* recorded, libtool stands for all.                                       *)
(***************************************************************************)
EXTENDS ToolchainConfig, Sequences, FiniteSetsExt

CONSTANTS
    Versions,       \* the versions of LLVM
    Newest,         \* the newest that is looked for: 20
    Analysis,       \* llvm-profdata and llvm-cov
    Plain,          \* the version the names of PATH without one stand for
    InitialDisks,   \* what can be installed to begin with
    MaxCommands,    \* bound: how many setup commands are run
    MaxChanges      \* bound: how often the user or apt change something

LlvmTools == {"clang"} \union Analysis
LlvmNames == LlvmTools \X (Versions \union {0})
Libtool == <<"libtool", 0>>
Lpm == <<"lpm-root", 0>>
ToolNames == LlvmNames \union {Libtool, Lpm}

InPath(name) == <<"bin", name[1], name[2]>>
InLlvm(tool, v) == <<"lib", tool, v>>           \* /usr/lib/llvm-<v>/bin
Local(name) == <<"toolchain", name[1], name[2]>>
ToolPaths ==
    {InPath(n) : n \in LlvmNames \union {Libtool}}
      \union {InLlvm(t, v) : t \in LlvmTools, v \in Versions}
      \union {Local(Libtool), Local(Lpm)}

ASSUME VersionsAssumption ==
    /\ Newest \in Nat /\ Versions \subseteq 1 .. Newest
    /\ Plain \in Versions /\ None \notin Nat
ASSUME AnalysisAssumption ==
    Analysis \subseteq STRING /\ {"clang", "libtool", "lpm-root"} \intersect Analysis = {}
ASSUME SlotsAssumption == Slots = ToolNames /\ Paths = ToolPaths
ASSUME InitialAssumption == InitialDisks \subseteq SUBSET Paths

VARIABLES
    cmd,        \* the command each process is running
    lpm,        \* the build directory of libprotobuf-mutator
    borrowed,   \* history: versioned names under which setup check or the user
                \* recorded a tool of another version
    unbuilt,    \* history: libprotobuf-mutator was recorded, then removed
    commands,   \* how many commands were started
    changes     \* how often the user or apt changed something

counters == <<commands, changes>>
vars == <<storeVars, cmd, lpm, borrowed, unbuilt, counters>>

Idle == [pc |-> "idle", ver |-> 0, force |-> FALSE, left |-> <<>>, found |-> Nothing]
Generators == {"Ninja", "Unix Makefiles"}
NoBuild == [generator |-> "none", built |-> FALSE]

Init ==
    /\ \E initial \in InitialDisks : StoreInit(initial)
    /\ cmd = [p \in Procs |-> Idle]
    /\ lpm = NoBuild
    /\ borrowed = {}
    /\ unbuilt = FALSE
    /\ commands = 0
    /\ changes = 0

-----------------------------------------------------------------------------
(***************************************************************************)
(* Looking tools up.                                                       *)
(***************************************************************************)
Which(name) == IF Valid(InPath(name)) THEN InPath(name) ELSE None

\* resolve_tool.
Resolve(name) == IF Recorded(name) # None THEN Recorded(name) ELSE Which(name)

\* get_binary_version, major_only; clang_major_version.
VersionOf(path) == IF path[3] = 0 THEN Plain ELSE path[3]

\* The candidates for clang, newest first, and last the name without a version.
ClangNames == {v \in Versions \union {0} : Resolve(<<"clang", v>>) # None}

\* LlvmTool.detect.
Detected ==
    IF ClangNames = {} THEN None ELSE VersionOf(Resolve(<<"clang", Max(ClangNames)>>))

\* The name under which LlvmTool.check looks for, and records, an analysis tool.
Wanted(tool) == <<tool, IF Detected = None THEN 0 ELSE Detected>>

\* BinaryTool.check of the wanted name: the name without a version will do.
FallsBack(tool) == Resolve(Wanted(tool)) = None /\ Resolve(<<tool, 0>>) # None
Lookup(tool) == IF FallsBack(tool) THEN Resolve(<<tool, 0>>) ELSE Resolve(Wanted(tool))

Borrows(tool) ==
    FallsBack(tool) /\ Wanted(tool)[2] \notin {0, VersionOf(Resolve(<<tool, 0>>))}

\* What the check of a member of the registry finds, by the name it is recorded
\* under.
Registry == <<"clang", "libtool", "llvm">>
Finds(tool) ==
    [s \in Slots |->
        IF tool \in {"clang", "libtool"} /\ s = <<tool, 0>> THEN Resolve(s)
        ELSE IF tool = "llvm" /\ \E t \in Analysis : s = Wanted(t) THEN Lookup(s[1])
        ELSE None]

SectionOf(name) ==
    IF name = Lpm THEN "fuzzing" ELSE IF name[1] \in Analysis THEN "coverage" ELSE "build"
InSection(section, found) == [s \in Slots |-> IF SectionOf(s) = section THEN found[s] ELSE None]
SectionsOf(found) ==
    SelectSeq(<<"build", "fuzzing", "coverage">>,
              LAMBDA section : InSection(section, found) # Nothing)

-----------------------------------------------------------------------------
(***************************************************************************)
(* Commands, and how they record what they found: one update per section.  *)
(***************************************************************************)
Start(p, c) ==
    /\ cmd[p].pc = "idle"
    /\ commands < MaxCommands
    /\ commands' = commands + 1
    /\ cmd' = [cmd EXCEPT ![p] = c]
    /\ UNCHANGED changes

Recording(force, found) ==
    IF found = Nothing THEN Idle
    ELSE [Idle EXCEPT !.pc = "record", !.force = force, !.left = SectionsOf(found), !.found = found]

\* A forced record of one name, or of two that share their path.
One(name, path) == [Nothing EXCEPT ![name] = path]

Record(p) ==
    /\ cmd[p].pc = "record" /\ cmd[p].left # <<>>
    /\ Load(p, cmd[p].force, InSection(Head(cmd[p].left), cmd[p].found))
    /\ cmd' = [cmd EXCEPT ![p].left = Tail(@)]
    /\ UNCHANGED <<lpm, borrowed, unbuilt, counters>>

Open(p) ==
    /\ Truncate(p)
    /\ UNCHANGED <<cmd, lpm, borrowed, unbuilt, counters>>

Save(p) ==
    /\ Write(p)
    /\ cmd' = [cmd EXCEPT ![p] = IF @.left = <<>> THEN Idle ELSE @]
    /\ UNCHANGED <<lpm, borrowed, unbuilt, counters>>

\* A command is interrupted, one of its tools fails, or the configuration is
\* garbled.
Fail(p) ==
    /\ cmd[p].pc # "idle"
    /\ CutShort(p) \/ GiveUp(p)
    /\ cmd' = [cmd EXCEPT ![p] = Idle]
    /\ UNCHANGED <<lpm, borrowed, unbuilt, counters>>

-----------------------------------------------------------------------------
(***************************************************************************)
(* apatchy setup check: ToolchainManager.check.                            *)
(***************************************************************************)
StartCheck(p) ==
    /\ Start(p, [Idle EXCEPT !.pc = "scan", !.left = Registry])
    /\ UNCHANGED <<storeVars, lpm, borrowed, unbuilt>>

Scan(p) ==
    /\ cmd[p].pc = "scan" /\ cmd[p].left # <<>>
    /\ Readable
    /\ LET tool == Head(cmd[p].left) IN
       /\ cmd' = [cmd EXCEPT ![p].left = Tail(@), ![p].found = Over(Finds(tool), @)]
       /\ borrowed' = IF tool # "llvm" THEN borrowed
                      ELSE borrowed \union {Wanted(t) : t \in {u \in Analysis : Borrows(u)}}
    /\ UNCHANGED <<storeVars, lpm, unbuilt, counters>>

Scanned(p) ==
    /\ cmd[p].pc = "scan" /\ cmd[p].left = <<>>
    /\ cmd' = [cmd EXCEPT ![p] = Recording(FALSE, @.found)]
    /\ UNCHANGED <<storeVars, lpm, borrowed, unbuilt, counters>>

-----------------------------------------------------------------------------
(***************************************************************************)
(* apatchy setup llvm: LlvmTool.setup.                                     *)
(***************************************************************************)

\* Mutant: the analysis tools are recorded for the compiler that is found first.
RegisteredForDetected(v) ==
    [s \in Slots |->
        IF /\ s[1] \in LlvmTools
           /\ s[2] \in IF s[1] = "clang" THEN {0, v} ELSE {0, Detected}
           /\ Valid(InLlvm(s[1], v))
        THEN InLlvm(s[1], v) ELSE None]

\* _register_binaries.  Of clang the directory has both names, of the analysis
\* tools only that without a version.
Registered(v) ==
    [s \in Slots |->
        IF /\ s[1] \in LlvmTools
           /\ s[2] \in IF s[1] = "clang" THEN {0, v} ELSE {0}
           /\ Valid(InLlvm(s[1], v))
        THEN InLlvm(s[1], v) ELSE None]

\* asked is 0 when no --llvm-version is given.  Any clang will do to skip the
\* installation, also if another version is asked for.
StartLlvm(p, asked, force) ==
    /\ Readable
    /\ LET v == IF asked # 0 THEN asked ELSE Detected IN
       Start(p, IF v = None THEN Idle
                ELSE [Idle EXCEPT !.ver = v, !.pc = IF ~force /\ Detected # None
                                                    THEN "register" ELSE "install"])
    /\ UNCHANGED <<storeVars, lpm, borrowed, unbuilt>>

\* A package, as apt installs it; the names without a version are links.
Package(tool, v) == {InPath(<<tool, v>>), InLlvm(tool, v)}

InstallLlvm(p) ==
    /\ cmd[p].pc = "install"
    /\ DiskChange(disk \union UNION {Package(t, cmd[p].ver) : t \in LlvmTools})
    /\ cmd' = [cmd EXCEPT ![p].pc = "register"]
    /\ UNCHANGED <<lpm, borrowed, unbuilt, counters>>

Register(p) ==
    /\ cmd[p].pc = "register"
    /\ cmd' = [cmd EXCEPT ![p] = Recording(TRUE, Registered(@.ver))]
    /\ UNCHANGED <<storeVars, lpm, borrowed, unbuilt, counters>>

-----------------------------------------------------------------------------
(***************************************************************************)
(* apatchy setup libtool: LibtoolTool.setup.                               *)
(***************************************************************************)
StartLibtool(p, force) ==
    /\ Valid(Local(Libtool)) \/ force \/ Readable
    /\ Start(p, IF Valid(Local(Libtool)) THEN Recording(TRUE, One(Libtool, Local(Libtool)))
                ELSE IF ~force /\ Resolve(Libtool) # None
                     THEN Recording(TRUE, One(Libtool, Resolve(Libtool)))
                ELSE [Idle EXCEPT !.pc = "fetch"])
    /\ UNCHANGED <<storeVars, lpm, borrowed, unbuilt>>

FetchLibtool(p) ==
    /\ cmd[p].pc = "fetch"
    /\ DiskChange(disk \union {Local(Libtool)})
    /\ cmd' = [cmd EXCEPT ![p] = Recording(TRUE, One(Libtool, Local(Libtool)))]
    /\ UNCHANGED <<lpm, borrowed, unbuilt, counters>>

-----------------------------------------------------------------------------
(***************************************************************************)
(* apatchy setup lpm: LpmTool.setup.                                       *)
(***************************************************************************)
LpmRecording == Recording(TRUE, One(Lpm, Local(Lpm)))
LpmRecorded == Readable /\ Recorded(Lpm) # None

\* A library that was built is recorded again; --force removes the build
\* directory first.  cmake and protoc may be missing: then nothing happens.
StartLpm(p, force) ==
    /\ IF lpm.built /\ ~force THEN
          /\ Start(p, LpmRecording)
          /\ UNCHANGED <<lpm, unbuilt>>
       ELSE
          /\ Readable
          /\ Start(p, [Idle EXCEPT !.pc = IF Valid(Local(Lpm)) THEN "configure" ELSE "clone"])
          /\ lpm' = IF force /\ Valid(Local(Lpm)) THEN NoBuild ELSE lpm
          /\ unbuilt' = (unbuilt \/ lpm.built)
    /\ UNCHANGED <<storeVars, borrowed>>

CloneLpm(p) ==
    /\ cmd[p].pc = "clone"
    /\ ~Valid(Local(Lpm))
    /\ DiskChange(disk \union {Local(Lpm)})
    /\ cmd' = [cmd EXCEPT ![p].pc = "configure"]
    /\ UNCHANGED <<lpm, borrowed, unbuilt, counters>>

\* cmake refuses a build directory made for another generator; Ninja is used
\* where it is found.
ConfigureLpm(p, generator) ==
    /\ cmd[p].pc = "configure"
    /\ Valid(Local(Lpm))
    /\ lpm.generator \in {"none", generator}
    /\ lpm' = [lpm EXCEPT !.generator = generator]
    /\ cmd' = [cmd EXCEPT ![p].pc = "build"]
    /\ UNCHANGED <<storeVars, borrowed, unbuilt, counters>>

\* Mutant: the paths are recorded whether or not the library is there.
BuildLpmUnchecked(p) ==
    /\ cmd[p].pc = "build"
    /\ cmd' = [cmd EXCEPT ![p] = LpmRecording]
    /\ UNCHANGED <<storeVars, lpm, borrowed, unbuilt, counters>>

BuildLpm(p) ==
    /\ cmd[p].pc = "build"
    /\ lpm.generator # "none"
    /\ lpm' = [lpm EXCEPT !.built = TRUE]
    /\ unbuilt' = FALSE
    /\ cmd' = [cmd EXCEPT ![p] = LpmRecording]
    /\ UNCHANGED <<storeVars, borrowed, counters>>

-----------------------------------------------------------------------------
(***************************************************************************)
(* The user and the system.                                                *)
(***************************************************************************)
Change ==
    /\ changes < MaxChanges
    /\ changes' = changes + 1
    /\ UNCHANGED commands

\* The name without a version comes with the version it stands for.
Install(name) ==
    /\ Change
    /\ DiskChange(disk \union (IF name = Libtool THEN {InPath(Libtool)}
                               ELSE IF name[2] = 0 THEN {InPath(name)} \union Package(name[1], Plain)
                               ELSE Package(name[1], name[2])))
    /\ UNCHANGED <<cmd, lpm, borrowed, unbuilt>>

Uninstall(tool, v) ==
    /\ Change
    /\ DiskChange(disk \ (Package(tool, v) \union (IF v = Plain THEN {InPath(<<tool, 0>>)} ELSE {})))
    /\ UNCHANGED <<cmd, lpm, borrowed, unbuilt>>

EditEntry(name, value) ==
    /\ Change
    /\ value # None => value[2] = name[1]
    /\ Edit(name, value)
    /\ borrowed' = IF value # None /\ name[2] \notin {0, VersionOf(value)}
                   THEN borrowed \union {name} ELSE borrowed
    /\ UNCHANGED <<cmd, lpm, unbuilt>>

\* clean --all removes the toolchain directory, then toolchain.config.
RemoveToolchain ==
    /\ Change
    /\ DiskChange(disk \ {Local(Libtool), Local(Lpm)})
    /\ lpm' = NoBuild
    /\ unbuilt' = (unbuilt \/ lpm.built)
    /\ UNCHANGED <<cmd, borrowed>>

RemoveConfig ==
    /\ Change
    /\ Discard
    /\ UNCHANGED <<cmd, lpm, borrowed, unbuilt>>

Next ==
    \/ \E p \in Procs :
         \/ Record(p) \/ Open(p) \/ Save(p) \/ Fail(p)
         \/ StartCheck(p) \/ Scan(p) \/ Scanned(p)
         \/ \E asked \in Versions \union {0}, force \in BOOLEAN : StartLlvm(p, asked, force)
         \/ InstallLlvm(p) \/ Register(p)
         \/ \E force \in BOOLEAN : StartLibtool(p, force)
         \/ FetchLibtool(p)
         \/ \E force \in BOOLEAN : StartLpm(p, force)
         \/ CloneLpm(p)
         \/ \E generator \in Generators : ConfigureLpm(p, generator)
         \/ BuildLpm(p)
    \/ \E name \in LlvmNames \union {Libtool} : Install(name)
    \/ \E tool \in LlvmTools, v \in Versions : Uninstall(tool, v)
    \/ \E name \in ToolNames \ {Lpm}, value \in Paths \union {None} : EditEntry(name, value)
    \/ RemoveToolchain
    \/ RemoveConfig

Spec == Init /\ [][Next]_vars
-----------------------------------------------------------------------------
(***************************************************************************)
(* What the coverage commands make of it:                                  *)
(* ReportManager._detect_llvm_toolchain.                                   *)
(***************************************************************************)

\* The analysis tool for the compiler: as recorded, next to it, or in PATH.
ToolFor(tool, cc) == Resolve(<<tool, VersionOf(cc)>>)

\* The candidates for which all tools are found.
Matched == {v \in ClangNames : \A t \in Analysis : ToolFor(t, Resolve(<<"clang", v>>)) # None}
Chosen == Resolve(<<"clang", Max(Matched)>>)

\* "All three must come from the same LLVM major version" (report_manager.py:142):
\* what is chosen is of one version, save for what setup check records under a
\* name with a version when it only finds the name without, or the user does.
MatchedTriple ==
    Readable /\ Matched # {} =>
        \A t \in Analysis :
            \/ VersionOf(ToolFor(t, Chosen)) = VersionOf(Chosen)
            \/ <<t, VersionOf(Chosen)>> \in borrowed

\* HarnessBuilder._resolve_lpm_paths takes what is recorded for built: it is,
\* unless it was removed since (lpm.py:114-127, harness.py:511-514).
RecordedLpmBuilt == LpmRecorded => lpm.built \/ unbuilt
=============================================================================
