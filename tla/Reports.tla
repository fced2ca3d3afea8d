------------------------------- MODULE Reports -------------------------------
(***************************************************************************)
(* The reports that are made of a corpus (managers/report_manager.py,      *)
(* managers/introspector_manager.py): coverage, call profiles, and the     *)
(* introspection that joins coverage with a call tree.                     *)
(*                                                                         *)
(* Each is a pipeline whose stages hand files to the next, and to later    *)
(* commands: the binary of the harness, raw profiles, merged profiles, the *)
(* compile database of the -cov tree, bitcode.  A stage only looks whether *)
(* the files are there.                                                    *)
(***************************************************************************)
EXTENDS HarnessCache

CONSTANTS
    Instances,  \* the fuzzer instances a corpus can have, Top among them
    Top,        \* the corpus directory itself
    Corpora,    \* the corpora: the directories and which of them have files
    Plans       \* what a user does in one behaviour: sets of commands

\* Test cases lie in the queue and crashes directories of an instance, or
\* directly in the directory a user names: one called crashes, or something else.
Dirs == (Instances \X {"queue", "crashes"}) \union {<<Top, "own">>, <<Top, "own crashes">>}
CrashDirs == {d \in Dirs : d[2] \in {"crashes", "own crashes"}}

ASSUME InstancesAssumption == Top \in Instances
ASSUME CorporaAssumption ==
    \A corpus \in Corpora : corpus.files \subseteq corpus.dirs /\ corpus.dirs \subseteq Dirs

VARIABLES
    plan,       \* the commands this user runs; it bounds the instances checked
    task,       \* what the command of each process works on
    raw,        \* the raw profiles in the output directory
    merged,     \* what merged.profdata was made from
    relinked,   \* history: the coverage binary was linked since the merge
    tree,       \* the -cov tree: absent, cleaned or made
    cdb,        \* its compile_commands.json: how much of the tree it lists
    bitcode,    \* combined.bc: how much of the tree it holds
    cut,        \* history: a trace of the tree failed or was interrupted
    callgrind   \* the directory each callgrind.out file was made of, by its name

coverageVars == <<raw, merged, relinked>>
bitcodeVars == <<tree, cdb, bitcode, cut>>
vars == <<cacheVars, plan, task, coverageVars, bitcodeVars, callgrind>>

NoCorpus == [dirs |-> {}, files |-> {}]
NoTask == [corpus |-> NoCorpus, with |-> FALSE, left |-> {}]
DirNames == {d[2] : d \in Dirs}
NoDir == <<>>

Init ==
    /\ CacheInit
    /\ task = [c \in Procs |-> NoTask]
    /\ plan \in Plans
    /\ raw = {} /\ merged = {} /\ relinked = FALSE
    /\ tree = "absent" /\ cdb = "none" /\ bitcode = "none" /\ cut = FALSE
    /\ callgrind = [n \in DirNames |-> NoDir]

\* A command returns: by itself, or because a tool failed.
Return(c) ==
    /\ proc' = [proc EXCEPT ![c] = Idle]
    /\ task' = [task EXCEPT ![c] = NoTask]

-----------------------------------------------------------------------------
(***************************************************************************)
(* Which directories are replayed: _collect_corpus_dirs.                   *)
(***************************************************************************)
WithQueue(corpus) == {i \in Instances : <<i, "queue">> \in corpus.dirs}

\* The directory itself counts only if nothing in it is an instance.
Used(corpus) ==
    IF WithQueue(corpus) \ {Top} # {} THEN WithQueue(corpus) \ {Top} ELSE WithQueue(corpus)

Collected(corpus) ==
    IF Used(corpus) # {}
    THEN {<<i, "queue">> : i \in Used(corpus)}
           \union {d \in CrashDirs : d[1] \in Used(corpus) /\ d \in corpus.files}
    ELSE {d \in {<<Top, "own">>, <<Top, "own crashes">>} : d \in corpus.files}

-----------------------------------------------------------------------------
(***************************************************************************)
(* Building the harness: see HarnessCache.                                 *)
(***************************************************************************)

\* build() fails where the tree is not made; a link in another mode has a tree
\* of its own.
BuildHarness(c) ==
    /\ \/ CompileObject(c)
       \/ (proc[c].mode = "coverage" => tree = "made") /\ LinkHarness(c)
       \/ WriteStamp(c)
    /\ relinked' = (relinked \/ (proc[c].pc = "link" /\ proc[c].mode = "coverage"))
    /\ task' = IF proc'[c] = Idle THEN [task EXCEPT ![c] = NoTask] ELSE task
    /\ UNCHANGED <<raw, merged, bitcodeVars, callgrind>>

Link(c, mode, asked) ==
    /\ "link" \in plan
    /\ mode = "coverage" => tree # "absent"
    /\ StartLink(c, mode, asked)
    /\ UNCHANGED <<task, coverageVars, bitcodeVars, callgrind>>

\* apatchy make --tree cov; the tree may be copied anew.
MakeCoverageTree(c, anew) ==
    /\ "make" \in plan
    /\ proc[c].pc = "idle"
    /\ MakeTree("coverage")
    /\ tree' = "made"
    /\ cdb' = IF anew THEN "none" ELSE cdb
    /\ bitcode' = IF anew THEN "none" ELSE bitcode
    /\ UNCHANGED <<cut, task, coverageVars, callgrind>>

\* _ensure_profile_build, when the tree does not match: see BuildTree.
EnsureProfileTree(c) ==
    /\ "profile" \in plan
    /\ proc[c].pc = "idle"
    /\ MakeTree("profile")
    /\ UNCHANGED <<task, coverageVars, bitcodeVars, callgrind>>

\* A command is interrupted, a tool fails, or an option names what is not there:
\* the command returns, and nothing is undone.
GiveUp(c) ==
    /\ Interrupt(c)
    /\ task' = [task EXCEPT ![c] = NoTask]
    /\ UNCHANGED <<coverageVars, bitcodeVars, callgrind>>

-----------------------------------------------------------------------------
(***************************************************************************)
(* apatchy coverage report: generate_coverage.                             *)
(***************************************************************************)
StartCoverage(c, asked, corpus, with) ==
    /\ "coverage" \in plan /\ (with => "introspect" \in plan)
    /\ Collected(corpus) # {}
    /\ tree # "absent"
    /\ StartReport(c, "coverage", asked)
    /\ task' = [task EXCEPT ![c] = [corpus |-> corpus, with |-> with, left |-> {}]]
    /\ UNCHANGED <<coverageVars, bitcodeVars, callgrind>>

\* Mutant: the profiles of earlier reports stay.
KeepRaw(c) ==
    /\ proc[c].pc = "built" /\ proc[c].mode = "coverage"
    /\ Goto(c, "replay")
    /\ UNCHANGED <<objs, exe, fresh, stamp, unstamped, task, coverageVars, bitcodeVars, callgrind>>

\* The profiles of earlier reports are removed, one by one.
ClearRaw(c) ==
    /\ proc[c].pc = "built" /\ proc[c].mode = "coverage"
    /\ \/ /\ \E p \in raw : raw' = raw \ {p}
          /\ proc' = proc
       \/ /\ raw = {} /\ raw' = raw
          /\ Goto(c, "replay")
    /\ UNCHANGED <<objs, exe, fresh, stamp, unstamped, task, merged, relinked,
                   bitcodeVars, callgrind>>

\* _replay_corpus_proto: crash directories count, and are left out.  A profile
\* is written when the binary ends, not when it is killed after five minutes.
Replayed(corpus) == {d \in Collected(corpus) : d \in corpus.files /\ d \notin CrashDirs}

ReplayCorpus(c) ==
    /\ proc[c].pc = "replay"
    /\ IF Collected(task[c].corpus) \intersect task[c].corpus.files = {}
       THEN Return(c) /\ raw' = raw
       ELSE /\ Goto(c, "merge") /\ task' = task
            /\ \/ raw' = raw \union {[name |-> exe["coverage"].name,
                                     dirs |-> Replayed(task[c].corpus)]}
               \/ raw' = raw
    /\ UNCHANGED <<objs, exe, fresh, stamp, unstamped, merged, relinked, bitcodeVars, callgrind>>

\* Mutant: the profiles that are there are merged, also if there are none.
MergeAnyway(c) ==
    /\ proc[c].pc = "merge"
    /\ merged' = raw
    /\ relinked' = FALSE
    /\ Goto(c, "show")
    /\ UNCHANGED <<objs, exe, fresh, stamp, unstamped, task, raw, bitcodeVars, callgrind>>

Merge(c) ==
    /\ proc[c].pc = "merge"
    /\ raw # {}
    /\ merged' = raw
    /\ relinked' = FALSE
    /\ Goto(c, "show")
    /\ UNCHANGED <<objs, exe, fresh, stamp, unstamped, task, raw, bitcodeVars, callgrind>>

\* llvm-cov show of what was merged, then either the summary, or the bitcode.
Show(c) ==
    /\ proc[c].pc = "show"
    /\ IF task[c].with THEN Goto(c, "trace") /\ task' = task ELSE Return(c)
    /\ UNCHANGED <<objs, exe, fresh, stamp, unstamped, coverageVars, bitcodeVars, callgrind>>

-----------------------------------------------------------------------------
(***************************************************************************)
(* The bitcode of the -cov tree: IntrospectorManager.build_bitcode.        *)
(***************************************************************************)

\* The compile database is made once: by a build of the whole tree, under bear.
HaveDatabase(c) ==
    /\ proc[c].pc = "trace"
    /\ cdb # "none"
    /\ Goto(c, "emit")
    /\ UNCHANGED <<objs, exe, fresh, stamp, unstamped, task, coverageVars, bitcodeVars, callgrind>>

\* Mutant: the tree is not cleaned before it is traced.
KeepObjects(c) ==
    /\ proc[c].pc = "trace"
    /\ tree # "absent" /\ cdb = "none"
    /\ Goto(c, "bear")
    /\ UNCHANGED <<objs, exe, fresh, stamp, unstamped, task, coverageVars, bitcodeVars, callgrind>>

CleanTree(c) ==
    /\ proc[c].pc = "trace"
    /\ tree # "absent" /\ cdb = "none"
    /\ tree' = "cleaned"
    /\ fresh' = [fresh EXCEPT !["coverage"] = FALSE]
    /\ Goto(c, "bear")
    /\ UNCHANGED <<objs, exe, stamp, unstamped, task, coverageVars, cdb, bitcode, cut, callgrind>>

\* bear lists what make compiles.  If make fails it lists what was compiled till
\* then.
Bear(c, succeeds) ==
    /\ proc[c].pc = "bear"
    /\ cdb' = IF succeeds /\ tree = "cleaned" THEN "whole" ELSE "partial"
    /\ tree' = IF succeeds THEN "made" ELSE tree
    /\ fresh' = [fresh EXCEPT !["coverage"] = FALSE]
    /\ cut' = (cut \/ ~succeeds)
    /\ IF succeeds THEN Goto(c, "emit") /\ task' = task ELSE Return(c)
    /\ UNCHANGED <<objs, exe, stamp, unstamped, coverageVars, bitcode, callgrind>>

\* Bitcode of every entry, linked into combined.bc.
EmitAndLink(c) ==
    /\ proc[c].pc = "emit"
    /\ bitcode' = cdb
    /\ IF task[c].with THEN Return(c) ELSE Goto(c, "export") /\ task' = task
    /\ UNCHANGED <<objs, exe, fresh, stamp, unstamped, coverageVars, tree, cdb, cut, callgrind>>

-----------------------------------------------------------------------------
(***************************************************************************)
(* apatchy introspect: generate_introspect.                                *)
(***************************************************************************)
StartIntrospect(c) ==
    /\ "introspect" \in plan
    /\ proc[c].pc = "idle"
    /\ merged # {}
    /\ exe["coverage"] # NoExe
    /\ bitcode = "none" => tree # "absent"
    /\ Goto(c, IF bitcode = "none" THEN "trace" ELSE "export")
    /\ UNCHANGED <<objs, exe, fresh, stamp, unstamped, task, coverageVars, bitcodeVars, callgrind>>

\* llvm-cov export of the profiles with the binary.
Export(c) ==
    /\ proc[c].pc = "export"
    /\ exe["coverage"] # NoExe /\ merged # {} /\ bitcode # "none"
    /\ Goto(c, "assemble")
    /\ UNCHANGED <<objs, exe, fresh, stamp, unstamped, task, coverageVars, bitcodeVars, callgrind>>

\* What was exported, joined with the call tree of the bitcode, is written.
Assemble(c) ==
    /\ proc[c].pc = "assemble"
    /\ Return(c)
    /\ UNCHANGED <<objs, exe, fresh, stamp, unstamped, coverageVars, bitcodeVars, callgrind>>

-----------------------------------------------------------------------------
(***************************************************************************)
(* apatchy profile callgrind: generate_callgrind.                          *)
(***************************************************************************)
StartCallgrind(c, asked, corpus) ==
    /\ "profile" \in plan
    /\ Collected(corpus) # {}
    /\ StartReport(c, "profile", asked)
    /\ task' = [task EXCEPT ![c] = [corpus |-> corpus, with |-> FALSE, left |-> Collected(corpus)]]
    /\ UNCHANGED <<coverageVars, bitcodeVars, callgrind>>

\* Mutant: one file for all directories.
OneOutput(d) == "queue"

\* callgrind.out.<name of the directory>, whichever instance it is of.
OutputOf(d) == d[2]

RunCallgrind(c) ==
    /\ proc[c].pc = "built" /\ proc[c].mode = "profile"
    /\ \E d \in task[c].left :
         /\ callgrind' = [callgrind EXCEPT ![OutputOf(d)] = d]
         /\ task' = [task EXCEPT ![c].left = @ \ {d}]
         /\ IF task[c].left = {d} THEN Goto(c, "view") ELSE proc' = proc
    /\ UNCHANGED <<objs, exe, fresh, stamp, unstamped, coverageVars, bitcodeVars>>

-----------------------------------------------------------------------------
(***************************************************************************)
(* apatchy clean: each target in turn, in the order of their names.        *)
(***************************************************************************)
StartClean(c) ==
    /\ "clean" \in plan
    /\ proc[c].pc = "idle"
    /\ Goto(c, "clean .objects")
    /\ UNCHANGED <<objs, exe, fresh, stamp, unstamped, task, coverageVars, bitcodeVars, callgrind>>

CleanObjects(c) ==
    /\ proc[c].pc = "clean .objects"
    /\ objs' = [i \in DOMAIN objs |-> NoObject]
    /\ Goto(c, "clean callgrind-out")
    /\ UNCHANGED <<exe, fresh, stamp, unstamped, task, coverageVars, bitcodeVars, callgrind>>

CleanCallgrind(c) ==
    /\ proc[c].pc = "clean callgrind-out"
    /\ callgrind' = [n \in DirNames |-> NoDir]
    /\ Goto(c, "clean coverage-report")
    /\ UNCHANGED <<objs, exe, fresh, stamp, unstamped, task, coverageVars, bitcodeVars>>

\* Files of a directory go in any order, and the removal may be cut short.
CleanCoverage(c) ==
    /\ proc[c].pc = "clean coverage-report"
    /\ \/ raw # {} /\ raw' = {} /\ UNCHANGED <<merged, proc>>
       \/ merged # {} /\ merged' = {} /\ UNCHANGED <<raw, proc>>
       \/ /\ raw = {} /\ merged = {}
          /\ Goto(c, "clean fuzz_harness_*")
          /\ UNCHANGED <<raw, merged>>
    /\ UNCHANGED <<objs, exe, fresh, stamp, unstamped, task, relinked, bitcodeVars, callgrind>>

\* The stamps stay.
CleanHarnesses(c) ==
    /\ proc[c].pc = "clean fuzz_harness_*"
    /\ \/ /\ \E m \in Modes : exe[m] # NoExe /\ exe' = [exe EXCEPT ![m] = NoExe]
          /\ UNCHANGED <<proc, task>>
       \/ /\ \A m \in Modes : exe[m] = NoExe
          /\ exe' = exe
          /\ Return(c)
    /\ UNCHANGED <<objs, fresh, stamp, unstamped, coverageVars, bitcodeVars, callgrind>>

Clean(c) ==
    \/ StartClean(c) \/ CleanObjects(c) \/ CleanCallgrind(c) \/ CleanCoverage(c)
    \/ CleanHarnesses(c)

-----------------------------------------------------------------------------
Step ==
    \E c \in Procs :
      \/ \E mode \in Linkable, asked \in Requests : Link(c, mode, asked)
      \/ BuildHarness(c)
      \/ \E asked \in Requests, corpus \in Corpora :
           \/ \E with \in BOOLEAN : StartCoverage(c, asked, corpus, with)
           \/ StartCallgrind(c, asked, corpus)
      \/ ClearRaw(c) \/ ReplayCorpus(c) \/ Merge(c) \/ Show(c)
      \/ HaveDatabase(c) \/ CleanTree(c) \/ EmitAndLink(c)
      \/ \E succeeds \in BOOLEAN : Bear(c, succeeds)
      \/ StartIntrospect(c) \/ Export(c) \/ Assemble(c)
      \/ RunCallgrind(c)
      \/ Clean(c)
      \/ GiveUp(c)
      \/ \E anew \in BOOLEAN : MakeCoverageTree(c, anew)
      \/ EnsureProfileTree(c)

Next == Step /\ UNCHANGED plan

Spec == Init /\ [][Next]_vars
-----------------------------------------------------------------------------
(***************************************************************************)
(* Properties, of one command at a time.                                   *)
(***************************************************************************)

\* What a coverage report shows is the one replay that was made for it: of the
\* harness that was built, of every directory of its corpus but those of crashes,
\* and of no earlier report, whichever commands were cut short before
\* (report_manager.py:521-554).  The replay is of nothing at all when all test cases
\* are crashes, which the count of line 444 lets through.
ReportIsOfItsRun ==
    \A c \in Procs : proc[c].pc = "show" =>
        merged = {[name |-> exe["coverage"].name, dirs |-> Replayed(task[c].corpus)]}

\* An introspection joins a profile and a binary of one harness, unless the binary
\* was linked again since the profiles were merged: all that is looked at is that
\* the files exist (report_manager.py:638-657).
IntrospectionJoinsOneHarness ==
    \A c \in Procs : proc[c].pc = "assemble" /\ ~relinked =>
        \A p \in merged : p.name = exe["coverage"].name

\* The bitcode holds all of the tree, unless a trace of it failed: then what bear
\* listed is taken for the whole ever after (introspector_manager.py:139-164).
BitcodeCoversTree == bitcode = "partial" => cut

\* When callgrind is done there is a profile of each directory, unless another
\* instance has one of that name (report_manager.py:1024, 1083-1087).
CallgrindCoversCorpus ==
    \A c \in Procs : proc[c].pc = "view" =>
        \A d \in Collected(task[c].corpus) :
            \/ \E n \in DirNames : callgrind[n] = d
            \/ \E e \in Collected(task[c].corpus) \ {d} : e[2] = d[2]
=============================================================================
