-------------------------- MODULE ExternalModules --------------------------
(***************************************************************************)
(* The external modules of Apache (managers/module_manager.py, and the     *)
(* coverage builds of managers/report_manager.py) beside the harnesses     *)
(* that load them.                                                         *)
(*                                                                         *)
(* Modules are shared objects in modules/, one file for each whatever it   *)
(* was compiled for; a fuzzer loads them each time its engine starts.      *)
(***************************************************************************)
EXTENDS HarnessCache

VARIABLES
    so,        \* how the modules were last compiled
    fuzzers    \* how those a fuzzer loaded were, in each process

vars == <<cacheVars, so, fuzzers>>

Builds == {"none", "sanitized", "coverage"}

Init == CacheInit /\ so = "none" /\ fuzzers = [c \in Procs |-> "off"]

Free(c) == proc[c].pc = "idle" /\ fuzzers[c] = "off"

\* apatchy module build, with the sanitizers of the httpd build.
BuildModules(c) ==
    /\ Free(c)
    /\ so' = "sanitized"
    /\ UNCHANGED <<cacheVars, fuzzers>>

\* _build_coverage_modules, with --with-modules: all of them are compiled for
\* coverage, in place, once the harness of the report is there.
BuildCoverageModules(c) ==
    /\ proc[c].pc = "built"
    /\ proc[c].mode = "coverage"
    /\ so' = "coverage"
    /\ UNCHANGED <<cacheVars, fuzzers>>

\* The fuzzer starts, or its interface starts the engine again.
StartFuzzer(c) ==
    /\ exe["libfuzzer"] # NoExe
    /\ proc[c].pc = "idle"
    /\ fuzzers' = [fuzzers EXCEPT ![c] = so]
    /\ UNCHANGED <<cacheVars, so>>

StopFuzzer(c) ==
    /\ fuzzers[c] # "off"
    /\ fuzzers' = [fuzzers EXCEPT ![c] = "off"]
    /\ UNCHANGED <<cacheVars, so>>

\* A step of the other commands, by a process that is not fuzzing.
OtherCommand ==
    /\ CacheNext
    /\ \A c \in Procs : fuzzers[c] # "off" => proc'[c] = proc[c]
    /\ UNCHANGED <<so, fuzzers>>

Next ==
    \/ OtherCommand
    \/ \E c \in Procs :
         BuildModules(c) \/ BuildCoverageModules(c) \/ StartFuzzer(c) \/ StopFuzzer(c)

Spec == Init /\ [][Next]_vars

\* "fuzz with LibFuzzer in one terminal and generate coverage reports in another
\* without either operation interfering with the other"
\* (docs/architecture/building-linking.md:385): a fuzzer never runs modules built
\* for coverage.
FuzzerKeepsItsModules == \A c \in Procs : fuzzers[c] # "coverage"
=============================================================================
