# apatchy in TLA+

apatchy is a command line framework to fuzz Apache httpd: it downloads and configures
httpd, builds it in several variants, links fuzz harnesses against it, runs libFuzzer
on them, and makes coverage, profile and introspection reports. The harnesses (C and
C++) run httpd inside the fuzzer process and feed it from memory.

This directory holds TLA+ modules of its stateful parts, TLC configurations that check
them on small instances, and proofs checked by TLAPS. Paths below are relative to
`src/framework/` (Python under `src/apatchy/`, C under `harnesses/`).

    tlc -workers 2 -config MCFuzzInput_multi.cfg MCFuzzInput      # a model-checking run
    tlapm FuzzInput_proofs.tla                                    # the proofs of a module

## 1. The system

| Part | State | Operations | Hard behaviour | What makes it correct |
|---|---|---|---|---|
| **Root tree, alternate build trees** (`utils/build_tree.py`, `managers/build_manager.py`, `core/build_meta.py`) | the root tree; one copy per variant (`-lf`, `-cov`, ...) with Makefiles, objects, `libmain.la`, `.config_hash`, `.apatchy_build.json` | `configure`, `make`, `make --tree` (`ensure_build`) | Ctrl-C or a failing tool between and inside steps; configure beside make; a project that is moved; a hash as a cache key | a tree taken as ready is complete, of the current configuration, of one build |
| **Introspection** (`managers/introspector_manager.py`, `report_manager.py`) | `compile_commands.json`, bitcode, the merged profile | a rebuild of `-cov` under bear, bitcode emission, `introspect` | rebuilds in place a tree another part caches; each stage takes what files it finds | the tree it leaves is what its hash says; what it joins is of one harness and of the whole tree |
| **Client input** (`fuzz_common.c`, `mod_fuzzy.c`, `mod_fuzzy_multi.c`) | globals for the request, a brigade per connection | one test case, its split into requests, the input filter | httpd decides which reads it issues; globals outlive a test case | each connection is a byte stream of its own request |
| **Upstream input** (`fuzz_backend.c`, `mod_fuzzy_proto_uwsgi.cc`, `mod_fuzzy_proto_ajp.cc`) | globals for the response, a filter's brigade or a socket pair | connect, read, keep, close | several connections for one response; connections that mod_proxy keeps; leftovers of older test cases | the response of the current test case, each byte once over the filter |
| **Harness builder and report caches** (`core/harness.py`, `managers/report_manager.py`) | shared `.objects`, `fuzz_harness_<mode>`, stamps | `link`, `coverage`, `profile` | interrupted commands, stamps not written by all who link | a report runs the harness asked for, one mode in a binary |
| **Reports** (`managers/report_manager.py`) | raw and merged profiles, `callgrind.out.*`, reports | collect a corpus, replay, merge, show; clean | five files handed from stage to stage and to later commands, any of them missing or old | what is shown is of this corpus and this harness |
| **External modules** (`managers/module_manager.py`) | `modules/<name>.so` | `module build`, coverage builds of a report | one file for two purposes, a fuzzer that loads it again at each restart | a fuzzer keeps its modules |
| **Fuzzing session** (`utils/libfuzzer_ui.py`, `utils/stats_exporter.py`, `fuzzers/libfuzzer.py`) | the engine, counters, `stat.json` | start, lines, pulses, restart, finish | truncate-then-write, two sessions in one directory, exit codes with two meanings, Ctrl-C | the file is the history, a session ends |
| **Downloader, bug reproduction, clean** (`core/downloader.py`, `managers/bug_manager.py`, `bugs/`, `method_dispatcher.py`) | archives and directories on disk, `/tmp/htdocs`, seeds | download, bug setup, reproduce, clean | what exists decides what is skipped; one directory of several bugs; trees and binaries taken away before they are made again; removal stopped midway | nothing partial is taken for complete, a bug that was set up reproduces |
| **Toolchain** (`core/toolchain_config.py`, `core/toolchain/`, `managers/toolchain_manager.py`) | sections of `toolchain.config`, `.toolchain/`, what is in PATH | `setup check`, `setup llvm`, `libtool`, `lpm`; lookups by all others | read-change-write without a lock; tools that come and go, of several versions | no entry lost, no entry that names what it is not |
| **Seeds** (`fuzzers/grammar.py`, `fuzzers/base.py`, `fuzzers/libfuzzer.py`) | seed directories, queues | expansion of a grammar, copies, clean | what exists is not made again; directories that clean leaves; a depth limit | the queue holds the seeds, seeds are concrete |
| **Triage** (`report_manager.py`) | none | replay of crash files one by one, a table | | a crash is filed as what it is |
| **Encoders and readers of the harnesses** (`proto_converters/`, `mod_fuzzy_htaccess.c`) | a position, lengths | AJP packets, lines of a configuration | bounds, 16-bit lengths, `exit()` in a handler | the other side reads what was meant |
| **Flags** (`compat.py`, `config_manager.py`) | none | tables and joins | | |
| **Call graph walker** (`introspector/src/CallGraphWalker.cpp`) | visited sets | walk of a call graph into a tree | cycles, depth limits | terminates, reaches every function once |
| **Viewer, picker, dev projects** | presentation | | | out of scope |

How they interact. The dispatcher (`method_dispatcher.py`) runs one command per process;
processes share only the file system. `configure` makes the root tree; `make --tree`
copies and compiles it; `link` and the reports compile a harness with the flags recorded
in a tree and link it to the tree's libraries; `fuzz` runs the binary under the interface,
which restarts it and writes the statistics; reports replay what fuzzing left. Inside the
fuzzer process the harness calls httpd, which calls back into the filters and hooks.
The documentation invites users to fuzz in one terminal and make reports in another
(`docs/architecture/building-linking.md:385`), so commands of different processes interleave.

## 2. Modules

### BuildTree (with MCBuildTree, BuildTree_proofs)
`root`, `tree[t]` and `cc` are what is on disk; `rootJob` and `job[t]` the program counters
of the commands that run. A tree is abstracted to what the code looks at or relies on:
whether its Makefile names this tree, another place, or is missing; the configuration it
was copied from; its hash; whether `libmain.la` and `compile_commands.json` exist; with
which flags its objects were compiled. A configuration is a model value, which stands for the
`ac_cs_config` line whose digest is `.config_hash`.

`ensure_build` is a chain of actions, one for each access to the disk that another command or
an interruption can separate from the next: `EnsureTree`, `CopyTree`, `CheckPaths`,
`RemoveTree`, `ReadHash`, `FastPath`, `PatchFlags`, `MakeClean`, `Make`, `SaveHash`, then
`SaveMeta` of the dispatcher. `Interrupt(t)` ends a command at any of them; `LeftBehind`
gives what the step may leave half done (half a copy, half a removal, half a compilation).
`StartTrace`, `TraceClean`, `TraceMake` are the rebuild of introspection.
History: `whole` (make ran to its end since its last clean), `src` (the configuration the tree was copied
from), and `raced`, `behind` and `torn`, the three ways the cache is known to be defeated: configure ran
between the reading of the hash and the copy; the flags came from metadata that config.status had left
behind; a removal or a rebuild in place was cut short. No action's guard reads them.
Assumed: one command at a time per tree. Configure may run beside make.

### Brigade, ByteStream, FuzzInput (with MCFuzzInput, FuzzInput_proofs)
`Brigade` models the functions of APR that both filters use: a brigade is the bytes of its
data bucket and whether an EOS bucket follows. `FuzzInput` is the client side: `FuzzInit`,
`TestOneInput`, `FuzzOneInput` (sets the globals, opens the connection), `Read(mode, n)` (the
input filter, in every mode), `EndRequest`, `Crash`. Its reader is httpd with all its modules:
it issues any reads in any order and may stop at any time. With `splits` the
harness is `mod_fuzzy_multi`, which cuts a test case behind each blank line. (CR LF is one
end of line here, `LF`.) Variables `input`, `got` and `ended` record what the reader saw.
`ByteStream` is the abstract specification: a connection delivers its input in
order, each byte once, then the end. `Stream == INSTANCE ByteStream WITH ...` is the refinement.

### FuzzBackend, FuzzHarness (MCFuzzHarness, FuzzHarness_proofs)
`FuzzBackend` is the upstream side. `transport` says how the harness serves responses:
a connection filter (`PreConnection`, `FilterRead`) or a socket pair
(`ConnectBackend`, `SocketRead`). `back` is the connection in use. Over sockets a request may give its
connection back to be used again (`KeepBackend`): `pool[w]` is the one that worker `w` of mod_proxy keeps, with what is left
in it, through the end of the request and of the test case. `ConnectBackend(w)` takes it from there, and closes the one
far end there is (`g_backend_fd`, here the worker whose pair it belongs to), so other kept connections lose theirs.
Before a kept connection carries bytes again it is connected: mod_proxy_ajp calls `ap_proxy_connect_backend` for each request.
`FuzzHarness` composes both sides: a test case sets both buffers, upstream steps happen while a request is
served. `EndOfRequest` destroys the pool of the client's connection and leaves `pool` alone; by then the handler has
released its connection. The connection in use refines the same `ByteStream`.
Assumed: mod_proxy_uwsgi, which the filter serves, uses a connection for one request only (uwsgi has no keep-alive; a filter of a
connection that was used again would serve what was left of an older response). Requests run on one thread, a request uses one upstream connection at a time (no proxied
subrequest inside a proxied response; `configs/ajp.conf` has no includes), a response fits the socket buffer and
`socketpair` succeeds. Over sockets responses are never empty (`ResponsesOf`): the AJP harness always builds one.

### HarnessCache, Reports (MCReports, Reports_proofs)
`HarnessCache` has one action for each compiled object, for the link and for the stamp, since
a command can be stopped between any two. `fresh[m]` abstracts the comparison of file times:
the binary is newer than `libmain.la` of its tree. `unstamped` is history.
`Reports` composes it with what is done with the binary. A corpus is the set of its directories
(queue and crashes of each fuzzer instance, or a directory of the user's) and which of them hold files;
`Collected` is `_collect_corpus_dirs`. `raw`, `merged`, `callgrind`, `tree`, `cdb` and `bitcode` are
the files one stage leaves to the next, each abstracted to what it was made from. `coverage`
is `StartCoverage`, the steps of HarnessCache, `ClearRaw`, `ReplayCorpus`, `Merge`, `Show`; with
`--introspect` it goes on to the bitcode (`CleanTree`, `Bear`, `EmitAndLink`); `introspect` is
`StartIntrospect`, `Export`, `Assemble`; `profile` is `StartCallgrind`, `RunCallgrind`; `Clean` removes
its targets in the order of their names. `GiveUp` ends a command between any two steps.
`plan` is a constant of the behaviour: the commands this user runs, which keeps the instance finite in time.
History: `relinked`, `cut`.

### ExternalModules (MCExternalModules)
HarnessCache with the shared objects and the fuzzers that load them when they start; a restart is a
second `StartFuzzer`.

### ToolchainConfig, Toolchain (MCToolchain, Toolchain_proofs)
`ToolchainConfig` is the file as a store: `Load` (read and change in memory), `Truncate` (`open` for writing),
`Write`, `CutShort`, for each process; edits of the user; paths that come and go. `ideal` is
what the file would say if no update were lost, `manual` what was set by hand.
`Toolchain` is what uses it: `setup check` (`StartCheck`, `Scan` of each member of the registry, `Scanned`, then one
update for each section), `setup llvm`, `libtool` and `lpm`, in two processes; and
`_detect_llvm_toolchain`, the choice the coverage commands make (`Chosen`, `ToolFor`). Paths are
triples of a directory, a tool and a version; the version of a name without one is that PATH
gives it (`Plain`). Of the tools that are only looked up, libtool stands for all.
`Toolchain` implements `ToolchainConfig` (`ImplementsConfig`): each of its steps is one of the store's, or none.
History: `borrowed` (versioned names recorded for a tool of another version), `unbuilt`.

### Seeds, AjpResponses, CallGraph, ConfLines (MCAlgorithms, Algorithms_proofs)
Parts that work on data. `Seeds` has the expansion of a grammar as the set of all strings it can return
(`Expansions`), and the seed directories and queues as the files they hold, with interrupted writes. A command has a
seed directory and an output directory (`--seed-dir`, `--output-dir`) and may resume; `UserSeeds` are files the user has put into
seed directories before, under names that other seeds may have. Clean empties `fuzz-output` and removes the grammar seeds of `fuzz-seeds`, and
leaves the other directories. History: `copyOf`, the directory whose seed a file in a queue is a copy of, or that the copy was cut
short, or outlived its seed. Not modelled: seeds that the user adds, changes or removes by hand between commands.
`AjpResponses` is `BuildAjpResponse` byte by byte with lengths modulo `LenMod`, read back as mod_proxy_ajp does.
`CallGraph` is `walkNode` with its stack of frames, and the merge of several walks.
`ConfLines` is the callback that hands a configuration file to httpd line by line, and the trap
for `exit()`. `MCAlgorithms` runs one of them in each behaviour.

### FuzzSession (MCFuzzSession, FuzzSession_proofs)
One record per session with its program counter; `Load`, `Truncate` and `Write` are the three
accesses of `_flush` to `stat.json`. A line of the engine may record an event and
may be followed by a pulse (always, for the first line). `EngineExits` gives the codes the
engine can end with from each of its states; code 1 restarts it.
History: `flushed`, `started`, `damaged`.

### Downloads, Workspace (MCWorkspace, Workspace_proofs)
The working directory from the first download on. `source[v]` and `dep[v][d]` are what there is of
`httpd-<v>` and of each library in its `srclib` (none, a part, all); `configured`, `trees` and
`harness` are what later commands look at of the builds; `docs[b]` and `seeds[b]` the files of each bug. `job` is the command that
runs, with its program counter. `Downloads` is `download_apache`: `Look`, `Extract`, then
`NextDep`, `Unpack`, `Rename` for each missing library. `bug setup` (`StartSetUp` to `SetUpSeeds`) runs
it only if there is no directory, then configures, makes a tree and links twice, and writes what the bug
needs. Making a tree is `RemoveTree` (stale, or without its hash), `BuildTree` and `KeepTree` (the fast path); here a tree may
be found stale at any time, when it is so is BuildTree's subject. `StartMake` and `StartLink` are the same steps on their
own, `make --tree` and `link`. `Link` says of which version and which harness the binary is. `Introspect` and
`IntrospectFails` are the rebuild in place of a coverage tree, in one step since only one command runs (BuildTree and Reports have
its steps). `Triage` is `reproduce`; `Clean...` are `clean`, `clean --all` and `bug clean`, in the
order in which the code removes things. `InterruptDownload` and `Interrupt` end the command at any step
and leave what the step had half done: a part of a tree, with its hash (`TornTree`), or no binary (`TornLink`:
the linker removes the old one first).
History: `torn` (versions half written or half removed), `undone` (trees being built or removed, or whose rebuild was cut
short), `ready` (bugs set up whose binaries no link replaced or lost), `robbed` (bugs whose files went with another's).
Assumed: one command at a time; an archive, once fetched, is what its server has. Whether configure
gets by with a torn directory is left open (`SetUpRoot` and `SetUpFails` are both possible).

## 3. Model checking

| Run | Instance | Checks | Shows |
|---|---|---|---|
| `build` | one tree, two configurations, one compiler | `HashedTreeIsBuilt`, `HashNamesSource`, `ObjectsMatchFlags`, `NoRebuildInPlace`, `IInv` | the cache of trees is sound but in the ways the invariants name: a race with configure, metadata behind config.status, a removal or rebuild cut short |
| `build_fastpath` | the same | `FastPathIsComplete` violated | an interrupted introspection rebuild, or an interrupted removal, leaves a tree the fast path calls ready |
| `requests` | eight test cases, both harnesses, at most two requests, two test cases in a row, `readbytes` 0 to 2 | `RequestsAreWhole`, `EveryByteServed`, `PeekIsNext`, `IsAStream`, `EndIsReached` | requests are whole, connections are streams, a reader of lines gets to the end |
| `requests_bytes` | one test case at a time, a reader of blocks | `EndIsReached` violated | `APR_INCOMPLETE` with nothing moved: the reader that asks again is never told of the end |
| `proxy` | three test cases in a row, both transports, two connections each, two workers that may keep theirs | `BufferOwned`, `CurrentResponse`, `ServedOnce`, `PeerAlive`, `BackendIsAStream`, `UpstreamEndIsReached` | no byte of another test case reaches either side, also over a kept connection; the filter gives a response once; the upstream is a stream with its peer open |
| `reports` | one process, two harnesses, two objects, a corpus of three instances and one of crashes alone, five plans | `ReportsAskedHarness`, `OneMode`, `ReportIsOfItsRun`, `IntrospectionJoinsOneHarness`, `BitcodeCoversTree`, `CallgrindCoversCorpus` | sequential commands, however interrupted, report on the harness, the corpus and the tree they were asked for, but in the ways named |
| `modules_shared` | two processes | `FuzzerKeepsItsModules` violated | a coverage report replaces the modules of a fuzzer |
| `session` | two sessions, two seconds, one pulse and one event each | `FileIsHistory`, `TornOnlyByInterrupt`, `LastPulseWritten`, `SessionEnds` | `stat.json` is the history of all sessions but in the ways named, a session that is not restarted ends |
| `session_restart` | one session | `RestartsAfterCrash` violated | an engine that cannot start is restarted as if it had crashed |
| `workspace` | two versions, a bug in each, two harnesses, one step that fails or is interrupted | `DownloadIsComplete`, `LibrariesAreWhole`, `HarnessHasTree`, `ReadyReproduces`, `IInv` | commands in any order, one cut short anywhere, leave downloads complete, binaries with their trees but for a rebuild cut short, and set up bugs reproducible until a link replaces or loses a binary, but in the ways named |
| `toolchain` | two processes, two commands, one change by the user or apt, two versions of LLVM, PATH empty or with a mixture | `NothingLost`, `OverridesKept`, `MatchedTriple`, `RecordedLpmBuilt` | no entry is lost or replaced unless updates overlap, are cut short or are forced; compiler and tools match unless a tool was borrowed; a recorded library is built |
| `algorithms` | depth 1 and two seeds, two seed and two output directories, three commands; lengths of 8 bits; graphs of three functions; files of six characters | `SeedsAreConcrete`, `QueueHoldsSeeds`, `ResponseIsReceived`, `WalkIsComplete`, `LinesAreTheFile` | each part against a reference definition, on all small inputs |

The four violated properties state what a comment, a message or a document of the repository says;
`findings` in PROJECT.json quotes each with its line.

Why the bounds are enough. *build*: trees do not share state but for the root, so one tree with
two configurations shows every staleness (the proof covers any number); a second compiler multiplies
the states beyond ten million and adds no action, and the theorems hold for any set of compilers.
*requests*: the test cases hold no, one and several blank lines, at the start, doubled and at
the end, a line longer than `HUGE_STRING_LEN` (3 here), and more requests than the limit.
*proxy*: three test cases let a leftover of the first survive the second; two connections of a test case and two workers let one
worker's connection lose its far end to the other and be used again later. *reports*: two
objects suffice for an interruption to leave a mixture; a corpus with queues in two instances and in the directory itself has
all the choices of `_collect_corpus_dirs`; a plan names the commands of a behaviour, and each plan
joins the commands that read or write each other's files. *toolchain*: two commands can overlap or follow each other, one
change lets a tool vanish or appear between them; the proofs hold for any number. *algorithms*: one
level above the limit is enough to reach it by a cycle; two directories of each kind are the default and another one, and three
commands let a session meet what another and a clean left; strings go just below, to and beyond the
modulus; three functions have all cycles, shared callees and self calls of depth two. *session*: two sessions can overlap,
follow each other and start in the same second. *workspace*: two versions let one command find the other's
directory, two bugs share `/tmp/htdocs`, a second harness replaces that of the bugs; the
proof covers any number of failures. Bounds are the constants `MaxFailures`, `MaxCases`,
`MaxConnects`, `MaxClock`, `MaxPulses`, `MaxEvents`, `MaxCommands`, `MaxChanges`, `MaxDepth`, `Count`.

Fairness. `LineReaderSpec` and `ByteReaderSpec` assume weak fairness of one kind of read: a reader
that keeps asking, as httpd does for request lines and bodies. The filter itself needs none,
it answers synchronously. `FairHarnessSpec` assumes the same of the proxy module's reads of its
upstream. `FuzzSession!Spec` assumes weak fairness of the steps of a
session, one sequential process; neither the engine nor the user need ever act.

Deadlock is checked but for runs whose processes may stop for good: the harness
after a crash or its last test case, sessions that have ended, and setup commands at their bounds.

## 4. Proofs

`BuildTree_proofs` proves, for any trees, configurations and compilers:

* `TypeCorrect`: `Spec => []TypeOK`;
* `Invariance`: `Spec => []IInv`, the inductive invariant;
* `HashedTreesAreBuilt`, `HashesNameSources`, `ObjectsMatchRecordedFlags`, `HashedTreesAreNotRebuilt`: the
  four safety properties of the cache.

The only assumption is `BuildTreeAssumption` (the `-cov` tree is one of the trees; `None` is
neither a configuration nor a build). `HashedTreeIsBuilt`, for one, is not inductive: nothing in it says
that a tree about to be given its hash (`job[t].pc = "save"`) was made. `IInv` adds what the steps
between establish: after `make`, the objects are those of the job and the tree is whole; after
`clean`, none are left; the hash the job read is that of the copy unless configure ran between;
past the path check, a hashed tree is its own; and a build that a job holds is of the configuration of its hash or came
from metadata left behind (`BehindIsMarked`), which is why the objects of a hashed tree are of its hash. Each part speaks of one tree, its job and the root's
configuration (`GoodTree`), so the argument is one lemma per step of a tree, and one that
a step of one tree leaves the others as they were.
`FuzzInput_proofs` proves, for any test cases, any limit of requests, both kinds of harness and any
reader (any modes, any `readbytes`):

* `TypeCorrect` and `Invariance` (`[]TypeOK`, `[]IInv`, neither of them a run of its own: the proof says more);
* `BufferIsOwned`, `RequestsAreWholeParts`, `AllBytesServed`, `PeeksAreNext`: the safety properties
  of the run `requests`;
* `Refinement`: `Spec => IsAStream`, each connection implements `ByteStream`.

Assumed: `LF \in Byte`, test cases are sequences of bytes, the limit of requests is positive, the values of
`readbytes` are integers, the bounds are naturals. The argument for the stream: `Keeps` says
of one answer of the filter that what it moves and what it keeps concatenate to what was there, and that the
EOS bucket leaves with the last byte (`AnswerKeeps`, mode by mode). `BeforeRead` says what a read finds,
whether the globals were taken over yet or not; with associativity of concatenation, `NothingLost`
follows and is the heart of `IInv`. `ByteStream`'s step is then read off it: what was delivered is a prefix of
what is now delivered, and that of the input. The argument for the splitting is the minimality
of `RequestEnd`, from the well-ordering of the naturals (`First`).

`Workspace_proofs` proves, for any versions, bugs and number of failures:

* `TypeCorrect` and `Invariance` (`[]TypeOK`, `[]IInv`);
* `DownloadsComplete`, `LibrariesWhole`, `HarnessesHaveTrees`, `ReadyBugsReproduce`: the safety
  properties of the run `workspace`.

Assumed: `None` is no version and no bug, each bug has a version and a harness, the default is a version,
`MaxFailures` is a natural. The properties speak of the disk between commands, but a command relies on what
its own earlier steps left: `IInv` adds, for each program counter, what the command has made so far
(`DownloadInv`: the directory of the version is there from `Extract` on; `SetUpInv`: the version is that
of the bug, the binaries linked so far are of it and of its harness, its files are there when the seeds are
made, a tree is there when a link comes to it), that a part of a source is always a torn one (`PartialIsTorn`), and that a part of a
tree is one whose rebuild or removal did not come to its end (`PartsAreUndone`). A removal of a tree by `ensure_build` or by
clean, its rebuild and what either leaves behind are one lemma (`TreeChanged`). A step that ends its
command has only the disk to show (`IdleJob`), one that only goes on has only its
job (`JobStep`). A removal of trees or sources starts when no binary is left, and
then no bug is ready (`NoneReady`).

`Toolchain_proofs` first proves of `ToolchainConfig`, for any names, paths and processes, `StoreLosesNothing` and
`StoreKeepsOverrides` (its inductive invariant is `StoreInvariant`).
Assumed: `None` is no path, `Garbled` no entries. `NothingLost` is not inductive:
`StoreInv` adds that without overlap one process at a time saves (`Alone`), that what it is about to write is what it
changes laid over the ideal (`MemIsIdeal`), and that an update that preserves entries changes none made by hand (`ManualKept`).

Of `Toolchain` it proves, for any versions, analysis tools, processes and numbers of commands:

* `ToolchainInvariant`: the inductive invariant `ToolInv`;
* `ImplementsConfig`: the setup commands implement the store; from it `RecordsAreKept` and `ManualEntriesAreKept`;
* `ChoosesMatchedTriple`, `LpmIsBuilt`.

Assumed: versions are numbers from 1 to `Newest`, `Plain` is one of them, the analysis tools are not called
like the others, and what is installed at first is among the paths. The argument: entries are
`Sound` if under a versioned name they hold a tool of that version, or a borrowed one, and if the library
they record was built. Soundness is kept by laying entries over others, by
taking a section of them and by preserving some of them, so it is enough that each command starts from
sound entries: `Finds` of a scan, `Registered` of an installation, `LpmRecording` of a build.

`Reports_proofs` proves, for any harnesses, objects of a harness, instances, corpora and plans, and for one
process (`ASSUME NEW c, Procs = {c}`; with two, `.objects` and `coverage-report` are shared and the properties
fail, see section 5), `ReportsInvariant` and the six properties of the run `reports` (`AskedHarnessIsReplayed`, `BinariesAreOfOneMode`,
`ReportShowsItsRun`, `IntrospectionIsOfOneHarness`, `BitcodeIsOfTheTree`, `CallgrindIsOfTheCorpus`). Assumed: the default is a harness
and no request for none, a harness has an object, the corpus directory is among the instances. The
properties speak of what a command ends with; `ReportsInv` says what it has on the way: the objects
behind the next one are its own (`Compiled`), the stamp of a binary is its name unless it was linked without one
(`StampsAreTrue`), the only raw profile is that of its replay (`CoverageInv`), a trace starts from a
clean tree (`BitcodeInv`), each directory run so far has its output or lost it to one of its name (`CallgrindInv`). A
step that leaves a part alone is dealt with by one lemma per part (`CacheQuiet`, `CoverageQuiet`,
`BitcodeQuiet`, `CallgrindQuiet`).

`FuzzSession_proofs` proves, for any sessions of any length, however often each is interrupted, restarts its
engine or writes the file:

* `SessionInvariance`: the inductive invariant `SessionInv`;
* `HistoryIsKept`, `TornFilesExplained`, `LastPulseIsWritten`: the safety properties of the session runs.

Assumed: the bounds are naturals. `FileIsHistory` is not inductive: it does not say what the sessions that are about to
write have in memory, nor which element of the list each will replace. `SessionInv` adds that a session is known by its
start time, on disk and in memory (`StartsAreKept`), that no two have the same (`StartsDiffer`), that the
one that runs is the last of those that wrote (`ActiveIsLast`), and that what was loaded for a
write in progress is what is recorded (`FileIsRecorded`). From these a write replaces its own last element
or adds one (`WrittenIsRecorded`, the heart of the argument). The steps that touch no file are dealt with by one lemma.

`FuzzHarness_proofs` proves, for any responses, filter modes and read sizes, over both transports:

* `BackendInvariance` (`BackendInv`) and from it `ResponseIsCurrent`, `ResponseIsServedOnce`, `PeerIsAlive`;
* `BackendRefinement`: `BackendSpec => BackendIsAStream`, each upstream connection implements `ByteStream`;
* `ImplementsClient` and `ImplementsUpstream`: the composition implements the specification of each side,
  so what was proved of a side holds of it (`SidesAreApart`, `BothSidesAreStreams`).

Assumed: those of FuzzInput, that responses are sequences of bytes, that the transports are the filter and the socket, and
that read counts are integers. The properties speak of what was read; `BackendInv`
says where the rest is: over the filter in the globals until they are taken over and then in the bucket brigade, over the socket
in the pair of the worker in use, whose far end is the one that is kept (`SocketInv`). Of the connections that workers keep
nothing is assumed: they may hold bytes of any older response and have lost their far ends. Each step is shown to keep the invariant and to be a step of the stream at once, since the step that
ends a stream needs the invariant to know that nothing is left. `InUseWhileServing` is what makes the composition
more than a conjunction: without it the next test case could replace a response under a connection in use.

`Algorithms_proofs` proves parts of the run `algorithms`:

* `SeedsInvariance` and `QueuesHoldSeeds`, whatever the grammars can be expanded to, for any seed and output directories and
  files of the user. A file in a queue that is marked as the copy out of a directory is the seed of its name there
  (`CopiesHaveSeeds`); seeds are drawn only where no file that is marked as a copy out of that directory has their name
  (`NothingStale`), which holds in `fuzz-output` because a clean empties it first and elsewhere because the copies it
  leaves are no longer marked as copies of a seed that is there; what is not copied yet is still listed (`CopiesMissing`).
* `SeedsHaveNoNonTerminals`, for any grammars (`IsGrammar`: a start symbol, and for each non-terminal a production at
  least) and any depth limit; it says nothing of a grammar with a non-terminal that no production of terminals ends
  (`Grounded`). All ways of all symbols are
  sequences without non-terminals (`Clean`): at the limit because each symbol can be grounded there (`AtLimitClean`), above it
  because the level below is clean (`AboveLimitClean`); what is drawn is one of them.
* `ResponsesAreReceived`, for any response messages (`IsResponse`) and any `LenMod`. While a response whose lengths fit is
  read, the packets read are its payloads up to one, and the stream is the bytes from the next on (`AjpInv`). Where each
  payload and each header begins is a function of offsets (`Places`) that exists for every list of sequences
  (`FlattenPlaces`); at an offset the two bytes of a length read as the length (`NumberIsRead`), so the packet, the string or
  the header that is cut out there is the one that was written (`PacketIsNext`, `StringIsRead`, `HeaderIsRead`), and the
  first byte tells the packets apart (`FirstBytes`). An encoded header name is told from a spelled-out one by its first byte: that
  is why `Fits` bounds names at 40960 bytes.
* `LinesMakeTheFile`, for any files and any buffer sizes above one (`SizesAssumption`, `FilesAssumption`: inputs are
  sequences). `LinesAreTheFile` is inductive with the types; the step is one lemma on what a call copies (`CopiedFits`,
  from the well-ordering of the naturals) and one on joining a list with one more line (`FlattenAppend`).
* `WalkInvariance` and `WalksAreComplete`, for any finite call graph whose callees are in it (`GraphAssumption`), any
  entries and any `ShallowDepth`. A depth-first walk is right for a global reason: when it ends, what was visited is closed under
  calls. `WalkInv` says on the way that the stack is a path of calls on which each function is once (`StackIsPath`), that the
  callees of the sites dealt with were visited (`CalleesAreVisited`), that nothing else was described
  (`VisitedIsReached`), and that each edge was recorded as often as a site of it was dealt with (`EdgesOfDone`). One
  lemma (`SiteStep`) covers the steps that deal with a site. The reference definition counts at most
  as many calls as there are functions; that this is enough is `ReachedIsReachable`: as long as a call leads further, there is one
  function more, and there are finitely many.

The recursive functions in `FlattenSeq`, `HeadersAt`, `Expansions` and `Shallow` are reasoned about by least counterexample (`First`), which
needs no induction theorem with an operator for a parameter: first that such a function exists (`FlattenExists`,
`ShallowExists`), then what it is at each place.

Only model-checked: liveness (`EndIsReached`, `UpstreamEndIsReached`, `SessionEnds`), which the prover does not
reach.

## 5. Not modelled, and what comes next

Seen while modelling and not a run of its own: the metadata of a branch names the compiler of the
command even when nothing was compiled (`method_dispatcher.py:236`, against `build_meta.py:3`);
copies of a root that was itself moved keep naming the old place (`build_tree.py:110-113`);
concurrent `link` and `report` share `.objects` (`report_manager.py:504`); the docstring at
`harness.py:106` names another default harness than line 147.

Seen in BuildTree, and said by its properties as an exception: a configure that has written config.status and
not yet its metadata, or fails in between, lets `make --tree` build with the flags of the old configuration under the hash of
the new one, and later makes take that tree for up to date (`build_manager.py:243-262`, `method_dispatcher.py:210-221`).

Seen in Workspace, and said by its properties as exceptions: a rebuild that fails or is interrupted leaves the harness binary
without the libraries it was linked to (`build_tree.py:49-54`), and a set-up bug without its trees; `bug clean` of one bug removes `/tmp/htdocs` with the
files of all bugs (`bugs/base.py:167` says "for this bug"; `reproduce` does not make them again); an
interrupted extraction or removal leaves a directory that later commands take for httpd
(`downloader.py:117`, `bug_manager.py:155`); `bug setup` says "already downloaded" of a directory without its
libraries and then fails each time it is run (`bug_manager.py:159`); an archive left in the working directory counts as a second httpd
directory (`method_dispatcher.py:723-735`, not modelled).

Seen in Reports and Seeds, and said by their properties as exceptions: a binary linked by `apatchy link`
is reused under the stamp of an earlier report, and an edit of its source is not noticed (`report_manager.py:411`); the corpus count lets a
corpus of crashes alone through, whose report then shows nothing (`report_manager.py:444`); a
failed `bear` leaves a database that is taken for the whole ever after (`introspector_manager.py:139`);
queues of two instances write one `callgrind.out.queue`, and the viewer is also given the outputs of earlier runs
(`report_manager.py:1024`); a seed or a copy cut short is never made again (`base.py:51`, `libfuzzer.py:26`); after a clean, new grammar seeds do not
replace the old ones in the queue of an `--output-dir` (`method_dispatcher.py:828`), nor do those of another `--seed-dir`
that have a name there;
a grammar that cannot be grounded in one step may leave names of non-terminals in seeds (`grammar.py:52`; the
grammars that are shipped do not).

Seen in Toolchain: a tool recorded under a versioned name through the fallback can be of another version, against
`report_manager.py:142` ("All three must come from the same LLVM major version"); forced updates
replace entries made by hand, against `toolchain_config.py:19` ("Manual edits are preserved"), and `setup libtool` forces one each time;
`setup llvm --llvm-version` installs nothing if any clang is found (`llvm.py:78`; `main.py:302` says it skips the
detection); the newest clang in PATH comes before the one `setup llvm` registered (`report_manager.py:146`).

Seen in the other parts: wuxi ends with success and an empty result for an entry that is no function
(`CallGraphWalker.cpp:96`), so the check of its exit code never sees it; calls through pointers are not
recorded although an edge has a field for them; AJP packets of 65536 bytes and more wrap their length, and
a raw header name of 40960 bytes or more reads as an encoded one (`ajp.cc:36-62`).

Not modelled, and why:

* display, logging, argument parsing, the viewer, the terminal picker, developer projects: no state a property could be about;
* flags by version and configuration (`compat.py`, `config_manager.py`): tables, which a model would repeat;
* triage: a loop over crash files that keeps nothing, on disk or between two files;
* the stubs and the straight-line set-up of httpd in `fuzz_init` (only its outcome is modelled);
* http and uwsgi messages: strings joined without lengths;
* memory: the responses of FuzzBackend fit the socket buffer (a larger one would block `write` at `fuzz_backend.c:73`), and
  requests run on one thread, so that nothing reads `g_backend_buf` after its test case (`mod_fuzzy_proto_uwsgi.cc:36`).

What could come next: nested upstream connections (a proxied subrequest), whose connects would close the far end of the outer one; two report commands at a time, which share `coverage-report` as they share `.objects`.
