----------------------------- MODULE Workspace -----------------------------
(***************************************************************************)
(* The working directory across commands: downloads, the build trees and   *)
(* harness binaries made of them, the known bugs set up in it (managers/   *)
(* bug_manager.py, bugs/), and clean (method_dispatcher.py).               *)
(*                                                                         *)
(* Each command looks at what exists to decide what to do, so a failure in *)
(* the middle of one is met by the next.  When a tree is up to date is the *)
(* subject of BuildTree: here ensure_build may find any tree stale, for    *)
(* its hash or for its paths, and takes it away before it builds another.  *)
(* The files that bugs need are in /tmp/htdocs, which all of them share.   *)
(***************************************************************************)
EXTENDS Downloads

CONSTANTS
    Bugs,           \* the known bugs that keep files in /tmp/htdocs
    BugVersion,     \* the version of httpd of each
    BugHarness,     \* the harness of each
    Harnesses,      \* the harnesses there are
    Sized,          \* those whose setup completes a file that is too short
    Default         \* DEFAULT_APACHE_VERSION

ASSUME BugAssumption ==
    /\ None \notin Bugs /\ Sized \subseteq Bugs
    /\ BugVersion \in [Bugs -> Versions] /\ BugHarness \in [Bugs -> Harnesses]
ASSUME DefaultAssumption == Default \in Versions

VARIABLES
    configured, \* versions whose root tree has its build metadata
    trees,      \* what there is of the alternate trees of each version
    harness,    \* the version and the harness each binary is linked of
    docs,       \* what there is of the files of each bug in /tmp/htdocs
    seeds,      \* what there is of the seeds of each bug
    undone,     \* history: trees that a command began to build or to remove,
                \* and did not come to the end of, or not yet
    ready,      \* history: bugs set up whose binaries no link replaced since
    robbed      \* history: bugs whose files the cleaning of another removed

treeVars == <<configured, trees, undone, harness>>
bugVars == <<docs, seeds>>
history == <<ready, robbed>>
vars == <<source, dep, torn, job, failures, configured, trees, undone, harness, docs, seeds, ready, robbed>>

Trees == {"lf", "cov"}
MakePc == [lf |-> "make lf", cov |-> "make cov"]
LinkPc == [lf |-> "link lf", cov |-> "link cov"]

\* What there is of a tree: nothing, some of it and no hash, some of it under
\* a hash (the removal was cut short), or all.
TreeAmounts == {"none", "unhashed", "torn", "built"}

NoBinary == [v |-> None, h |-> None]
Binaries == [v : Versions, h : Harnesses] \union {NoBinary}

\* What there is of the files of a bug: some of them, or all but that one of
\* them was not written to its end and is taken for done.
BugAmounts == {"none", "some", "torn", "all"}

Init ==
    /\ DownloadsInit
    /\ configured = {}
    /\ trees = [v \in Versions |-> [t \in Trees |-> "none"]]
    /\ undone = {}
    /\ harness = [t \in Trees |-> NoBinary]
    /\ docs = [b \in Bugs |-> "none"]
    /\ seeds = [b \in Bugs |-> "none"]
    /\ ready = {}
    /\ robbed = {}

Present == {v \in Versions : source[v] # "none"}

-----------------------------------------------------------------------------
(***************************************************************************)
(* The commands that build: each finds the version to work on.             *)
(***************************************************************************)

\* _get_active_httpd: the default version, or the only one.  (An archive left
\* in the working directory counts as another, and the command fails.)
Active ==
    IF source[Default] # "none" THEN Default
    ELSE IF \E v \in Versions : Present = {v} THEN CHOOSE v \in Versions : Present = {v}
    ELSE None

\* configure needs httpd, APR and APR-util, and can find another expat; whether
\* it gets by with a part of them depends on the part.
CanBuild(v) == source[v] # "none" /\ {"apr", "apr-util"} \intersect Missing(v) = {}

Configure ==
    /\ job.pc = "idle"
    /\ Active # None /\ CanBuild(Active)
    /\ configured' = configured \union {Active}
    /\ UNCHANGED <<sourceVars, job, failures, trees, undone, harness, bugVars, history>>

\* apatchy make --tree: ensure_build, on its own.
StartMake(t) ==
    /\ job.pc = "idle"
    /\ Active # None /\ CanBuild(Active) /\ Active \in configured
    /\ job' = [Idle EXCEPT !.pc = MakePc[t], !.v = Active]
    /\ UNCHANGED <<sourceVars, failures, treeVars, bugVars, history>>

\* apatchy link, and the commands that link before they report.
StartLink(t) ==
    /\ job.pc = "idle"
    /\ Active # None /\ trees[Active][t] # "none"
    /\ job' = [Idle EXCEPT !.pc = LinkPc[t], !.v = Active]
    /\ UNCHANGED <<sourceVars, failures, treeVars, bugVars, history>>

\* The command goes on, or is over when it is not the setup of a bug.
ThenSetUp(pc) == IF job.b = None THEN job' = Idle ELSE Goto(pc)

\* ensure_build takes a tree away that it finds stale or without a hash.
RemoveTree(t) ==
    /\ job.pc = MakePc[t] /\ trees[job.v][t] # "none"
    /\ trees' = [trees EXCEPT ![job.v][t] = "none"]
    /\ undone' = undone \union {<<job.v, t>>}
    /\ UNCHANGED <<sourceVars, job, failures, configured, harness, bugVars, history>>

\* It copies and builds one that is not there, or builds in place what it
\* takes for up to date but not built.
BuildTree(t) ==
    /\ job.pc = MakePc[t] /\ trees[job.v][t] \in {"none", "torn"}
    /\ trees' = [trees EXCEPT ![job.v][t] = "built"]
    /\ undone' = undone \ {<<job.v, t>>}
    /\ ThenSetUp(LinkPc[t])
    /\ UNCHANGED <<sourceVars, failures, configured, harness, bugVars, history>>

\* Its fast path: a hash and libmain.la are there.
KeepTree(t) ==
    /\ job.pc = MakePc[t] /\ trees[job.v][t] \in {"built", "torn"}
    /\ ThenSetUp(LinkPc[t])
    /\ UNCHANGED <<sourceVars, failures, treeVars, bugVars, history>>

\* apatchy introspect without bitcode and without a trace of the tree, given a
\* profile and a binary elsewhere: build_bitcode cleans the coverage tree in
\* place, under its hash, and makes it again, from what is there of it.
Introspect ==
    /\ job.pc = "idle" /\ Active # None
    /\ trees[Active]["cov"] = "torn"
    /\ trees' = [trees EXCEPT ![Active]["cov"] = "built"]
    /\ undone' = undone \ {<<Active, "cov">>}
    /\ UNCHANGED <<sourceVars, job, failures, configured, harness, bugVars, history>>

\* It fails or is cut short after the clean.
IntrospectFails ==
    /\ job.pc = "idle" /\ Active # None
    /\ failures < MaxFailures /\ failures' = failures + 1
    /\ trees[Active]["cov"] = "built"
    /\ trees' = [trees EXCEPT ![Active]["cov"] = "torn"]
    /\ undone' = undone \union {<<Active, "cov">>}
    /\ UNCHANGED <<sourceVars, job, configured, harness, bugVars, history>>

\* A binary is replaced.  Flags, modules and harness are those of this command,
\* not those of a bug set up before.
LinkTo(t, binary) ==
    /\ harness' = [harness EXCEPT ![t] = binary]
    /\ ready' = {}

Link(t) ==
    /\ job.pc = LinkPc[t]
    /\ \E h \in IF job.b = None THEN Harnesses ELSE {BugHarness[job.b]} :
          LinkTo(t, [v |-> job.v, h |-> h])
    /\ ThenSetUp(IF t = "lf" THEN "make cov" ELSE "docs")
    /\ UNCHANGED <<sourceVars, failures, configured, trees, undone, bugVars, robbed>>

-----------------------------------------------------------------------------
(***************************************************************************)
(* apatchy bug setup: BugManager.setup.                                    *)
(***************************************************************************)

\* A directory of the version is taken for a finished download.
StartSetUp(b) ==
    /\ job.pc = "idle"
    /\ LET v == BugVersion[b] IN
       job' = [Idle EXCEPT !.v = v, !.b = b, !.then = "configure",
                           !.pc = IF source[v] = "none" THEN "look" ELSE "configure"]
    /\ UNCHANGED <<sourceVars, failures, treeVars, bugVars, history>>

SetUpRoot ==
    /\ job.pc = "configure"
    /\ CanBuild(job.v)
    /\ configured' = configured \union {job.v}
    /\ Goto("make lf")
    /\ UNCHANGED <<sourceVars, failures, trees, undone, harness, bugVars, history>>

\* Setup fetches no library that is missing: it may fail each time it is run.
SetUpFails ==
    /\ job.pc = "configure"
    /\ ~Complete(job.v)
    /\ job' = Idle
    /\ UNCHANGED <<sourceVars, failures, treeVars, bugVars, history>>

\* Bug.setup leaves a file that exists as it is, but one that is too short.
DocsMade(b) == IF docs[b] = "torn" THEN "torn" ELSE "all"

SetUpDocs ==
    /\ job.pc = "docs"
    /\ docs' = [docs EXCEPT ![job.b] = DocsMade(job.b)]
    /\ robbed' = robbed \ {job.b}
    /\ Goto("seeds")
    /\ UNCHANGED <<sourceVars, failures, treeVars, seeds, ready>>

\* Mutant: seeds are made only where there are none.
SeedsMadeOnce(b) == IF seeds[b] = "none" THEN "all" ELSE seeds[b]

\* Bug.generate_seeds: each file that exists is left as it is.
SeedsMade(b) == IF seeds[b] = "torn" THEN "torn" ELSE "all"

SetUpSeeds ==
    /\ job.pc = "seeds"
    /\ seeds' = [seeds EXCEPT ![job.b] = SeedsMade(job.b)]
    /\ ready' = ready \union {job.b}
    /\ job' = Idle
    /\ UNCHANGED <<sourceVars, failures, treeVars, docs, robbed>>

-----------------------------------------------------------------------------
(***************************************************************************)
(* apatchy bug reproduce: BugManager.reproduce.                            *)
(***************************************************************************)
StartReproduce(b) ==
    /\ job.pc = "idle"
    /\ job' = [Idle EXCEPT !.v = BugVersion[b], !.b = b,
                           !.pc = IF seeds[b] = "none" THEN "reseed" ELSE "find"]
    /\ UNCHANGED <<sourceVars, failures, treeVars, bugVars, history>>

Reseed ==
    /\ job.pc = "reseed"
    /\ seeds' = [seeds EXCEPT ![job.b] = SeedsMade(job.b)]
    /\ Goto("find")
    /\ UNCHANGED <<sourceVars, failures, treeVars, docs, history>>

\* It triages in the root of the version, or in the only directory of httpd
\* that is not a coverage tree.
Candidates == (Present \X {"root"}) \union {<<v, "lf">> : v \in {w \in Versions : trees[w]["lf"] # "none"}}
HasRoot(v) == source[v] # "none" \/ Cardinality(Candidates) = 1

\* Every seed is triaged with the coverage harness there is.
Triage ==
    /\ job.pc = "find"
    /\ IF harness["cov"] # NoBinary /\ HasRoot(job.v) THEN Goto("triage") ELSE job' = Idle
    /\ UNCHANGED <<sourceVars, failures, treeVars, bugVars, history>>

Triaged ==
    /\ job.pc = "triage"
    /\ job' = Idle
    /\ UNCHANGED <<sourceVars, failures, treeVars, bugVars, history>>

-----------------------------------------------------------------------------
(***************************************************************************)
(* Cleaning.  apatchy clean removes its targets in the order of their      *)
(* names: harness binaries, with --all then the root tree of a version and *)
(* its copies; then it cleans all bugs, as apatchy bug clean does.  It     *)
(* does nothing when there is no target or the user does not agree.        *)
(***************************************************************************)
Cleaning == {"clean", "clean all", "clean bugs"}

StartClean(pc) ==
    /\ job.pc = "idle"
    /\ job' = [Idle EXCEPT !.pc = pc]
    /\ UNCHANGED <<sourceVars, failures, treeVars, bugVars, history>>

CleanHarness(t) ==
    /\ job.pc \in {"clean", "clean all"}
    /\ harness[t] # NoBinary
    /\ LinkTo(t, NoBinary)
    /\ UNCHANGED <<sourceVars, job, failures, configured, trees, undone, bugVars, robbed>>

NoHarness == harness = [t \in Trees |-> NoBinary]

CleanSource(v) ==
    /\ job.pc = "clean all"
    /\ NoHarness /\ source[v] # "none"
    /\ source' = [source EXCEPT ![v] = "none"]
    /\ dep' = [dep EXCEPT ![v] = NoDeps]
    /\ torn' = torn \ {v}
    /\ configured' = configured \ {v}
    /\ UNCHANGED <<job, failures, trees, undone, harness, bugVars, history>>

DropTree(v, t) ==
    /\ trees[v][t] # "none"
    /\ trees' = [trees EXCEPT ![v][t] = "none"]
    /\ undone' = undone \ {<<v, t>>}
    /\ UNCHANGED <<sourceVars, job, failures, configured, harness, bugVars, history>>

\* Mutant: the trees are removed before the binaries.
CleanTreeFirst(v, t) == job.pc = "clean all" /\ DropTree(v, t)

CleanTree(v, t) ==
    /\ job.pc = "clean all"
    /\ NoHarness /\ source[v] = "none" /\ (t = "lf" => trees[v]["cov"] = "none")
    /\ DropTree(v, t)

CleaningBugs ==
    /\ job.pc \in Cleaning
    /\ job.pc # "clean bugs" => NoHarness
    /\ job.pc = "clean all" => Present = {} /\ \A v \in Versions, t \in Trees : trees[v][t] = "none"

\* Bug.clean: the seeds of the bug, and /tmp/htdocs with what others have there;
\* lost are those whose files are gone when it is cut short.
Robbed(b) == {c \in Bugs \ {b} : docs[c] # "none"}

CleanBug(b, lost) ==
    /\ seeds' = [seeds EXCEPT ![b] = "none"]
    /\ docs' = [c \in Bugs |-> IF c \in lost THEN "none" ELSE docs[c]]
    /\ ready' = ready \ {b}
    /\ robbed' = (robbed \union (lost \intersect Robbed(b))) \ {b}
    /\ UNCHANGED <<sourceVars, treeVars>>

StartBugClean(b) ==
    /\ job.pc = "idle"
    /\ job' = [Idle EXCEPT !.pc = "bug clean", !.b = b]
    /\ UNCHANGED <<sourceVars, failures, treeVars, bugVars, history>>

BugClean ==
    /\ job.pc = "bug clean"
    /\ CleanBug(job.b, Bugs)
    /\ job' = Idle
    /\ UNCHANGED failures

CleanNextBug(b) ==
    /\ CleaningBugs
    /\ seeds[b] # "none" \/ docs[b] # "none"
    /\ CleanBug(b, Bugs)
    /\ UNCHANGED <<job, failures>>

CleanEnds ==
    /\ CleaningBugs
    /\ \A b \in Bugs : seeds[b] = "none" /\ docs[b] = "none"
    /\ job' = Idle
    /\ UNCHANGED <<sourceVars, failures, treeVars, bugVars, history>>

-----------------------------------------------------------------------------
(***************************************************************************)
(* A command of this module fails or is interrupted.                       *)
(***************************************************************************)
Rest == {"configure", "make lf", "link lf", "make cov", "link cov", "docs", "seeds",
         "reseed", "find", "triage", "bug clean"} \union Cleaning

\* A file being written is torn, or is one that the next setup completes.
TornDocs ==
    /\ job.pc = "docs" /\ docs[job.b] = "none"
    /\ \/ docs' = [docs EXCEPT ![job.b] = "torn"]
       \/ job.b \in Sized /\ docs' = [docs EXCEPT ![job.b] = "some"]
    /\ UNCHANGED <<sourceVars, treeVars, seeds, history>>

\* So is one of the seeds, or some are not there yet.
TornSeeds ==
    /\ job.pc \in {"seeds", "reseed"} /\ seeds[job.b] \in {"none", "some"}
    /\ seeds' \in {[seeds EXCEPT ![job.b] = a] : a \in {"some", "torn"}}
    /\ UNCHANGED <<sourceVars, treeVars, docs, history>>

\* A tree is half removed, its hash and libmain.la still there or not, or it is
\* removed and only a part of the new one is there, which has no hash yet.
Left(amount) ==
    {"none", "unhashed"} \union IF amount \in {"built", "torn"} THEN {"torn"} ELSE {}

TornTree(v, t) ==
    /\ \/ job.pc = MakePc[t] /\ job.v = v
       \/ job.pc = "clean all" /\ NoHarness /\ source[v] = "none" /\ trees[v][t] # "none"
    /\ \E amount \in Left(trees[v][t]) : trees' = [trees EXCEPT ![v][t] = amount]
    /\ undone' = undone \union {<<v, t>>}
    /\ UNCHANGED <<sourceVars, configured, harness, bugVars, history>>

\* The linker has removed the old binary and not written the new one.
TornLink(t) ==
    /\ job.pc = LinkPc[t]
    /\ LinkTo(t, NoBinary)
    /\ UNCHANGED <<sourceVars, configured, trees, undone, bugVars, robbed>>

\* The directory being removed lacks some of its libraries.
TornSource ==
    /\ job.pc = "clean all" /\ NoHarness
    /\ \E v \in Present, left \in SUBSET Deps :
          /\ "expat" \in left => "apr-util" \in left
          /\ source' = [source EXCEPT ![v] = "partial"]
          /\ dep' = [dep EXCEPT ![v] = [d \in Deps |->
                        IF dep[v][d] = "none" \/ d \notin left THEN "none" ELSE "partial"]]
          /\ torn' = torn \union {v}
    /\ UNCHANGED <<treeVars, bugVars, history>>

TornBug(b) ==
    /\ (job.pc = "bug clean" /\ job.b = b) \/ CleaningBugs
    /\ \E lost \in SUBSET Bugs : CleanBug(b, lost)

Interrupt ==
    /\ Fail
    /\ job.pc \in Rest
    /\ \/ UNCHANGED <<sourceVars, treeVars, bugVars, history>>
       \/ TornDocs \/ TornSeeds \/ TornSource
       \/ \E b \in Bugs : TornBug(b)
       \/ \E t \in Trees : TornLink(t) \/ \E v \in Versions : TornTree(v, t)

-----------------------------------------------------------------------------
DownloadNext ==
    /\ DownloadStep \/ InterruptDownload \/ \E v \in Versions : StartDownload(v)
    /\ UNCHANGED <<treeVars, bugVars, history>>

BuildNext ==
    \/ Configure
    \/ \E t \in Trees : StartMake(t) \/ RemoveTree(t) \/ BuildTree(t) \/ KeepTree(t)
    \/ \E t \in Trees : StartLink(t) \/ Link(t)
    \/ Introspect \/ IntrospectFails

BugNext ==
    \/ \E b \in Bugs : StartSetUp(b) \/ StartReproduce(b) \/ StartBugClean(b)
    \/ SetUpRoot \/ SetUpFails \/ SetUpDocs \/ SetUpSeeds \/ Reseed \/ Triage \/ Triaged \/ BugClean

CleanNext ==
    \/ \E pc \in Cleaning : StartClean(pc)
    \/ \E t \in Trees : CleanHarness(t)
    \/ \E v \in Versions : CleanSource(v) \/ \E t \in Trees : CleanTree(v, t)
    \/ \E b \in Bugs : CleanNextBug(b)
    \/ CleanEnds

Next == DownloadNext \/ BuildNext \/ BugNext \/ CleanNext \/ Interrupt

Spec == Init /\ [][Next]_vars

-----------------------------------------------------------------------------
(***************************************************************************)
(* Properties.                                                             *)
(***************************************************************************)
Pcs == {"idle"} \union DownloadPcs \union Rest
Jobs == [pc : Pcs, v : Versions \union {None}, d : Deps \union {None}, b : Bugs \union {None},
         then : {"idle", "downloaded", "configure"}]

TypeOK ==
    /\ DownloadsTypeOK
    /\ job \in Jobs
    /\ configured \subseteq Versions
    /\ trees \in [Versions -> [Trees -> TreeAmounts]]
    /\ undone \subseteq Versions \X Trees
    /\ harness \in [Trees -> Binaries]
    /\ docs \in [Bugs -> BugAmounts]
    /\ seeds \in [Bugs -> BugAmounts]
    /\ ready \subseteq Bugs /\ robbed \subseteq Bugs

\* The libraries of a tree are there, unless they are being built or removed.
TreeThere(v, t) == trees[v][t] = "built" \/ <<v, t>> \in undone

\* A harness binary has the tree whose libraries it was linked to.  Cleaning
\* takes binaries first (method_dispatcher.py:881-900, in the order of the
\* sorted names), wherever it is cut short.  A rebuild takes the tree from
\* under the binary and brings it back, unless it fails or is cut short in
\* between (build_tree.py:39-80): then the binary stays without.  So does the
\* rebuild in place for an introspection (introspector_manager.py:151-164).
HarnessHasTree ==
    \A t \in Trees : harness[t] # NoBinary => TreeThere(harness[t].v, t)

BugBinary(b) == [v |-> BugVersion[b], h |-> BugHarness[b]]

DocsKept(b) == docs[b] \in {"all", "torn"} \/ b \in robbed

\* A bug that was set up can be reproduced, until a link replaces or loses one
\* of its binaries or it is cleaned: its source, both binaries of its version
\* and its harness, their trees, its files and its seeds are there
\* (bug_manager.py:137-303).  But a rebuild that is cut short takes its trees,
\* the cleaning of another bug its files, and what an interruption tore is
\* taken for done.
ReadyReproduces ==
    \A b \in ready :
        /\ source[BugVersion[b]] # "none"
        /\ \A t \in Trees : /\ harness[t] = BugBinary(b)
                           /\ TreeThere(BugVersion[b], t)
        /\ seeds[b] \in {"all", "torn"}
        /\ DocsKept(b)

-----------------------------------------------------------------------------
(***************************************************************************)
(* The inductive invariant: what the steps of a command establish for the  *)
(* next ones, and the properties.                                          *)
(***************************************************************************)
PartialIsTorn == \A v \in Versions : source[v] = "partial" => v \in torn

\* The version a command works on is there from its download on.
DownloadInv ==
    /\ job.pc \in DownloadPcs => job.v \in Versions /\ job.then \in {"downloaded", "configure"}
    /\ job.pc \in {"deps", "unpack", "rename", "downloaded"} => source[job.v] # "none"
    /\ job.pc \in {"unpack", "rename"} => job.d \in Deps
    /\ job.pc \in DownloadPcs /\ job.then = "configure" => job.b \in Bugs /\ job.v = BugVersion[job.b]

SetUpPcs == {"configure", "make lf", "link lf", "make cov", "link cov", "docs", "seeds"}

\* A command that builds has a version whose source is there, and a tree when
\* it comes to link; a setup keeps the version of its bug, and what it has
\* made of it so far.
SetUpInv ==
    /\ job.pc \in SetUpPcs =>
          /\ job.v \in Versions /\ source[job.v] # "none"
          /\ \/ job.b \in Bugs /\ job.v = BugVersion[job.b]
             \/ job.b = None /\ job.pc \in {"make lf", "link lf", "make cov", "link cov"}
    /\ job.pc \in {"reseed", "bug clean"} => job.b \in Bugs
    /\ \A t \in Trees : job.pc = LinkPc[t] => trees[job.v][t] # "none"
    /\ job.pc \in {"make cov", "link cov", "docs", "seeds"} /\ job.b # None =>
          harness["lf"] = BugBinary(job.b)
    /\ job.pc \in {"docs", "seeds"} => harness["cov"] = BugBinary(job.b)
    /\ job.pc = "seeds" => DocsKept(job.b)

\* What is there of a tree in part was cut short.
PartsAreUndone == \A v \in Versions, t \in Trees : trees[v][t] \in {"unhashed", "torn"} => <<v, t>> \in undone

SourceInv == PartialIsTorn /\ LibrariesAreWhole
TreeInv == PartsAreUndone /\ HarnessHasTree
DiskInv == SourceInv /\ TreeInv /\ ReadyReproduces
JobInv == DownloadIsComplete /\ DownloadInv /\ SetUpInv

IInv == TypeOK /\ DiskInv /\ JobInv
=============================================================================
