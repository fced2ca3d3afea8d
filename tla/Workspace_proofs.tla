--------------------------- MODULE Workspace_proofs ---------------------------
(***************************************************************************)
(* Proofs about Workspace, for any versions, bugs and number of failures.  *)
(***************************************************************************)
EXTENDS Workspace, TLAPS

diskVars == <<sourceVars, treeVars, bugVars, history>>

\* Pcs at which the invariant says nothing of the command.
Quiet == {"idle", "find", "triage"} \union Cleaning

LEMMA IdleType == Idle \in Jobs /\ Idle.pc = "idle"
BY DEF Idle, Jobs, Pcs

\* A command that goes on changes only its pc.
LEMMA GotoType ==
  ASSUME job \in Jobs, NEW pc \in Pcs, Goto(pc)
  PROVE  /\ job' \in Jobs /\ job'.pc = pc
         /\ job'.v = job.v /\ job'.d = job.d /\ job'.b = job.b /\ job'.then = job.then
BY DEF Jobs, Goto

LEMMA TreePcs ==
  /\ MakePc["lf"] = "make lf" /\ MakePc["cov"] = "make cov"
  /\ LinkPc["lf"] = "link lf" /\ LinkPc["cov"] = "link cov"
  /\ \A t \in Trees : t \in {"lf", "cov"} /\ MakePc[t] \in SetUpPcs /\ LinkPc[t] \in SetUpPcs
BY DEF Trees, MakePc, LinkPc, SetUpPcs

LEMMA QuietJob ==
  ASSUME job'.pc \in Quiet
  PROVE  JobInv'
<1>1. job'.pc \notin DownloadPcs \union SetUpPcs \union {"reseed", "bug clean"}
  BY DEF Quiet, Cleaning, DownloadPcs, SetUpPcs
<1>2. DownloadIsComplete' /\ DownloadInv'
  BY <1>1 DEF DownloadIsComplete, DownloadInv, DownloadPcs
<1>3. SetUpInv'
  <2>1. \A t \in Trees : job'.pc # LinkPc[t]
    BY <1>1, TreePcs
  <2>2. QED
    BY <1>1, <2>1 DEF SetUpInv, SetUpPcs
<1>4. QED
  BY <1>2, <1>3 DEF JobInv

\* A step that ends its command, or changes only what a command does next.
LEMMA IdleJob ==
  ASSUME job' = Idle
  PROVE  JobInv' /\ job' \in Jobs
BY IdleType, QuietJob DEF Quiet

LEMMA SourceKept ==
  ASSUME SourceInv, UNCHANGED sourceVars
  PROVE  SourceInv'
BY DEF SourceInv, PartialIsTorn, LibrariesAreWhole, sourceVars

LEMMA TreesKept ==
  ASSUME TreeInv, UNCHANGED <<trees, undone, harness>>
  PROVE  TreeInv'
BY DEF TreeInv, PartsAreUndone, HarnessHasTree, TreeThere

\* The binaries of a bug are binaries of its version.
LEMMA BugIsBinary ==
  ASSUME NEW b \in Bugs
  PROVE  BugBinary(b) \in Binaries /\ BugBinary(b) # NoBinary /\ BugBinary(b).v = BugVersion[b]
<1>1. BugVersion[b] \in Versions /\ BugHarness[b] \in Harnesses
  BY BugAssumption
<1>2. BugVersion[b] # None /\ BugBinary(b).v = BugVersion[b] /\ NoBinary.v = None
  BY <1>1, NoneAssumption DEF BugBinary, NoBinary
<1>3. QED
  BY <1>1, <1>2 DEF BugBinary, Binaries

\* A bug stays ready when no source is removed and the rest is left alone.
LEMMA ReadyKept ==
  ASSUME ReadyReproduces, ready \subseteq Bugs,
         \A v \in Versions : source[v] # "none" => source'[v] # "none",
         UNCHANGED <<trees, undone, harness, docs, seeds, ready, robbed>>
  PROVE  ReadyReproduces'
<1>1. \A b \in ready : BugVersion[b] \in Versions
  BY BugAssumption
<1>2. QED
  BY <1>1 DEF ReadyReproduces, TreeThere, DocsKept, BugBinary

LEMMA DiskKept ==
  ASSUME DiskInv, UNCHANGED diskVars, ready \subseteq Bugs
  PROVE  DiskInv'
<1>1. UNCHANGED <<sourceVars, source, trees, undone, harness, docs, seeds, ready, robbed>>
  BY DEF diskVars, sourceVars, treeVars, bugVars, history
<1>2. QED
  BY <1>1, SourceKept, TreesKept, ReadyKept DEF DiskInv

LEMMA TypeKept ==
  ASSUME TypeOK, UNCHANGED diskVars, job' \in Jobs, failures' \in 0 .. MaxFailures
  PROVE  TypeOK'
BY DEF TypeOK, DownloadsTypeOK, diskVars, sourceVars, treeVars, bugVars, history

\* What a step that leaves the disk alone has to show.
LEMMA JobStep ==
  ASSUME IInv, UNCHANGED <<diskVars, failures>>, job' \in Jobs, JobInv'
  PROVE  IInv'
<1>1. failures' \in 0 .. MaxFailures
  BY DEF IInv, TypeOK, DownloadsTypeOK
<1>2. QED
  BY <1>1, DiskKept, TypeKept DEF IInv, TypeOK

-----------------------------------------------------------------------------
(***************************************************************************)
(* Downloads.                                                              *)
(***************************************************************************)

\* A library that is not missing is whole, but in a torn directory; so a
\* version with all of them is complete, or torn.
LEMMA NoneMissing ==
  ASSUME TypeOK, DiskInv, NEW v \in Versions, source[v] # "none", Missing(v) = {}
  PROVE  Complete(v) \/ v \in torn
BY DEF TypeOK, DownloadsTypeOK, DiskInv, SourceInv, PartialIsTorn, LibrariesAreWhole, Missing,
       Complete, Amounts

LEMMA FirstMissingType ==
  ASSUME NEW v \in Versions
  PROVE  FirstMissing(v) \in Deps
BY DEF FirstMissing, Deps

\* The job of a download that goes on.
LEMMA DownloadGoto ==
  ASSUME IInv, NEW pc \in DownloadPcs \ {"unpack", "rename", "downloaded"}, Goto(pc),
         job.pc \in DownloadPcs, UNCHANGED <<source, dep, torn>>,
         pc = "deps" => source[job.v] # "none"
  PROVE  JobInv' /\ job' \in Jobs
<1>1. pc \in Pcs /\ pc \notin SetUpPcs \union {"reseed", "bug clean", "downloaded"}
  BY DEF Pcs, DownloadPcs, SetUpPcs
<1>2. /\ job' \in Jobs /\ job'.pc = pc
      /\ job'.v = job.v /\ job'.d = job.d /\ job'.b = job.b /\ job'.then = job.then
  BY <1>1, GotoType DEF IInv, TypeOK
<1>3. DownloadIsComplete'
  BY <1>1, <1>2 DEF DownloadIsComplete
<1>4. DownloadInv'
  BY <1>1, <1>2 DEF IInv, JobInv, DownloadInv
<1>5. SetUpInv'
  BY <1>1, <1>2, TreePcs DEF SetUpInv, SetUpPcs
<1>6. QED
  BY <1>2, <1>3, <1>4, <1>5 DEF JobInv

\* A download that has nothing left to fetch.
LEMMA DownloadDone ==
  ASSUME IInv, Goto(job.then), job.pc \in {"look", "deps"}, UNCHANGED <<source, dep, torn>>,
         source[job.v] # "none", Missing(job.v) = {}
  PROVE  JobInv' /\ job' \in Jobs
<1>1. job.v \in Versions /\ job.then \in {"downloaded", "configure"}
  BY DEF IInv, JobInv, DownloadInv, DownloadPcs
<1>2. job.then \in Pcs
  BY <1>1 DEF Pcs, DownloadPcs, Rest
<1>3. /\ job' \in Jobs /\ job'.pc = job.then
      /\ job'.v = job.v /\ job'.d = job.d /\ job'.b = job.b /\ job'.then = job.then
  BY <1>2, GotoType DEF IInv, TypeOK
<1>4. Complete(job.v) \/ job.v \in torn
  BY <1>1, NoneMissing DEF IInv
<1>5. DownloadIsComplete'
  BY <1>3, <1>4 DEF DownloadIsComplete, Complete
<1>6. DownloadInv'
  BY <1>1, <1>3 DEF IInv, JobInv, DownloadInv, DownloadPcs
<1>7. SetUpInv'
  <2>1. job.then = "configure" => job.b \in Bugs /\ job.v = BugVersion[job.b]
    BY DEF IInv, JobInv, DownloadInv, DownloadPcs
  <2>2. \A t \in Trees : job'.pc # LinkPc[t]
    BY <1>1, <1>3, TreePcs
  <2>3. QED
    BY <1>1, <1>3, <2>1, <2>2 DEF SetUpInv, SetUpPcs
<1>8. QED
  BY <1>3, <1>5, <1>6, <1>7 DEF JobInv

LEMMA StartDownloadKeeps ==
  ASSUME IInv, NEW v \in Versions, StartDownload(v), UNCHANGED <<treeVars, bugVars, history>>
  PROVE  IInv'
<1>1. job' = [Idle EXCEPT !.pc = "look", !.v = v, !.then = "downloaded"]
      /\ UNCHANGED <<diskVars, failures>>
  BY DEF StartDownload, diskVars
<1>2. job' \in Jobs /\ job'.pc = "look" /\ job'.v = v /\ job'.then = "downloaded"
  BY <1>1 DEF Idle, Jobs, Pcs, DownloadPcs
<1>3. DownloadIsComplete' /\ DownloadInv'
  BY <1>2 DEF DownloadIsComplete, DownloadInv
<1>4. SetUpInv'
  BY <1>2, TreePcs DEF SetUpInv, SetUpPcs
<1>5. QED
  BY <1>1, <1>2, <1>3, <1>4, JobStep DEF JobInv

LEMMA LookKeeps ==
  ASSUME IInv, Look, UNCHANGED <<failures, treeVars, bugVars, history>>
  PROVE  IInv'
<1>1. UNCHANGED <<diskVars, failures>> /\ UNCHANGED <<source, dep, torn>> /\ job.pc = "look"
  BY DEF Look, diskVars, sourceVars
<1>2. CASE source[job.v] = "none"
  BY <1>1, <1>2, DownloadGoto, JobStep DEF Look, AfterLook, DownloadPcs
<1>3. CASE source[job.v] # "none" /\ Missing(job.v) # {}
  BY <1>1, <1>3, DownloadGoto, JobStep DEF Look, AfterLook, DownloadPcs
<1>4. CASE source[job.v] # "none" /\ Missing(job.v) = {}
  BY <1>1, <1>4, DownloadDone, JobStep DEF Look, AfterLook
<1>5. QED
  BY <1>2, <1>3, <1>4

LEMMA ExtractKeeps ==
  ASSUME IInv, Extract, UNCHANGED <<failures, treeVars, bugVars, history>>
  PROVE  IInv'
<1>1. job.pc = "extract" /\ job.v \in Versions /\ job.then \in {"downloaded", "configure"}
  BY DEF Extract, IInv, JobInv, DownloadInv, DownloadPcs
<1>2. source' = [source EXCEPT ![job.v] = "whole"] /\ source \in [Versions -> Amounts]
  BY DEF Extract, IInv, TypeOK, DownloadsTypeOK
<1>3. /\ job' \in Jobs /\ job'.pc = "deps"
      /\ job'.v = job.v /\ job'.d = job.d /\ job'.b = job.b /\ job'.then = job.then
  BY GotoType DEF IInv, TypeOK, Extract, Pcs, DownloadPcs
<1>4. TypeOK'
  BY <1>2, <1>3 DEF IInv, TypeOK, DownloadsTypeOK, Extract, Amounts, treeVars, bugVars, history
<1>5. DiskInv'
  <2>1. SourceInv'
    BY <1>1, <1>2 DEF IInv, DiskInv, SourceInv, PartialIsTorn, LibrariesAreWhole, Extract
  <2>2. /\ UNCHANGED <<trees, undone, harness, docs, seeds, ready, robbed>>
        /\ \A v \in Versions : source[v] # "none" => source'[v] # "none"
    BY <1>1, <1>2 DEF treeVars, bugVars, history
  <2>3. QED
    BY <2>1, <2>2, TreesKept, ReadyKept DEF IInv, TypeOK, DiskInv
<1>6. DownloadIsComplete' /\ DownloadInv'
  BY <1>1, <1>2, <1>3 DEF DownloadIsComplete, DownloadInv, IInv, JobInv, DownloadPcs
<1>7. SetUpInv'
  BY <1>3, TreePcs DEF SetUpInv, SetUpPcs
<1>8. QED
  BY <1>4, <1>5, <1>6, <1>7 DEF IInv, JobInv

LEMMA NextDepKeeps ==
  ASSUME IInv, NextDep, UNCHANGED <<failures, treeVars, bugVars, history>>
  PROVE  IInv'
<1>1. /\ UNCHANGED <<diskVars, failures>> /\ UNCHANGED <<source, dep, torn>>
      /\ job.pc = "deps" /\ job.v \in Versions /\ source[job.v] # "none"
  BY DEF NextDep, diskVars, sourceVars, IInv, JobInv, DownloadInv, DownloadPcs
<1>2. CASE Missing(job.v) = {}
  BY <1>1, <1>2, DownloadDone, JobStep DEF NextDep
<1>3. CASE Missing(job.v) # {}
  <2> DEFINE d == FirstMissing(job.v)
  <2>1. d \in Deps
    BY <1>1, FirstMissingType
  <2>2. job' = [job EXCEPT !.pc = "unpack", !.d = d]
    BY <1>3 DEF NextDep
  <2> HIDE DEF d
  <2>3. /\ job' \in Jobs /\ job'.pc = "unpack" /\ job'.d = d
        /\ job'.v = job.v /\ job'.b = job.b /\ job'.then = job.then
    BY <2>1, <2>2 DEF IInv, TypeOK, Jobs, Pcs, DownloadPcs
  <2>4. DownloadIsComplete' /\ DownloadInv'
    BY <1>1, <2>1, <2>3 DEF DownloadIsComplete, DownloadInv, IInv, JobInv, DownloadPcs
  <2>5. SetUpInv'
    BY <2>3, TreePcs DEF SetUpInv, SetUpPcs
  <2>6. QED
    BY <1>1, <2>3, <2>4, <2>5, JobStep DEF JobInv
<1>4. QED
  BY <1>2, <1>3

LEMMA UnpackKeeps ==
  ASSUME IInv, Unpack, UNCHANGED <<failures, treeVars, bugVars, history>>
  PROVE  IInv'
<1>1. /\ UNCHANGED <<diskVars, failures>> /\ UNCHANGED <<source, dep, torn>>
      /\ job.pc = "unpack"
  BY DEF Unpack, diskVars, sourceVars
<1>2. /\ job' \in Jobs /\ job'.pc = "rename"
      /\ job'.v = job.v /\ job'.d = job.d /\ job'.b = job.b /\ job'.then = job.then
  BY GotoType DEF IInv, TypeOK, Unpack, Pcs, DownloadPcs
<1>3. DownloadIsComplete' /\ DownloadInv'
  BY <1>1, <1>2 DEF DownloadIsComplete, DownloadInv, IInv, JobInv, DownloadPcs
<1>4. SetUpInv'
  BY <1>2, TreePcs DEF SetUpInv, SetUpPcs
<1>5. QED
  BY <1>1, <1>2, <1>3, <1>4, JobStep DEF JobInv

LEMMA RenameKeeps ==
  ASSUME IInv, Rename, UNCHANGED <<failures, treeVars, bugVars, history>>
  PROVE  IInv'
<1>1. job.pc = "rename" /\ job.v \in Versions /\ job.d \in Deps /\ source[job.v] # "none"
  BY DEF Rename, IInv, JobInv, DownloadInv, DownloadPcs
<1>2. dep' = [dep EXCEPT ![job.v][job.d] = "whole"] /\ dep \in [Versions -> [Deps -> Amounts]]
  BY DEF Rename, IInv, TypeOK, DownloadsTypeOK
<1>3. /\ job' \in Jobs /\ job'.pc = "deps"
      /\ job'.v = job.v /\ job'.d = job.d /\ job'.b = job.b /\ job'.then = job.then
  BY GotoType DEF IInv, TypeOK, Rename, Pcs, DownloadPcs
<1>4. dep' \in [Versions -> [Deps -> Amounts]]
  BY <1>1, <1>2 DEF Amounts
<1>5. TypeOK'
  BY <1>3, <1>4 DEF IInv, TypeOK, DownloadsTypeOK, Rename, treeVars, bugVars, history
<1>6. DiskInv'
  <2>1. SourceInv'
    BY <1>1, <1>2 DEF IInv, DiskInv, SourceInv, PartialIsTorn, LibrariesAreWhole, Rename
  <2>2. UNCHANGED <<source, trees, undone, harness, docs, seeds, ready, robbed>>
    BY DEF Rename, treeVars, bugVars, history
  <2>3. QED
    BY <2>1, <2>2, TreesKept, ReadyKept DEF IInv, TypeOK, DiskInv
<1>7. DownloadIsComplete' /\ DownloadInv'
  BY <1>1, <1>3 DEF DownloadIsComplete, DownloadInv, IInv, JobInv, DownloadPcs, Rename
<1>8. SetUpInv'
  BY <1>3, TreePcs DEF SetUpInv, SetUpPcs
<1>9. QED
  BY <1>5, <1>6, <1>7, <1>8 DEF IInv, JobInv

LEMMA DownloadedKeeps ==
  ASSUME IInv, Downloaded, UNCHANGED <<failures, treeVars, bugVars, history>>
  PROVE  IInv'
BY IdleJob, JobStep DEF Downloaded, diskVars

\* An extraction is cut short in a version that was not there, so that no bug
\* of it was ready.
LEMMA InterruptDownloadKeeps ==
  ASSUME IInv, InterruptDownload, UNCHANGED <<treeVars, bugVars, history>>
  PROVE  IInv'
<1>1. job' = Idle /\ job' \in Jobs /\ JobInv' /\ failures' \in 0 .. MaxFailures
  BY MaxFailuresAssumption, IdleJob DEF InterruptDownload, Fail, IInv, TypeOK, DownloadsTypeOK
<1>2. CASE UNCHANGED sourceVars
  BY <1>1, <1>2, DiskKept, TypeKept DEF IInv, TypeOK, diskVars
<1>3. CASE /\ job.pc = "extract" /\ source' = [source EXCEPT ![job.v] = "partial"]
           /\ torn' = torn \union {job.v} /\ UNCHANGED dep
  <2>1. job.v \in Versions
    BY <1>3 DEF IInv, JobInv, DownloadInv, DownloadPcs
  <2>2. TypeOK'
    BY <1>1, <1>3, <2>1 DEF IInv, TypeOK, DownloadsTypeOK, Amounts, treeVars, bugVars, history
  <2>3. DiskInv'
    <3>1. SourceInv'
      BY <1>3, <2>1 DEF IInv, TypeOK, DownloadsTypeOK, DiskInv, SourceInv, PartialIsTorn,
         LibrariesAreWhole
    <3>2. /\ UNCHANGED <<trees, undone, harness, docs, seeds, ready, robbed>>
          /\ \A v \in Versions : source[v] # "none" => source'[v] # "none"
      BY <1>3, <2>1 DEF IInv, TypeOK, DownloadsTypeOK, treeVars, bugVars, history
    <3>3. QED
      BY <3>1, <3>2, TreesKept, ReadyKept DEF IInv, TypeOK, DiskInv
  <2>4. QED
    BY <1>1, <2>2, <2>3 DEF IInv
<1>4. QED
  BY <1>2, <1>3 DEF InterruptDownload

-----------------------------------------------------------------------------
(***************************************************************************)
(* Building.                                                               *)
(***************************************************************************)
LEMMA ActiveType == Active \in Versions \union {None}
BY DefaultAssumption DEF Active

LEMMA ConfigureKeeps ==
  ASSUME IInv, Configure
  PROVE  IInv'
<1>1. TypeOK'
  BY ActiveType DEF IInv, TypeOK, DownloadsTypeOK, Configure, sourceVars, bugVars, history
<1>2. DiskInv'
  <2>1. UNCHANGED <<sourceVars, source, trees, undone, harness, docs, seeds, ready, robbed>>
    BY DEF Configure, sourceVars, bugVars, history
  <2>2. QED
    BY <2>1, SourceKept, TreesKept, ReadyKept DEF IInv, TypeOK, DiskInv
<1>3. JobInv'
  BY QuietJob DEF Configure, Quiet
<1>4. QED
  BY <1>1, <1>2, <1>3 DEF IInv

LEMMA SourceOfActive == Active # None => Active \in Versions /\ source[Active] # "none"
<1>1. \A v \in Versions : Present = {v} => source[v] # "none"
  BY DEF Present
<1>2. QED
  BY <1>1, DefaultAssumption DEF Active

\* A command that builds on its own.
LEMMA StartBuildKeeps ==
  ASSUME IInv, NEW t \in Trees, StartMake(t) \/ StartLink(t)
  PROVE  IInv'
<1> DEFINE pc == job'.pc
<1>1. /\ UNCHANGED <<diskVars, failures>> /\ UNCHANGED <<source, trees, harness>>
      /\ Active \in Versions /\ source[Active] # "none"
      /\ \/ job' = [Idle EXCEPT !.pc = MakePc[t], !.v = Active]
         \/ job' = [Idle EXCEPT !.pc = LinkPc[t], !.v = Active] /\ trees[Active][t] # "none"
  BY SourceOfActive DEF StartMake, StartLink, diskVars, sourceVars, treeVars
<1> HIDE DEF Active
<1>2. /\ job' \in Jobs /\ job'.v = Active /\ job'.b = None
      /\ \/ job'.pc = MakePc[t]
         \/ job'.pc = LinkPc[t] /\ trees[Active][t] # "none"
  <2>1. MakePc[t] \in Pcs /\ LinkPc[t] \in Pcs
    BY TreePcs DEF Pcs, Rest
  <2>2. job' = [Idle EXCEPT !.pc = job'.pc, !.v = Active] /\ job'.pc \in Pcs
    BY <1>1, <2>1 DEF Idle
  <2>3. job' \in Jobs /\ job'.v = Active /\ job'.b = None
    <3>1. job' = [pc |-> job'.pc, v |-> Active, d |-> None, b |-> None, then |-> "idle"]
      BY <1>1 DEF Idle
    <3>2. QED
      BY <1>1, <2>2, <3>1 DEF Jobs
  <2>4. QED
    BY <1>1, <2>3 DEF Idle
<1>3. /\ job'.pc \in {"make lf", "link lf", "make cov", "link cov"}
      /\ \A u \in Trees : job'.pc = LinkPc[u] => trees[Active][u] # "none"
  <2>1. MakePc[t] \in {"make lf", "make cov"} /\ LinkPc[t] \in {"link lf", "link cov"}
    BY TreePcs
  <2>2. \A u \in Trees : MakePc[t] # LinkPc[u] /\ (LinkPc[t] = LinkPc[u] => t = u)
    BY TreePcs
  <2>3. QED
    BY <1>2, <2>1, <2>2
<1>4. DownloadIsComplete' /\ DownloadInv'
  BY <1>3 DEF DownloadIsComplete, DownloadInv, DownloadPcs
<1>5. SetUpInv'
  BY <1>1, <1>2, <1>3 DEF SetUpInv, SetUpPcs
<1>6. QED
  BY <1>1, <1>2, <1>4, <1>5, JobStep DEF JobInv

\* What a step of a build or a setup finds.
LEMMA BuildsWhere ==
  ASSUME IInv, job.pc \in SetUpPcs
  PROVE  job.v \in Versions /\ source[job.v] # "none"
BY DEF IInv, JobInv, SetUpInv

\* A setup that goes on: what is left is what it has made so far.
LEMMA SetUpGoto ==
  ASSUME IInv, job.pc \in SetUpPcs, NEW pc \in SetUpPcs, Goto(pc), UNCHANGED source,
         job.b # None, \A t \in Trees : pc = LinkPc[t] => trees'[job.v][t] # "none",
         pc \in {"make cov", "link cov", "docs", "seeds"} => harness'["lf"] = BugBinary(job.b),
         pc \in {"docs", "seeds"} => harness'["cov"] = BugBinary(job.b),
         pc = "seeds" => docs'[job.b] \in {"all", "torn"} \/ job.b \in robbed'
  PROVE  JobInv' /\ job' \in Jobs
<1>1. pc \in Pcs /\ pc \notin DownloadPcs \union {"reseed", "bug clean"}
  BY DEF Pcs, SetUpPcs, DownloadPcs, Rest
<1>2. /\ job' \in Jobs /\ job'.pc = pc
      /\ job'.v = job.v /\ job'.d = job.d /\ job'.b = job.b /\ job'.then = job.then
  BY <1>1, GotoType DEF IInv, TypeOK
<1>3. DownloadIsComplete' /\ DownloadInv'
  BY <1>1, <1>2 DEF DownloadIsComplete, DownloadInv, DownloadPcs
<1>4. SetUpInv'
  <2>1. job.b \in Bugs /\ job.v = BugVersion[job.b] /\ source[job.v] # "none" /\ job.v \in Versions
    BY DEF IInv, JobInv, SetUpInv
  <2>2. QED
    BY <1>1, <1>2, <2>1 DEF SetUpInv, DocsKept, BugBinary
<1>5. QED
  BY <1>2, <1>3, <1>4 DEF JobInv

\* The end of a step of a build, which a setup goes on from.
LEMMA ThenSetUpKeeps ==
  ASSUME IInv, job.pc \in SetUpPcs, NEW pc \in SetUpPcs, ThenSetUp(pc), UNCHANGED source,
         \A t \in Trees : pc = LinkPc[t] => trees'[job.v][t] # "none", pc # "seeds",
         job.b # None /\ pc \in {"make cov", "link cov", "docs"} => harness'["lf"] = BugBinary(job.b),
         job.b # None /\ pc = "docs" => harness'["cov"] = BugBinary(job.b)
  PROVE  JobInv' /\ job' \in Jobs
<1>1. CASE job.b = None
  BY <1>1, IdleJob DEF ThenSetUp
<1>2. CASE job.b # None
  BY <1>2, SetUpGoto DEF ThenSetUp
<1>3. QED
  BY <1>1, <1>2

\* A tree that is taken away or made, and marked for it, keeps the disk.
LEMMA TreeChanged ==
  ASSUME IInv, NEW v \in Versions, NEW t \in Trees, NEW amount \in TreeAmounts,
         trees' = [trees EXCEPT ![v][t] = amount],
         \/ undone' = undone \union {<<v, t>>}
         \/ undone' = undone \ {<<v, t>>} /\ amount = "built",
         UNCHANGED <<sourceVars, harness, bugVars, history>>
  PROVE  /\ DiskInv' /\ trees' \in [Versions -> [Trees -> TreeAmounts]]
         /\ undone' \subseteq Versions \X Trees /\ trees'[v][t] = amount
         /\ \A w \in Versions, u \in Trees : <<w, u>> # <<v, t>> => trees'[w][u] = trees[w][u]
<1>1. trees \in [Versions -> [Trees -> TreeAmounts]] /\ undone \subseteq Versions \X Trees
  BY DEF IInv, TypeOK
<1>2. /\ trees' \in [Versions -> [Trees -> TreeAmounts]] /\ undone' \subseteq Versions \X Trees
      /\ trees'[v][t] = amount
      /\ \A w \in Versions, u \in Trees : <<w, u>> # <<v, t>> => trees'[w][u] = trees[w][u]
  BY <1>1
<1>3. \A w \in Versions, u \in Trees : <<w, u>> # <<v, t>> =>
        (<<w, u>> \in undone <=> <<w, u>> \in undone')
  OBVIOUS
<1>4. trees'[v][t] = "built" \/ <<v, t>> \in undone'
  BY <1>2
<1>5. \A w \in Versions, u \in Trees : TreeThere(w, u) => TreeThere(w, u)'
  BY <1>2, <1>3, <1>4 DEF TreeThere
<1>6. PartsAreUndone'
  BY <1>2, <1>3, <1>4 DEF IInv, DiskInv, TreeInv, PartsAreUndone
<1>7. HarnessHasTree'
  BY <1>5 DEF IInv, TypeOK, DiskInv, TreeInv, HarnessHasTree, Binaries
<1>8. ReadyReproduces'
  <2>1. ready \subseteq Bugs /\ \A b \in ready : BugVersion[b] \in Versions
    BY BugAssumption DEF IInv, TypeOK
  <2>2. QED
    BY <1>5, <2>1 DEF IInv, DiskInv, ReadyReproduces, DocsKept, sourceVars, bugVars, history
<1>9. QED
  BY <1>2, <1>6, <1>7, <1>8, SourceKept DEF IInv, DiskInv, TreeInv

LEMMA RemoveTreeKeeps ==
  ASSUME IInv, NEW t \in Trees, RemoveTree(t)
  PROVE  IInv'
<1>1. job.pc = MakePc[t] /\ job.v \in Versions /\ UNCHANGED <<source, job, harness, docs, robbed>>
  BY TreePcs, BuildsWhere DEF RemoveTree, sourceVars, bugVars, history
<1>2. DiskInv' /\ trees' \in [Versions -> [Trees -> TreeAmounts]] /\ undone' \subseteq Versions \X Trees
  BY <1>1, TreeChanged DEF RemoveTree, TreeAmounts
<1>3. \A u \in Trees : job.pc # LinkPc[u]
  BY <1>1, TreePcs DEF Trees
<1>4. JobInv'
  <2>1. DownloadIsComplete' /\ DownloadInv'
    BY <1>1, TreePcs DEF IInv, JobInv, DownloadIsComplete, DownloadInv, DownloadPcs, Trees
  <2>2. SetUpInv'
    BY <1>1, <1>3 DEF IInv, JobInv, SetUpInv, DocsKept
  <2>3. QED
    BY <2>1, <2>2 DEF JobInv
<1>5. TypeOK'
  BY <1>2 DEF IInv, TypeOK, DownloadsTypeOK, RemoveTree, sourceVars, bugVars, history
<1>6. QED
  BY <1>2, <1>4, <1>5 DEF IInv

\* When the tree is there, a setup goes on to link.
LEMMA TreeMade ==
  ASSUME IInv, NEW t \in Trees, job.pc = MakePc[t], ThenSetUp(LinkPc[t]),
         UNCHANGED <<source, harness>>, trees'[job.v][t] # "none"
  PROVE  JobInv' /\ job' \in Jobs
<1>1. /\ LinkPc[t] \in SetUpPcs \ {"make cov", "docs", "seeds"} /\ job.pc \in SetUpPcs
      /\ LinkPc[t] = "link cov" => job.pc = "make cov"
      /\ \A u \in Trees : LinkPc[t] = LinkPc[u] => t = u
  BY TreePcs DEF SetUpPcs
<1>2. \A u \in Trees : LinkPc[t] = LinkPc[u] => trees'[job.v][u] # "none"
  BY <1>1
<1>3. job.b # None /\ LinkPc[t] = "link cov" => harness'["lf"] = BugBinary(job.b)
  BY <1>1 DEF IInv, JobInv, SetUpInv
<1>4. QED
  BY <1>1, <1>2, <1>3, ThenSetUpKeeps

LEMMA BuildTreeKeeps ==
  ASSUME IInv, NEW t \in Trees, BuildTree(t)
  PROVE  IInv'
<1>1. job.pc = MakePc[t] /\ job.v \in Versions /\ UNCHANGED <<source, harness>>
  BY TreePcs, BuildsWhere DEF BuildTree, sourceVars
<1>2. /\ DiskInv' /\ trees' \in [Versions -> [Trees -> TreeAmounts]] /\ trees'[job.v][t] = "built"
      /\ undone' \subseteq Versions \X Trees
  BY <1>1, TreeChanged DEF BuildTree, TreeAmounts
<1>3. JobInv' /\ job' \in Jobs
  BY <1>1, <1>2, TreeMade DEF BuildTree
<1>4. TypeOK'
  BY <1>2, <1>3 DEF IInv, TypeOK, DownloadsTypeOK, BuildTree, sourceVars, bugVars, history
<1>5. QED
  BY <1>2, <1>3, <1>4 DEF IInv

LEMMA KeepTreeKeeps ==
  ASSUME IInv, NEW t \in Trees, KeepTree(t)
  PROVE  IInv'
<1>1. /\ job.pc = MakePc[t] /\ trees'[job.v][t] # "none" /\ UNCHANGED <<source, harness>>
      /\ UNCHANGED <<diskVars, failures>>
  BY DEF KeepTree, sourceVars, treeVars, diskVars
<1>2. QED
  BY <1>1, TreeMade, JobStep DEF KeepTree

\* An introspection rebuilds a coverage tree in place, or begins to.
LEMMA IntrospectKeeps ==
  ASSUME IInv, Introspect \/ IntrospectFails
  PROVE  IInv'
<1>1. /\ Active \in Versions /\ "cov" \in Trees /\ "built" \in TreeAmounts /\ "torn" \in TreeAmounts
      /\ job.pc = "idle" /\ UNCHANGED <<job, sourceVars, configured, harness, bugVars, history>>
  BY SourceOfActive DEF Introspect, IntrospectFails, Trees, TreeAmounts
<1>2. DiskInv' /\ trees' \in [Versions -> [Trees -> TreeAmounts]] /\ undone' \subseteq Versions \X Trees
  BY <1>1, TreeChanged DEF Introspect, IntrospectFails
<1>3. job' \in Jobs /\ job'.pc = "idle"
  BY <1>1 DEF IInv, TypeOK
<1>4. JobInv'
  BY <1>3, QuietJob DEF Quiet
<1>5. failures' \in 0..MaxFailures
  BY MaxFailuresAssumption DEF IInv, TypeOK, DownloadsTypeOK, Introspect, IntrospectFails
<1>6. TypeOK'
  BY <1>1, <1>2, <1>3, <1>5 DEF IInv, TypeOK, DownloadsTypeOK, sourceVars, bugVars, history
<1>7. QED
  BY <1>2, <1>4, <1>6 DEF IInv

\* A binary that is replaced or lost leaves no bug ready.
LEMMA LinkToKeeps ==
  ASSUME IInv, NEW t \in Trees, NEW binary \in Binaries, LinkTo(t, binary),
         binary # NoBinary => trees[binary.v][t] # "none",
         UNCHANGED <<sourceVars, trees, undone>>
  PROVE  /\ DiskInv' /\ harness' \in [Trees -> Binaries] /\ ready' = {}
         /\ harness'[t] = binary /\ \A u \in Trees \ {t} : harness'[u] = harness[u]
<1>1. /\ harness' = [harness EXCEPT ![t] = binary] /\ harness \in [Trees -> Binaries]
      /\ ready' = {} /\ trees \in [Versions -> [Trees -> TreeAmounts]]
  BY DEF LinkTo, IInv, TypeOK
<1>2. binary # NoBinary => binary.v \in Versions
  BY DEF Binaries
<1>3. binary # NoBinary => TreeThere(binary.v, t)
  BY <1>1, <1>2 DEF IInv, DiskInv, TreeInv, PartsAreUndone, TreeThere, TreeAmounts
<1>4. TreeInv'
  BY <1>1, <1>3 DEF IInv, DiskInv, TreeInv, PartsAreUndone, HarnessHasTree, TreeThere
<1>5. ReadyReproduces'
  BY <1>1 DEF ReadyReproduces
<1>6. QED
  BY <1>1, <1>4, <1>5, SourceKept DEF IInv, DiskInv

LEMMA LinkKeeps ==
  ASSUME IInv, NEW t \in Trees, Link(t)
  PROVE  IInv'
<1> DEFINE pc == IF t = "lf" THEN "make cov" ELSE "docs"
<1>1. /\ job.pc = LinkPc[t] /\ job.pc \in SetUpPcs /\ job.v \in Versions /\ UNCHANGED source
      /\ trees[job.v][t] # "none" /\ ThenSetUp(pc)
  BY TreePcs, BuildsWhere DEF Link, sourceVars, IInv, JobInv, SetUpInv
<1>2. /\ pc \in SetUpPcs /\ pc \notin {"link cov", "seeds"} /\ \A u \in Trees : pc # LinkPc[u]
      /\ pc = "docs" => t = "cov" /\ job.pc = "link cov"
      /\ pc = "make cov" => t = "lf"
  BY <1>1, TreePcs DEF SetUpPcs
<1> HIDE DEF pc
<1>3. PICK h \in IF job.b = None THEN Harnesses ELSE {BugHarness[job.b]} :
        LinkTo(t, [v |-> job.v, h |-> h])
  BY DEF Link
<1>4. job.b # None => job.b \in Bugs /\ job.v = BugVersion[job.b]
  BY <1>1 DEF IInv, JobInv, SetUpInv
<1>5. h \in Harnesses /\ [v |-> job.v, h |-> h] \in Binaries
  BY <1>1, <1>3, <1>4, BugAssumption DEF Binaries
<1>6. /\ DiskInv' /\ harness' \in [Trees -> Binaries] /\ ready' = {}
      /\ harness'[t] = [v |-> job.v, h |-> h] /\ \A u \in Trees \ {t} : harness'[u] = harness[u]
  BY <1>1, <1>3, <1>5, LinkToKeeps DEF Link
<1>7. job.b # None => harness'[t] = BugBinary(job.b)
  BY <1>3, <1>4, <1>6 DEF BugBinary
<1>8. job.b # None /\ pc = "make cov" => harness'["lf"] = BugBinary(job.b)
  BY <1>2, <1>7
<1>9. job.b # None /\ pc = "docs" =>
        harness'["lf"] = BugBinary(job.b) /\ harness'["cov"] = BugBinary(job.b)
  BY <1>2, <1>6, <1>7 DEF IInv, JobInv, SetUpInv, Trees
<1>10. JobInv' /\ job' \in Jobs
  BY <1>1, <1>2, <1>8, <1>9, ThenSetUpKeeps
<1>11. TypeOK'
  BY <1>6, <1>10 DEF IInv, TypeOK, DownloadsTypeOK, Link, sourceVars, bugVars
<1>12. QED
  BY <1>6, <1>10, <1>11 DEF IInv

-----------------------------------------------------------------------------
(***************************************************************************)
(* Setup and reproduction of a bug.                                        *)
(***************************************************************************)

LEMMA StartSetUpKeeps ==
  ASSUME IInv, NEW b \in Bugs, StartSetUp(b)
  PROVE  IInv'
<1> DEFINE pc == IF source[BugVersion[b]] = "none" THEN "look" ELSE "configure"
<1>1. /\ job' = [Idle EXCEPT !.v = BugVersion[b], !.b = b, !.then = "configure", !.pc = pc]
      /\ UNCHANGED <<diskVars, failures>> /\ UNCHANGED source
  BY DEF StartSetUp, diskVars, sourceVars
<1>2. pc \in {"look", "configure"} /\ (pc = "configure" => source[BugVersion[b]] # "none")
  OBVIOUS
<1> HIDE DEF pc
<1>3. BugVersion[b] \in Versions
  BY BugAssumption
<1>4. /\ job' \in Jobs /\ job'.pc = pc /\ job'.v = BugVersion[b] /\ job'.b = b
      /\ job'.then = "configure"
  BY <1>1, <1>2, <1>3 DEF Idle, Jobs, Pcs, DownloadPcs, Rest
<1>5. DownloadIsComplete' /\ DownloadInv'
  BY <1>2, <1>3, <1>4 DEF DownloadIsComplete, DownloadInv
<1>6. SetUpInv'
  <2>1. \A t \in Trees : job'.pc # LinkPc[t]
    BY <1>2, <1>4, TreePcs
  <2>2. job'.v \in Versions /\ job'.b \in Bugs /\ job'.v = BugVersion[job'.b]
    BY <1>3, <1>4
  <2>3. job'.pc \in {"look", "configure"} /\ (job'.pc = "configure" => source'[job'.v] # "none")
    BY <1>1, <1>2, <1>4
  <2>4. QED
    BY <2>1, <2>2, <2>3 DEF SetUpInv, SetUpPcs
<1>7. QED
  BY <1>1, <1>4, <1>5, <1>6, JobStep DEF JobInv

LEMMA SetUpRootKeeps ==
  ASSUME IInv, SetUpRoot
  PROVE  IInv'
<1>1. job.pc = "configure" /\ job.v \in Versions /\ UNCHANGED source /\ Goto("make lf")
  BY DEF SetUpRoot, sourceVars, IInv, JobInv, SetUpInv, SetUpPcs
<1>2. JobInv' /\ job' \in Jobs
  <2>1. "make lf" \in SetUpPcs /\ job.pc \in SetUpPcs /\ \A t \in Trees : "make lf" # LinkPc[t]
    BY <1>1, TreePcs DEF SetUpPcs
  <2>2. QED
    BY <1>1, <2>1, SetUpGoto, NoneAssumption, BugAssumption DEF IInv, JobInv, SetUpInv
<1>3. TypeOK'
  BY <1>1, <1>2 DEF IInv, TypeOK, DownloadsTypeOK, SetUpRoot, sourceVars, bugVars, history
<1>4. DiskInv'
  <2>1. UNCHANGED <<sourceVars, source, trees, undone, harness, docs, seeds, ready, robbed>>
    BY DEF SetUpRoot, sourceVars, bugVars, history
  <2>2. QED
    BY <2>1, SourceKept, TreesKept, ReadyKept DEF IInv, TypeOK, DiskInv
<1>5. QED
  BY <1>2, <1>3, <1>4 DEF IInv

LEMMA SetUpFailsKeeps ==
  ASSUME IInv, SetUpFails
  PROVE  IInv'
BY IdleJob, JobStep DEF SetUpFails, diskVars

LEMMA SetUpDocsKeeps ==
  ASSUME IInv, SetUpDocs
  PROVE  IInv'
<1>1. /\ job.pc = "docs" /\ job.pc \in SetUpPcs /\ job.b \in Bugs
      /\ Goto("seeds") /\ UNCHANGED <<source, harness>>
      /\ harness["lf"] = BugBinary(job.b) /\ harness["cov"] = BugBinary(job.b) /\ job.b # None
  BY BugAssumption DEF SetUpDocs, sourceVars, treeVars, IInv, JobInv, SetUpInv, SetUpPcs
<1>2. /\ docs' = [docs EXCEPT ![job.b] = DocsMade(job.b)] /\ docs \in [Bugs -> BugAmounts]
      /\ robbed' = robbed \ {job.b} /\ DocsMade(job.b) \in {"all", "torn"}
      /\ {"all", "torn"} \subseteq BugAmounts
  BY DEF SetUpDocs, IInv, TypeOK, DocsMade, BugAmounts
<1> HIDE DEF DocsMade
<1>3. \A b \in Bugs : DocsKept(b) \/ b = job.b => DocsKept(b)'
  BY <1>2 DEF DocsKept
<1>5. docs'[job.b] \in {"all", "torn"}
  BY <1>1, <1>2
<1>6. JobInv' /\ job' \in Jobs
  <2>1. "seeds" \in SetUpPcs /\ \A t \in Trees : "seeds" # LinkPc[t]
    BY TreePcs DEF SetUpPcs
  <2>2. QED
    BY <1>1, <1>5, <2>1, SetUpGoto
<1>7. DiskInv'
  <2>1. \A b \in ready : DocsKept(b)'
    BY <1>3 DEF IInv, TypeOK, DiskInv, ReadyReproduces
  <2>2. UNCHANGED <<sourceVars, source, trees, undone, harness, seeds, ready>>
    BY DEF SetUpDocs, sourceVars, treeVars
  <2>3. ReadyReproduces'
    BY <2>1, <2>2 DEF IInv, DiskInv, ReadyReproduces, TreeThere
  <2>4. QED
    BY <2>2, <2>3, SourceKept, TreesKept DEF IInv, DiskInv
<1>8. TypeOK'
  BY <1>1, <1>2, <1>6 DEF IInv, TypeOK, DownloadsTypeOK, SetUpDocs, sourceVars, treeVars
<1>9. QED
  BY <1>6, <1>7, <1>8 DEF IInv

\* The end of a setup: all that the setup made is still there.
LEMMA SetUpSeedsKeeps ==
  ASSUME IInv, SetUpSeeds
  PROVE  IInv'
<1>1. /\ job.b \in Bugs /\ job.v = BugVersion[job.b] /\ source[job.v] # "none"
      /\ harness["lf"] = BugBinary(job.b) /\ harness["cov"] = BugBinary(job.b)
      /\ DocsKept(job.b)
  BY BugAssumption DEF SetUpSeeds, IInv, JobInv, SetUpInv, SetUpPcs
<1>2. /\ seeds' = [seeds EXCEPT ![job.b] = SeedsMade(job.b)] /\ seeds \in [Bugs -> BugAmounts]
      /\ SeedsMade(job.b) \in {"all", "torn"} /\ {"all", "torn"} \subseteq BugAmounts
      /\ ready' = ready \union {job.b}
  BY DEF SetUpSeeds, SeedsMade, IInv, TypeOK, BugAmounts
<1> HIDE DEF SeedsMade
<1>3. JobInv' /\ job' \in Jobs
  BY IdleJob DEF SetUpSeeds
<1>4. SourceInv' /\ TreeInv'
  BY SourceKept, TreesKept DEF IInv, DiskInv, SetUpSeeds, treeVars
<1>5. ReadyReproduces'
  <2>1. /\ UNCHANGED <<source, trees, undone, harness, docs, robbed>> /\ ready \subseteq Bugs
    BY DEF SetUpSeeds, sourceVars, treeVars, IInv, TypeOK
  <2>2. \A b \in ready' : /\ source'[BugVersion[b]] # "none"
                          /\ \A t \in Trees : harness'[t] = BugBinary(b)
    BY <1>1, <1>2, <2>1 DEF IInv, DiskInv, ReadyReproduces, Trees
  <2>6. \A b \in ready' : b \in Bugs /\ \A t \in Trees : TreeThere(BugVersion[b], t)'
    <3>1. \A b \in ready' : b \in Bugs
      BY <1>1, <1>2, <2>1
    <3>2. ASSUME NEW b \in Bugs, NEW t \in Trees, harness'[t] = BugBinary(b)
          PROVE  TreeThere(BugVersion[b], t)'
      <4>1. harness'[t] # NoBinary /\ harness'[t].v = BugVersion[b]
        BY <3>2, BugIsBinary, Zenon
      <4>2. HarnessHasTree'
        BY <1>4 DEF TreeInv
      <4>3. QED
        BY <4>1, <4>2 DEF HarnessHasTree, TreeThere
    <3>3. QED
      BY <2>2, <3>1, <3>2, Zenon
  <2>3. \A b \in ready' : seeds'[b] \in {"all", "torn"}
    BY <1>1, <1>2, <2>1 DEF IInv, DiskInv, ReadyReproduces
  <2>4. \A b \in ready' : DocsKept(b)'
    BY <1>1, <1>2, <2>1 DEF IInv, DiskInv, ReadyReproduces, DocsKept
  <2>5. QED
    BY <2>2, <2>3, <2>4, <2>6 DEF ReadyReproduces
<1>6. TypeOK'
  BY <1>1, <1>2, <1>3 DEF IInv, TypeOK, DownloadsTypeOK, SetUpSeeds, sourceVars, treeVars
<1>7. QED
  BY <1>3, <1>4, <1>5, <1>6 DEF IInv, DiskInv

LEMMA StartReproduceKeeps ==
  ASSUME IInv, NEW b \in Bugs, StartReproduce(b)
  PROVE  IInv'
<1> DEFINE pc == IF seeds[b] = "none" THEN "reseed" ELSE "find"
<1>1. /\ job' = [Idle EXCEPT !.v = BugVersion[b], !.b = b, !.pc = pc]
      /\ UNCHANGED <<diskVars, failures>>
  BY DEF StartReproduce, diskVars
<1>2. pc \in {"reseed", "find"}
  OBVIOUS
<1> HIDE DEF pc
<1>3. job' \in Jobs /\ job'.pc = pc /\ job'.b = b
  BY <1>1, <1>2, BugAssumption DEF Idle, Jobs, Pcs, Rest
<1>4. DownloadIsComplete' /\ DownloadInv'
  BY <1>2, <1>3 DEF DownloadIsComplete, DownloadInv, DownloadPcs
<1>5. SetUpInv'
  <2>1. \A t \in Trees : job'.pc # LinkPc[t]
    BY <1>2, <1>3, TreePcs
  <2>2. QED
    BY <1>2, <1>3, <2>1 DEF SetUpInv, SetUpPcs
<1>6. QED
  BY <1>1, <1>3, <1>4, <1>5, JobStep DEF JobInv

\* More seeds harm no bug.
LEMMA MoreSeeds ==
  ASSUME IInv, NEW b \in Bugs, NEW a \in BugAmounts, seeds' = [seeds EXCEPT ![b] = a],
         a \in {"all", "torn"} \/ b \notin ready, ready' = ready,
         UNCHANGED <<sourceVars, treeVars, docs, robbed>>
  PROVE  DiskInv' /\ seeds' \in [Bugs -> BugAmounts]
<1>1. SourceInv' /\ TreeInv'
  BY SourceKept, TreesKept DEF IInv, DiskInv, treeVars
<1>2. seeds \in [Bugs -> BugAmounts] /\ ready \subseteq Bugs
  BY DEF IInv, TypeOK
<1>3. ReadyReproduces'
  BY <1>2 DEF IInv, DiskInv, ReadyReproduces, TreeThere, DocsKept, sourceVars, treeVars
<1>4. QED
  BY <1>1, <1>2, <1>3 DEF DiskInv

LEMMA ReseedKeeps ==
  ASSUME IInv, Reseed
  PROVE  IInv'
<1>1. job.b \in Bugs
  BY DEF Reseed, IInv, JobInv, SetUpInv
<1>2. SeedsMade(job.b) \in {"all", "torn"} /\ SeedsMade(job.b) \in BugAmounts
  BY DEF SeedsMade, BugAmounts
<1> HIDE DEF SeedsMade
<1>3. DiskInv' /\ seeds' \in [Bugs -> BugAmounts]
  BY <1>1, <1>2, MoreSeeds DEF Reseed, history
<1>4. JobInv' /\ job' \in Jobs
  BY GotoType, QuietJob DEF Reseed, IInv, TypeOK, Pcs, Rest, Quiet
<1>5. TypeOK'
  BY <1>3, <1>4 DEF IInv, TypeOK, DownloadsTypeOK, Reseed, sourceVars, treeVars, history
<1>6. QED
  BY <1>3, <1>4, <1>5 DEF IInv

LEMMA TriageKeeps ==
  ASSUME IInv, Triage \/ Triaged
  PROVE  IInv'
<1>1. UNCHANGED <<diskVars, failures>> /\ (Goto("triage") \/ job' = Idle)
  BY DEF Triage, Triaged, diskVars
<1>2. CASE Goto("triage")
  BY <1>1, <1>2, GotoType, QuietJob, JobStep DEF IInv, TypeOK, Pcs, Rest, Quiet
<1>3. CASE job' = Idle
  BY <1>1, <1>3, IdleJob, JobStep
<1>4. QED
  BY <1>1, <1>2, <1>3

-----------------------------------------------------------------------------
(***************************************************************************)
(* Cleaning.                                                               *)
(***************************************************************************)
LEMMA StartCleanKeeps ==
  ASSUME IInv, NEW pc \in Cleaning, StartClean(pc)
  PROVE  IInv'
<1>1. job' = [Idle EXCEPT !.pc = pc] /\ UNCHANGED <<diskVars, failures>>
  BY DEF StartClean, diskVars
<1>2. job' \in Jobs /\ job'.pc \in Quiet
  BY <1>1 DEF Idle, Jobs, Pcs, Rest, Cleaning, Quiet
<1>3. QED
  BY <1>1, <1>2, QuietJob, JobStep

LEMMA CleanHarnessKeeps ==
  ASSUME IInv, NEW t \in Trees, CleanHarness(t)
  PROVE  IInv'
<1>1. DiskInv' /\ harness' \in [Trees -> Binaries] /\ ready' = {}
  BY LinkToKeeps DEF CleanHarness, Binaries
<1>2. TypeOK'
  BY <1>1 DEF IInv, TypeOK, DownloadsTypeOK, CleanHarness, sourceVars, bugVars
<1>3. JobInv'
  BY QuietJob DEF CleanHarness, Quiet, Cleaning
<1>4. QED
  BY <1>1, <1>2, <1>3 DEF IInv

\* Without binaries no bug is ready.
LEMMA NoneReady ==
  ASSUME IInv, NoHarness
  PROVE  ready = {}
<1>1. ASSUME NEW b \in ready
      PROVE  FALSE
  <2>1. b \in Bugs /\ BugVersion[b] \in Versions /\ harness["lf"] = BugBinary(b)
    BY BugAssumption DEF IInv, TypeOK, DiskInv, ReadyReproduces, Trees
  <2>2. harness["lf"].v = None
    BY DEF NoHarness, Trees, NoBinary
  <2>3. QED
    BY <2>1, <2>2, NoneAssumption DEF BugBinary
<1>2. QED
  BY <1>1

LEMMA CleanSourceKeeps ==
  ASSUME IInv, NEW v \in Versions, CleanSource(v)
  PROVE  IInv'
<1>1. ready = {}
  BY NoneReady DEF CleanSource
<1>2. NoDeps \in [Deps -> Amounts] /\ \A d \in Deps : NoDeps[d] = "none"
  BY DEF NoDeps, Amounts
<1>3. /\ source' = [source EXCEPT ![v] = "none"] /\ dep' = [dep EXCEPT ![v] = NoDeps]
      /\ torn' = torn \ {v}
      /\ source \in [Versions -> Amounts] /\ dep \in [Versions -> [Deps -> Amounts]]
  BY DEF CleanSource, IInv, TypeOK, DownloadsTypeOK
<1> HIDE DEF NoDeps
<1>4. TypeOK'
  <2>1. "none" \in Amounts
    BY DEF Amounts
  <2>2. source' \in [Versions -> Amounts] /\ dep' \in [Versions -> [Deps -> Amounts]]
    BY <1>2, <1>3, <2>1
  <2>3. DownloadsTypeOK'
    BY <1>3, <2>2 DEF IInv, TypeOK, DownloadsTypeOK, CleanSource
  <2>4. QED
    BY <2>3 DEF IInv, TypeOK, CleanSource, bugVars, history
<1>5. SourceInv'
  BY <1>2, <1>3 DEF IInv, DiskInv, SourceInv, PartialIsTorn, LibrariesAreWhole
<1>6. TreeInv' /\ ReadyReproduces'
  BY <1>1, TreesKept DEF IInv, DiskInv, ReadyReproduces, CleanSource, history
<1>7. JobInv'
  BY QuietJob DEF CleanSource, Quiet, Cleaning
<1>8. QED
  BY <1>4, <1>5, <1>6, <1>7 DEF IInv, DiskInv

LEMMA CleanTreeKeeps ==
  ASSUME IInv, NEW v \in Versions, NEW t \in Trees, CleanTree(v, t)
  PROVE  IInv'
<1>1. /\ ready = {} /\ NoHarness /\ UNCHANGED <<sourceVars, harness, ready>>
      /\ trees' = [trees EXCEPT ![v][t] = "none"] /\ undone' = undone \ {<<v, t>>}
      /\ trees \in [Versions -> [Trees -> TreeAmounts]]
  BY NoneReady DEF CleanTree, DropTree, history, IInv, TypeOK
<1>2. TypeOK'
  <2>1. trees' \in [Versions -> [Trees -> TreeAmounts]]
    BY <1>1 DEF TreeAmounts
  <2>2. QED
    BY <1>1, <2>1 DEF IInv, TypeOK, DownloadsTypeOK, CleanTree, DropTree, sourceVars, bugVars, history
<1>3. DiskInv'
  <2>1. PartsAreUndone'
    BY <1>1 DEF IInv, DiskInv, TreeInv, PartsAreUndone
  <2>2. HarnessHasTree' /\ ReadyReproduces'
    BY <1>1 DEF NoHarness, HarnessHasTree, ReadyReproduces
  <2>3. QED
    BY <1>1, <2>1, <2>2, SourceKept DEF IInv, DiskInv, TreeInv
<1>4. JobInv'
  BY QuietJob DEF CleanTree, DropTree, Quiet, Cleaning
<1>5. QED
  BY <1>2, <1>3, <1>4 DEF IInv

\* The bugs that lose files count as robbed.
LEMMA CleanBugKeeps ==
  ASSUME IInv, NEW b \in Bugs, NEW lost \in SUBSET Bugs, CleanBug(b, lost),
         job' \in Jobs, JobInv', failures' \in 0 .. MaxFailures
  PROVE  IInv'
<1>1. /\ seeds' = [seeds EXCEPT ![b] = "none"]
      /\ docs' = [c \in Bugs |-> IF c \in lost THEN "none" ELSE docs[c]]
      /\ ready' = ready \ {b} /\ robbed' = (robbed \union (lost \intersect Robbed(b))) \ {b}
      /\ seeds \in [Bugs -> BugAmounts] /\ docs \in [Bugs -> BugAmounts] /\ ready \subseteq Bugs
  BY DEF CleanBug, IInv, TypeOK
<1>2. UNCHANGED <<sourceVars, source, dep, torn, configured, trees, undone, harness>>
  BY DEF CleanBug, sourceVars, treeVars
<1>3. TypeOK'
  BY <1>1, <1>2 DEF IInv, TypeOK, DownloadsTypeOK, Robbed, BugAmounts
<1>4. SourceInv' /\ TreeInv'
  BY <1>2, SourceKept, TreesKept DEF IInv, DiskInv
<1>5. ASSUME NEW c \in ready'
      PROVE  DocsKept(c)'
  <2>1. c \in Bugs \ {b} /\ DocsKept(c)
    BY <1>1, <1>5 DEF IInv, DiskInv, ReadyReproduces
  <2>2. CASE c \in robbed
    BY <1>1, <2>1, <2>2 DEF DocsKept
  <2>3. CASE docs[c] \in {"all", "torn"} /\ c \in lost
    BY <1>1, <2>1, <2>3 DEF Robbed, DocsKept
  <2>4. CASE docs[c] \in {"all", "torn"} /\ c \notin lost
    BY <1>1, <2>1, <2>4 DEF DocsKept
  <2>5. QED
    BY <2>1, <2>2, <2>3, <2>4 DEF DocsKept
<1>6. ReadyReproduces'
  BY <1>1, <1>2, <1>5 DEF IInv, DiskInv, ReadyReproduces, TreeThere
<1>7. QED
  BY <1>3, <1>4, <1>6 DEF IInv, DiskInv

LEMMA StartBugCleanKeeps ==
  ASSUME IInv, NEW b \in Bugs, StartBugClean(b)
  PROVE  IInv'
<1>1. job' = [Idle EXCEPT !.pc = "bug clean", !.b = b] /\ UNCHANGED <<diskVars, failures>>
  BY DEF StartBugClean, diskVars
<1>2. job' \in Jobs /\ job'.pc = "bug clean" /\ job'.b = b
  BY <1>1 DEF Idle, Jobs, Pcs, Rest
<1>3. DownloadIsComplete' /\ DownloadInv'
  BY <1>2 DEF DownloadIsComplete, DownloadInv, DownloadPcs
<1>4. SetUpInv'
  <2>1. \A t \in Trees : job'.pc # LinkPc[t]
    BY <1>2, TreePcs DEF SetUpPcs
  <2>2. QED
    BY <1>2, <2>1 DEF SetUpInv, SetUpPcs
<1>5. QED
  BY <1>1, <1>2, <1>3, <1>4, JobStep DEF JobInv

LEMMA BugCleanKeeps ==
  ASSUME IInv, BugClean
  PROVE  IInv'
<1>1. /\ job.b \in Bugs /\ CleanBug(job.b, Bugs) /\ job' = Idle
      /\ failures' \in 0 .. MaxFailures
  BY DEF BugClean, IInv, TypeOK, DownloadsTypeOK, JobInv, SetUpInv
<1>2. QED
  BY <1>1, IdleJob, CleanBugKeeps

LEMMA CleanNextBugKeeps ==
  ASSUME IInv, NEW b \in Bugs, CleanNextBug(b)
  PROVE  IInv'
<1>1. /\ CleanBug(b, Bugs) /\ UNCHANGED job /\ job' \in Jobs
      /\ failures' \in 0 .. MaxFailures
  BY DEF CleanNextBug, IInv, TypeOK, DownloadsTypeOK
<1>2. JobInv'
  BY <1>1, QuietJob DEF CleanNextBug, CleaningBugs, Quiet
<1>3. QED
  BY <1>1, <1>2, CleanBugKeeps

LEMMA CleanEndsKeeps ==
  ASSUME IInv, CleanEnds
  PROVE  IInv'
BY IdleJob, JobStep DEF CleanEnds, diskVars

-----------------------------------------------------------------------------
(***************************************************************************)
(* Interruptions.  The command is over: only the disk matters.             *)
(***************************************************************************)
LEMMA TornDocsKeeps ==
  ASSUME IInv, TornDocs
  PROVE  DiskInv' /\ docs' \in [Bugs -> BugAmounts]
<1>1. job.b \in Bugs /\ docs[job.b] = "none" /\ docs \in [Bugs -> BugAmounts]
      /\ \E a \in BugAmounts : docs' = [docs EXCEPT ![job.b] = a]
  BY DEF TornDocs, IInv, TypeOK, JobInv, SetUpInv, SetUpPcs, BugAmounts
<1>2. \A b \in Bugs : DocsKept(b) => DocsKept(b)'
  BY <1>1 DEF DocsKept, TornDocs, history
<1>3. ready \subseteq Bugs /\ UNCHANGED <<source, trees, undone, harness, seeds, ready>>
  BY DEF TornDocs, IInv, TypeOK, sourceVars, treeVars, history
<1>4. ReadyReproduces'
  BY <1>2, <1>3 DEF IInv, DiskInv, ReadyReproduces, TreeThere
<1>5. SourceInv' /\ TreeInv'
  BY <1>3, SourceKept, TreesKept DEF IInv, DiskInv, TornDocs
<1>6. QED
  BY <1>1, <1>4, <1>5 DEF DiskInv

\* Seeds of a bug that is ready are all there, or taken for it.
LEMMA TornSeedsKeeps ==
  ASSUME IInv, TornSeeds
  PROVE  DiskInv' /\ seeds' \in [Bugs -> BugAmounts]
<1>1. job.b \in Bugs /\ job.b \notin ready
  BY DEF TornSeeds, IInv, JobInv, SetUpInv, SetUpPcs, DiskInv, ReadyReproduces
<1>2. PICK a \in {"some", "torn"} : seeds' = [seeds EXCEPT ![job.b] = a]
  BY DEF TornSeeds
<1>3. a \in BugAmounts
  BY DEF BugAmounts
<1>4. QED
  BY <1>1, <1>2, <1>3, MoreSeeds DEF TornSeeds, history

\* A removal begins when no binary is left, so that no bug is ready.
LEMMA TornSourceKeeps ==
  ASSUME IInv, TornSource
  PROVE  /\ DiskInv' /\ source' \in [Versions -> Amounts] /\ torn' \subseteq Versions
         /\ dep' \in [Versions -> [Deps -> Amounts]]
<1>1. ready = {}
  BY NoneReady DEF TornSource
<1>2. PICK v \in Present, left \in SUBSET Deps :
        /\ source' = [source EXCEPT ![v] = "partial"]
        /\ dep' = [dep EXCEPT ![v] = [d \in Deps |->
                      IF dep[v][d] = "none" \/ d \notin left THEN "none" ELSE "partial"]]
        /\ torn' = torn \union {v}
  BY DEF TornSource
<1> DEFINE after == [d \in Deps |->
                      IF dep[v][d] = "none" \/ d \notin left THEN "none" ELSE "partial"]
<1>3. v \in Versions /\ after \in [Deps -> Amounts]
  BY DEF Present, Amounts
<1>4. dep' = [dep EXCEPT ![v] = after]
  BY <1>2
<1> HIDE DEF after
<1>5. /\ source \in [Versions -> Amounts] /\ torn \subseteq Versions
      /\ dep \in [Versions -> [Deps -> Amounts]] /\ "partial" \in Amounts
  BY DEF IInv, TypeOK, DownloadsTypeOK, Amounts
<1>6. SourceInv'
  BY <1>2, <1>3, <1>4, <1>5 DEF IInv, DiskInv, SourceInv, PartialIsTorn, LibrariesAreWhole
<1>7. TreeInv' /\ ReadyReproduces'
  BY <1>1, TreesKept DEF IInv, DiskInv, ReadyReproduces, TornSource, treeVars, history
<1>8. QED
  BY <1>2, <1>3, <1>4, <1>5, <1>6, <1>7 DEF DiskInv

LEMMA TornTreeKeeps ==
  ASSUME IInv, NEW v \in Versions, NEW t \in Trees, TornTree(v, t)
  PROVE  /\ DiskInv' /\ trees' \in [Versions -> [Trees -> TreeAmounts]]
         /\ undone' \subseteq Versions \X Trees
<1>1. PICK amount \in Left(trees[v][t]) : trees' = [trees EXCEPT ![v][t] = amount]
  BY DEF TornTree
<1>2. amount \in TreeAmounts
  BY DEF Left, TreeAmounts
<1>3. QED
  BY <1>1, <1>2, TreeChanged DEF TornTree

LEMMA TornLinkKeeps ==
  ASSUME IInv, NEW t \in Trees, TornLink(t)
  PROVE  DiskInv' /\ harness' \in [Trees -> Binaries] /\ ready' = {}
BY LinkToKeeps DEF TornLink, Binaries

LEMMA InterruptKeeps ==
  ASSUME IInv, Interrupt
  PROVE  IInv'
<1>1. job' \in Jobs /\ JobInv' /\ failures' \in 0 .. MaxFailures
  BY MaxFailuresAssumption, IdleJob DEF Interrupt, Fail, IInv, TypeOK, DownloadsTypeOK
<1>2. CASE UNCHANGED <<sourceVars, treeVars, bugVars, history>>
  BY <1>1, <1>2, DiskKept, TypeKept DEF IInv, TypeOK, diskVars
<1>3. CASE TornDocs
  BY <1>1, <1>3, TornDocsKeeps DEF IInv, TypeOK, DownloadsTypeOK, TornDocs,
     sourceVars, treeVars, history
<1>4. CASE TornSeeds
  BY <1>1, <1>4, TornSeedsKeeps DEF IInv, TypeOK, DownloadsTypeOK, TornSeeds,
     sourceVars, treeVars, history
<1>5. CASE TornSource
  BY <1>1, <1>5, TornSourceKeeps DEF IInv, TypeOK, DownloadsTypeOK, TornSource,
     treeVars, bugVars, history
<1>6. ASSUME NEW b \in Bugs, TornBug(b)
      PROVE  IInv'
  BY <1>1, <1>6, CleanBugKeeps DEF TornBug
<1>7. ASSUME NEW v \in Versions, NEW t \in Trees, TornTree(v, t)
      PROVE  IInv'
  BY <1>1, <1>7, TornTreeKeeps DEF IInv, TypeOK, DownloadsTypeOK, TornTree,
     sourceVars, bugVars, history
<1>8. ASSUME NEW t \in Trees, TornLink(t)
      PROVE  IInv'
  BY <1>1, <1>8, TornLinkKeeps DEF IInv, TypeOK, DownloadsTypeOK, TornLink, sourceVars, bugVars
<1>9. QED
  BY <1>2, <1>3, <1>4, <1>5, <1>6, <1>7, <1>8 DEF Interrupt

-----------------------------------------------------------------------------
(***************************************************************************)
(* The invariant, and what it implies.                                     *)
(***************************************************************************)
LEMMA InitKeeps == Init => IInv
<1> SUFFICES ASSUME Init PROVE IInv
  OBVIOUS
<1>1. /\ source = [v \in Versions |-> "none"] /\ dep = [v \in Versions |-> NoDeps]
      /\ job = Idle /\ failures = 0 /\ torn = {} /\ NoDeps \in [Deps -> Amounts]
      /\ \A d \in Deps : NoDeps[d] = "none"
  BY DEF Init, DownloadsInit, NoDeps, Amounts
<1>2. DownloadsTypeOK
  BY <1>1, MaxFailuresAssumption DEF DownloadsTypeOK, Amounts
<1>3. TypeOK
  BY <1>1, <1>2, IdleType DEF TypeOK, Init, Amounts, BugAmounts, TreeAmounts, Binaries
<1>4. DiskInv
  BY <1>1 DEF DiskInv, SourceInv, TreeInv, PartialIsTorn, LibrariesAreWhole, PartsAreUndone,
              HarnessHasTree, ReadyReproduces, Init
<1>5. job.pc \notin DownloadPcs \union SetUpPcs \union {"reseed", "bug clean"}
  BY <1>1, IdleType DEF DownloadPcs, SetUpPcs
<1>6. DownloadIsComplete /\ DownloadInv
  BY <1>5 DEF DownloadIsComplete, DownloadInv, DownloadPcs
<1>7. SetUpInv
  <2>1. \A t \in Trees : job.pc # LinkPc[t]
    BY <1>5, TreePcs
  <2>2. QED
    BY <1>5, <2>1 DEF SetUpInv, SetUpPcs
<1>8. QED
  BY <1>3, <1>4, <1>6, <1>7 DEF IInv, JobInv

LEMMA StutterKeeps ==
  ASSUME IInv, UNCHANGED vars
  PROVE  IInv'
<1>1. UNCHANGED <<diskVars, job, failures>> /\ UNCHANGED <<source, dep, torn, trees, undone, harness, docs, robbed>>
  BY DEF vars, diskVars, sourceVars, treeVars, bugVars, history
<1>2. DownloadIsComplete' /\ DownloadInv'
  BY <1>1 DEF IInv, JobInv, DownloadIsComplete, DownloadInv, Complete
<1>3. SetUpInv'
  BY <1>1 DEF IInv, JobInv, SetUpInv, DocsKept
<1>4. job' \in Jobs
  BY <1>1 DEF IInv, TypeOK
<1>5. QED
  BY <1>1, <1>2, <1>3, <1>4, JobStep DEF JobInv

LEMMA DownloadNextKeeps ==
  ASSUME IInv, DownloadNext
  PROVE  IInv'
<1>1. UNCHANGED <<treeVars, bugVars, history>>
  BY DEF DownloadNext
<1>2. CASE DownloadStep
  BY <1>1, <1>2, LookKeeps, ExtractKeeps, NextDepKeeps, UnpackKeeps, RenameKeeps, DownloadedKeeps
     DEF DownloadStep
<1>3. CASE InterruptDownload
  BY <1>1, <1>3, InterruptDownloadKeeps
<1>4. ASSUME NEW v \in Versions, StartDownload(v)
      PROVE  IInv'
  BY <1>1, <1>4, StartDownloadKeeps
<1>5. QED
  BY <1>2, <1>3, <1>4 DEF DownloadNext

LEMMA NextKeeps ==
  ASSUME IInv, [Next]_vars
  PROVE  IInv'
<1>1. CASE DownloadNext
  BY <1>1, DownloadNextKeeps
<1>2. CASE BuildNext
  BY <1>2, ConfigureKeeps, StartBuildKeeps, RemoveTreeKeeps, BuildTreeKeeps, KeepTreeKeeps,
     IntrospectKeeps, LinkKeeps DEF BuildNext
<1>3. CASE BugNext
  BY <1>3, StartSetUpKeeps, StartReproduceKeeps, StartBugCleanKeeps, SetUpRootKeeps,
     SetUpFailsKeeps, SetUpDocsKeeps, SetUpSeedsKeeps, ReseedKeeps, TriageKeeps, BugCleanKeeps
     DEF BugNext
<1>4. CASE CleanNext
  BY <1>4, StartCleanKeeps, CleanHarnessKeeps, CleanSourceKeeps, CleanTreeKeeps,
     CleanNextBugKeeps, CleanEndsKeeps DEF CleanNext
<1>5. CASE Interrupt
  BY <1>5, InterruptKeeps
<1>6. CASE UNCHANGED vars
  BY <1>6, StutterKeeps
<1>7. QED
  BY <1>1, <1>2, <1>3, <1>4, <1>5, <1>6 DEF Next

\* The inductive invariant holds: what the steps of a command have established
\* is there when its next step relies on it.
THEOREM Invariance == Spec => []IInv
<1>1. IInv /\ [Next]_vars => IInv'
  BY NextKeeps
<1>2. QED
  BY <1>1, InitKeeps, PTL DEF Spec

\* Every reachable state has the declared types.
THEOREM TypeCorrect == Spec => []TypeOK
<1>1. IInv => TypeOK
  BY DEF IInv
<1>2. QED
  BY <1>1, Invariance, PTL

\* A download that succeeds leaves httpd with all its libraries, however often
\* downloads failed before, but in a directory that was half written or half
\* removed.
THEOREM DownloadsComplete == Spec => []DownloadIsComplete
<1>1. IInv => DownloadIsComplete
  BY DEF IInv, JobInv
<1>2. QED
  BY <1>1, Invariance, PTL

\* A library under its final name is whole, wherever extractions were cut short.
THEOREM LibrariesWhole == Spec => []LibrariesAreWhole
<1>1. IInv => LibrariesAreWhole
  BY DEF IInv, DiskInv, SourceInv
<1>2. QED
  BY <1>1, Invariance, PTL

\* A harness binary has the tree it was linked to: no cleaning leaves it
\* without, cut short or not, and no rebuild that comes to its end.
THEOREM HarnessesHaveTrees == Spec => []HarnessHasTree
<1>1. IInv => HarnessHasTree
  BY DEF IInv, DiskInv, TreeInv
<1>2. QED
  BY <1>1, Invariance, PTL

\* Until a binary is replaced or lost by a link, or it is cleaned, a bug that
\* was set up has all that its reproduction uses, but for files torn or removed
\* with those of another bug and trees whose rebuild was cut short.
THEOREM ReadyBugsReproduce == Spec => []ReadyReproduces
<1>1. IInv => ReadyReproduces
  BY DEF IInv, DiskInv
<1>2. QED
  BY <1>1, Invariance, PTL
=============================================================================
