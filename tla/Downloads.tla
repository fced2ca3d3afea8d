----------------------------- MODULE Downloads -----------------------------
(***************************************************************************)
(* The sources of httpd in the working directory (core/downloader.py).     *)
(*                                                                         *)
(* download_apache fetches an archive, extracts it straight to its place,  *)
(* then fetches the libraries that are missing.  A library is extracted    *)
(* beside its place and renamed.  What a later command skips depends only  *)
(* on which directories exist.  A command may be interrupted, or fail, at  *)
(* any step.  One command runs at a time.                                  *)
(***************************************************************************)
EXTENDS Naturals, FiniteSets

CONSTANTS
    Versions,       \* the versions of httpd
    None,           \* no version, no bug
    MaxFailures     \* bound: how many steps fail or are interrupted

ASSUME NoneAssumption == None \notin Versions
ASSUME MaxFailuresAssumption == MaxFailures \in Nat

VARIABLES
    source,     \* what there is of httpd-<version>
    dep,        \* what there is of each library in its srclib, by final name
    job,        \* the command that runs
    failures,   \* how many steps have failed
    torn        \* history: versions whose directory an interruption left
                \* half written or half removed

sourceVars == <<source, dep, torn>>

Amounts == {"none", "partial", "whole"}

\* The libraries; expat lies within apr-util.
Deps == {"apr", "apr-util", "expat"}

DownloadPcs == {"look", "extract", "deps", "unpack", "rename", "downloaded"}
Idle == [pc |-> "idle", v |-> None, d |-> None, b |-> None, then |-> "idle"]
NoDeps == [d \in Deps |-> "none"]

DownloadsInit ==
    /\ source = [v \in Versions |-> "none"]
    /\ dep = [v \in Versions |-> NoDeps]
    /\ job = Idle
    /\ failures = 0
    /\ torn = {}

Goto(pc) == job' = [job EXCEPT !.pc = pc]

Missing(v) == {d \in Deps : dep[v][d] = "none"}

\* They are fetched in this order.
FirstMissing(v) ==
    IF "apr" \in Missing(v) THEN "apr"
    ELSE IF "apr-util" \in Missing(v) THEN "apr-util"
    ELSE "expat"

Complete(v) == source[v] = "whole" /\ \A d \in Deps : dep[v][d] = "whole"

-----------------------------------------------------------------------------
(***************************************************************************)
(* download_apache, as a part of a command that goes on at job.then.       *)
(***************************************************************************)

StartDownload(v) ==
    /\ job.pc = "idle"
    /\ job' = [Idle EXCEPT !.pc = "look", !.v = v, !.then = "downloaded"]
    /\ UNCHANGED <<sourceVars, failures>>

\* Mutant: expat is not looked for.
AfterShortLook ==
    IF source[job.v] = "none" THEN "extract"
    ELSE IF Missing(job.v) \ {"expat"} # {} THEN "deps"
    ELSE job.then

\* A directory with all libraries is left alone, one without is completed.
AfterLook ==
    IF source[job.v] = "none" THEN "extract"
    ELSE IF Missing(job.v) # {} THEN "deps"
    ELSE job.then

Look ==
    /\ job.pc = "look"
    /\ Goto(AfterLook)
    /\ UNCHANGED sourceVars

\* The archive comes from the mirror, or from the archive of old versions
\* when that fails; when both do, so does the command.  extractall makes the
\* final directory at once, and fills it.
Extract ==
    /\ job.pc = "extract"
    /\ source' = [source EXCEPT ![job.v] = "whole"]
    /\ Goto("deps")
    /\ UNCHANGED <<dep, torn>>

\* _download_dependencies: the next library that is missing.
NextDep ==
    /\ job.pc = "deps"
    /\ IF Missing(job.v) = {}
       THEN Goto(job.then)
       ELSE job' = [job EXCEPT !.pc = "unpack", !.d = FirstMissing(job.v)]
    /\ UNCHANGED sourceVars

\* Mutant: the archive is extracted under the final name.
UnpackInPlace ==
    /\ job.pc = "unpack"
    /\ dep' = [dep EXCEPT ![job.v][job.d] = "partial"]
    /\ Goto("rename")
    /\ UNCHANGED <<source, torn>>

\* _download_and_extract: the archive is fetched, and extracted under its own
\* name over what an earlier run left there, which nothing else looks at.
Unpack ==
    /\ job.pc = "unpack"
    /\ Goto("rename")
    /\ UNCHANGED sourceVars

Rename ==
    /\ job.pc = "rename"
    /\ dep' = [dep EXCEPT ![job.v][job.d] = "whole"]
    /\ Goto("deps")
    /\ UNCHANGED <<source, torn>>

\* The command download ends.
Downloaded ==
    /\ job.pc = "downloaded"
    /\ job' = Idle
    /\ UNCHANGED sourceVars

DownloadStep ==
    /\ Look \/ Extract \/ NextDep \/ Unpack \/ Rename \/ Downloaded
    /\ UNCHANGED failures

\* A step fails or is interrupted, and its command ends.
Fail ==
    /\ failures < MaxFailures
    /\ failures' = failures + 1
    /\ job' = Idle

\* An extraction may be half done.
InterruptDownload ==
    /\ Fail
    /\ job.pc \in DownloadPcs
    /\ \/ UNCHANGED sourceVars
       \/ /\ job.pc = "extract"
          /\ source' = [source EXCEPT ![job.v] = "partial"]
          /\ torn' = torn \union {job.v}
          /\ UNCHANGED dep

-----------------------------------------------------------------------------
(***************************************************************************)
(* Properties.                                                             *)
(***************************************************************************)

DownloadsTypeOK ==
    /\ source \in [Versions -> Amounts]
    /\ dep \in [Versions -> [Deps -> Amounts]]
    /\ torn \subseteq Versions
    /\ failures \in 0 .. MaxFailures

\* When download_apache succeeds, httpd and its libraries are complete,
\* however often it failed before (downloader.py:98-160): but a directory
\* that an interrupted extraction or removal left is taken for a whole one.
DownloadIsComplete ==
    job.pc = "downloaded" => Complete(job.v) \/ job.v \in torn

\* A library is missing or complete under its final name, whatever was
\* interrupted: it is extracted beside it and renamed (downloader.py:190-215).
\* Only a removal (clean --all) tears one.
LibrariesAreWhole ==
    \A v \in Versions : \A d \in Deps : dep[v][d] # "partial" \/ v \in torn
=============================================================================
