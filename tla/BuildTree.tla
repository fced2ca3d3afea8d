------------------------------ MODULE BuildTree ------------------------------
(***************************************************************************)
(* The root source tree of Apache and the alternate build trees copied     *)
(* from it: `apatchy configure`, `apatchy make`, and the "ready" cache     *)
(* AlternateBuildTree.ensure_build keeps on disk (.config_hash together    *)
(* with server/libmain.la), with the bear rebuild `apatchy introspect`     *)
(* does inside the -cov tree.                                              *)
(*                                                                         *)
(* One command runs at a time on the root and on each alternate tree;      *)
(* commands on different trees run concurrently, as the documentation      *)
(* invites the user to do.  Every command may be cut short between or in   *)
(* the middle of its steps: Ctrl-C, or an external command that fails.     *)
(*                                                                         *)
(* A configuration stands for the ac_cs_config line of config.status, and  *)
(* for the sanitizer choice the line spells out.                           *)
(***************************************************************************)
EXTENDS FiniteSets

CONSTANTS
  Trees,       \* the alternate trees, one per suffix: -lf, -cov, -prof ...
  CovTree,     \* the -cov tree, the one introspection rebuilds
  Configs,     \* configurations the user gives to `apatchy configure`
  Compilers,   \* what toolchain.config may name as clang
  None         \* the file is not there

ASSUME BuildTreeAssumption ==
  /\ CovTree \in Trees
  /\ None \notin Configs
  /\ None \notin Configs \X Compilers

VARIABLES
  root,      \* the vanilla tree
  rootJob,   \* the command running on it
  cc,        \* the compiler toolchain.config names
  tree,      \* the alternate trees on disk
  job        \* the ensure_build or introspection running on each of them

vars == <<root, rootJob, cc, tree, job>>

Builds == Configs \X Compilers    \* flags an alternate tree is compiled with

\* makefile is where the Makefile says the tree is: "own" for this tree,
\* "other" for a place it was copied or moved from.  objs holds the flags
\* of the object files present, None standing for the root's own.  whole
\* says that make has run to its end here since its last make clean.  meta is
\* the branch metadata, None when there is none or only the root's own copy.
\* raced, behind and torn are history: configure ran between the reading of
\* the hash and the copy; the flags come from metadata that config.status had
\* already left behind; the tree was half removed or half rebuilt in place.
TreeState ==
  [exists : BOOLEAN, makefile : {None, "own", "other"}, src : Configs \cup {None},
   hash : Configs \cup {None}, libmain : BOOLEAN, cdb : BOOLEAN,
   objs : SUBSET (Builds \cup {None}), flags : Builds \cup {None}, whole : BOOLEAN,
   meta : Builds \cup {None}, raced : BOOLEAN, behind : BOOLEAN, torn : BOOLEAN]

NoTree ==
  [exists |-> FALSE, makefile |-> None, src |-> None, hash |-> None,
   libmain |-> FALSE, cdb |-> FALSE, objs |-> {}, flags |-> None, whole |-> FALSE,
   meta |-> None, raced |-> FALSE, behind |-> FALSE, torn |-> FALSE]

Steps == {"idle", "tree", "copy0", "check", "remove1", "copy1", "hash", "remove2",
          "copy2", "fast", "patch", "clean", "make", "save", "meta", "ready",
          "traceClean", "trace"}

JobState ==
  [pc : Steps, build : Builds \cup {None}, hash : Configs \cup {None},
   raced : BOOLEAN, behind : BOOLEAN]

NoJob == [pc |-> "idle", build |-> None, hash |-> None, raced |-> FALSE, behind |-> FALSE]

TypeOK ==
  /\ root \in [config : Configs \cup {None}, meta : Configs \cup {None},
               makefile : {"own", "other"}, libmain : BOOLEAN]
  /\ rootJob \in [pc : {"idle", "configure", "meta", "make"}, config : Configs \cup {None}]
  /\ cc \in Compilers
  /\ tree \in [Trees -> TreeState]
  /\ job \in [Trees -> JobState]

Init ==
  /\ root = [config |-> None, meta |-> None, makefile |-> "own", libmain |-> FALSE]
  /\ rootJob = [pc |-> "idle", config |-> None]
  /\ cc \in Compilers
  /\ tree = [t \in Trees |-> NoTree]
  /\ job = [t \in Trees |-> NoJob]

-----------------------------------------------------------------------------
(* The root tree. *)

\* BuildManager.configure_httpd: ./configure is started ...
Configure(c) ==
  /\ rootJob.pc = "idle"
  /\ rootJob' = [pc |-> "configure", config |-> c]
  /\ UNCHANGED <<root, cc, tree, job>>

\* Between the reading of the metadata and the reading of the hash
\* (method_dispatcher.py:210, build_tree.py:44), and from there to the copy
\* of the tree (build_tree.py:54).
HashPending(t) == job[t].pc \in {"tree", "copy0", "check", "remove1", "copy1", "hash"}

CopyPending(t) == job[t].pc \in {"remove2", "copy2"}

\* ... writes config.status and the Makefiles ...
ConfigStatus ==
  /\ rootJob.pc = "configure"
  /\ root' = [root EXCEPT !.config = rootJob.config, !.makefile = "own"]
  /\ rootJob' = [rootJob EXCEPT !.pc = "meta"]
  /\ job' = [t \in Trees |-> [job[t] EXCEPT !.raced = @ \/ CopyPending(t),
                                            !.behind = @ \/ HashPending(t)]]
  /\ UNCHANGED <<cc, tree>>

\* ... and only then is .apatchy_build.json saved.
SaveRootMeta ==
  /\ rootJob.pc = "meta"
  /\ root' = [root EXCEPT !.meta = rootJob.config]
  /\ rootJob' = [pc |-> "idle", config |-> None]
  /\ UNCHANGED <<cc, tree, job>>

\* BuildManager.compile_httpd: make clean, then make.
CleanRoot ==
  /\ rootJob.pc = "idle" /\ root.config # None
  /\ root' = [root EXCEPT !.libmain = FALSE]
  /\ rootJob' = [rootJob EXCEPT !.pc = "make"]
  /\ UNCHANGED <<cc, tree, job>>

MakeRoot ==
  /\ rootJob.pc = "make"
  /\ root' = [root EXCEPT !.libmain = TRUE]
  /\ rootJob' = [rootJob EXCEPT !.pc = "idle"]
  /\ UNCHANGED <<cc, tree, job>>

\* A root command ends early; the make it interrupts may have got to libmain.
InterruptRoot ==
  /\ rootJob.pc # "idle"
  /\ \E built \in BOOLEAN :
       /\ built => rootJob.pc = "make"
       /\ root' = [root EXCEPT !.libmain = @ \/ built]
  /\ rootJob' = [pc |-> "idle", config |-> None]
  /\ UNCHANGED <<cc, tree, job>>

\* `apatchy setup llvm` records another clang in toolchain.config.
SetCompiler(k) ==
  /\ cc' = k
  /\ UNCHANGED <<root, rootJob, tree, job>>

\* The project directory is moved or copied elsewhere between commands.
Relocate ==
  /\ rootJob.pc = "idle" /\ \A t \in Trees : job[t].pc = "idle"
  /\ root' = [root EXCEPT !.makefile = "other"]
  /\ tree' = [t \in Trees |->
               IF tree[t].makefile = "own" THEN [tree[t] EXCEPT !.makefile = "other"]
               ELSE tree[t]]
  /\ UNCHANGED <<rootJob, cc, job>>

-----------------------------------------------------------------------------
(* ensure_build on the tree t, called by `apatchy make --tree`. *)

Goto(t, from, to) ==
  /\ job[t].pc = from
  /\ job' = [job EXCEPT ![t].pc = to]

StartMake(t) ==
  /\ job[t].pc = "idle" /\ root.meta # None
  /\ job' = [job EXCEPT ![t] = [NoJob EXCEPT !.pc = "tree", !.build = <<root.meta, cc>>,
                                             !.behind = root.meta # root.config]]
  /\ UNCHANGED <<root, rootJob, cc, tree>>

EnsureTree(t) ==
  /\ Goto(t, "tree", IF tree[t].exists THEN "check" ELSE "copy0")
  /\ UNCHANGED <<root, rootJob, cc, tree>>

\* copytree and rewrite_paths.  The root's paths become the tree's own only
\* where the root's files really name the root.  Its objects, its metadata
\* and, if it was compiled with bear, its compile_commands.json come along.
CopyOfRoot(cdb) ==
  [NoTree EXCEPT !.exists = TRUE, !.makefile = root.makefile, !.src = root.config,
                 !.libmain = root.libmain, !.cdb = cdb,
                 !.objs = IF root.libmain THEN {None} ELSE {}]

AfterCopy(pc) == CASE pc = "copy0" -> "check" [] pc = "copy1" -> "hash" [] pc = "copy2" -> "fast"

CopyTree(t) ==
  /\ job[t].pc \in {"copy0", "copy1", "copy2"}
  /\ \E cdb \in BOOLEAN : tree' = [tree EXCEPT ![t] = CopyOfRoot(cdb)]
  /\ job' = [job EXCEPT ![t].pc = AfterCopy(@)]
  /\ UNCHANGED <<root, rootJob, cc>>

\* _needs_recreate: a tree without a Makefile is not considered stale.
NeedsRecreate(t) == tree[t].makefile = "other"

CheckPaths(t) ==
  /\ Goto(t, "check", IF NeedsRecreate(t) THEN "remove1" ELSE "hash")
  /\ UNCHANGED <<root, rootJob, cc, tree>>

RemoveTree(t) ==
  /\ job[t].pc \in {"remove1", "remove2"}
  /\ tree' = [tree EXCEPT ![t] = NoTree]
  /\ job' = [job EXCEPT ![t].pc = IF @ = "remove1" THEN "copy1" ELSE "copy2"]
  /\ UNCHANGED <<root, rootJob, cc>>

\* Mutant: a missing hash no longer leads to a new copy.
UpToDateOrUnhashed(t) == tree[t].hash \in {None, root.config}

\* Staleness detection: a hash that differs and a hash that is missing both
\* lead to a new copy.
UpToDate(t) == tree[t].hash # None /\ tree[t].hash = root.config

ReadHash(t) ==
  /\ job[t].pc = "hash"
  /\ job' = [job EXCEPT ![t] = [@ EXCEPT !.hash = root.config,
                                         !.raced = UpToDate(t) /\ tree[t].raced,
                                         !.pc = IF UpToDate(t) THEN "fast" ELSE "remove2"]]
  /\ UNCHANGED <<root, rootJob, cc, tree>>

\* Mutant: the fast path looks for the metadata instead of the hash.
BuiltWithMetadata(t) == tree[t].libmain /\ tree[t].meta # None

\* The fast path.
AlreadyBuilt(t) == tree[t].libmain /\ tree[t].hash # None

FastPath(t) ==
  /\ Goto(t, "fast", IF AlreadyBuilt(t) THEN "ready" ELSE "patch")
  /\ UNCHANGED <<root, rootJob, cc, tree>>

PatchFlags(t) ==
  /\ Goto(t, "patch", "clean")
  /\ tree' = [tree EXCEPT ![t] = [@ EXCEPT !.flags = job[t].build, !.behind = job[t].behind]]
  /\ UNCHANGED <<root, rootJob, cc>>

\* Mutant: make is run without make clean.
NotCleaned(s) == s

\* make works on the tree its Makefiles name: this one, unless they still
\* name the place it came from, and then this one is left as it is.
Cleaned(s) ==
  IF s.makefile = "other" THEN s
  ELSE [s EXCEPT !.objs = {}, !.libmain = FALSE, !.whole = FALSE]

\* Mutant: the hash is written before the tree is compiled.
MakeCleanAfterHash(t) ==
  /\ Goto(t, "clean", "make")
  /\ tree' = [tree EXCEPT ![t] = [Cleaned(@) EXCEPT !.hash = job[t].hash,
                                                   !.raced = job[t].raced, !.torn = FALSE]]
  /\ UNCHANGED <<root, rootJob, cc>>

MakeClean(t) ==
  /\ Goto(t, "clean", "make")
  /\ tree' = [tree EXCEPT ![t] = Cleaned(@)]
  /\ UNCHANGED <<root, rootJob, cc>>

\* bear leaves compile_commands.json.
Made(s, build, bear) ==
  IF s.makefile = "other" THEN [s EXCEPT !.cdb = @ \/ bear]
  ELSE [s EXCEPT !.objs = @ \cup {build}, !.libmain = TRUE, !.whole = TRUE, !.cdb = @ \/ bear]

Make(t) ==
  /\ Goto(t, "make", "save")
  /\ \E bear \in BOOLEAN : tree' = [tree EXCEPT ![t] = Made(@, job[t].build, bear)]
  /\ UNCHANGED <<root, rootJob, cc>>

\* Save config hash after successful build.
SaveHash(t) ==
  /\ Goto(t, "save", "meta")
  /\ tree' = [tree EXCEPT ![t] = [@ EXCEPT !.hash = job[t].hash, !.raced = job[t].raced,
                                           !.torn = FALSE]]
  /\ UNCHANGED <<root, rootJob, cc>>

\* _handle_compile saves the branch metadata whether or not anything was built.
SaveMeta(t) ==
  /\ job[t].pc \in {"meta", "ready"}
  /\ tree' = [tree EXCEPT ![t].meta = job[t].build]
  /\ job' = [job EXCEPT ![t] = NoJob]
  /\ UNCHANGED <<root, rootJob, cc>>

-----------------------------------------------------------------------------
(* build_bitcode: the -cov tree is rebuilt under bear, in place, when it   *)
(* has no compile_commands.json.  The hash stays where it is.              *)

\* CFLAGS come from the tree's config_vars.mk, the compiler from the toolchain.
TraceBuild(s) == IF s.flags = None THEN None ELSE <<s.flags[1], cc>>

StartTrace ==
  /\ job[CovTree].pc = "idle" /\ tree[CovTree].exists /\ ~tree[CovTree].cdb
  /\ job' = [job EXCEPT ![CovTree] = [NoJob EXCEPT !.pc = "traceClean",
                                                  !.build = TraceBuild(tree[CovTree])]]
  /\ UNCHANGED <<root, rootJob, cc, tree>>

\* The exit status of this make clean is not looked at.
TraceClean ==
  /\ Goto(CovTree, "traceClean", "trace")
  /\ \E cleaned \in BOOLEAN :
       tree' = [tree EXCEPT ![CovTree] =
                 IF cleaned THEN [Cleaned(@) EXCEPT !.torn = TRUE]
                 ELSE [@ EXCEPT !.torn = TRUE, !.whole = FALSE]]
  /\ UNCHANGED <<root, rootJob, cc>>

TraceMake ==
  /\ job[CovTree].pc = "trace"
  /\ LET s == tree[CovTree] IN
     tree' = [tree EXCEPT ![CovTree] =
               [Made(s, job[CovTree].build, TRUE) EXCEPT
                  !.torn = s.torn /\ (s.objs # {} \/ s.makefile = "other")]]
  /\ job' = [job EXCEPT ![CovTree] = NoJob]
  /\ UNCHANGED <<root, rootJob, cc>>

-----------------------------------------------------------------------------
(* A command on t ends before its next step is complete: Ctrl-C, or the    *)
(* external command of the step fails.                                     *)

\* Half a copy: no hash is ever copied, the root has none.
PartialCopy ==
  {[CopyOfRoot(FALSE) EXCEPT !.makefile = m, !.libmain = l] :
      m \in {None, root.makefile, "other"}, l \in {FALSE, root.libmain}}

\* rmtree was part of the way through, in whatever order it took the files.
PartialRemove(s) ==
  {[s EXCEPT !.makefile = m, !.hash = h, !.libmain = l, !.meta = b, !.cdb = c,
             !.whole = FALSE, !.torn = TRUE] :
      m \in {None, s.makefile}, h \in {None, s.hash}, l \in {FALSE, s.libmain},
      b \in {None, s.meta}, c \in {FALSE, s.cdb}}

PartialClean(s) ==
  IF s.makefile = "other" THEN {s}
  ELSE {[s EXCEPT !.whole = FALSE, !.libmain = l] : l \in {FALSE, s.libmain}}

\* libmain is built long before the last module is.
PartialMake(s, build) ==
  IF s.makefile = "other" THEN {s}
  ELSE {[s EXCEPT !.objs = @ \cup {build}, !.libmain = l] : l \in {s.libmain, TRUE}}

LeftBehind(t) ==
  LET s == tree[t]
      pc == job[t].pc
  IN CASE pc \in {"copy0", "copy1", "copy2"} -> {s} \cup PartialCopy
       [] pc \in {"remove1", "remove2"}      -> {s} \cup PartialRemove(s)
       [] pc = "clean"                       -> {s} \cup PartialClean(s)
       [] pc \in {"make", "trace"}           -> PartialMake(s, job[t].build)
       [] OTHER                              -> {s}

Interrupt(t) ==
  /\ job[t].pc # "idle"
  /\ \E s \in LeftBehind(t), bear \in BOOLEAN :
       tree' = [tree EXCEPT ![t] = IF bear /\ job[t].pc = "trace"
                                   THEN [s EXCEPT !.cdb = TRUE] ELSE s]
  /\ job' = [job EXCEPT ![t] = NoJob]
  /\ UNCHANGED <<root, rootJob, cc>>

-----------------------------------------------------------------------------
EnsureBuild(t) ==
  \/ StartMake(t) \/ EnsureTree(t) \/ CopyTree(t) \/ CheckPaths(t) \/ RemoveTree(t)
  \/ ReadHash(t) \/ FastPath(t) \/ PatchFlags(t) \/ MakeClean(t) \/ Make(t)
  \/ SaveHash(t) \/ SaveMeta(t)

Next ==
  \/ \E c \in Configs : Configure(c)
  \/ ConfigStatus
  \/ SaveRootMeta
  \/ CleanRoot
  \/ MakeRoot
  \/ InterruptRoot
  \/ \E k \in Compilers : SetCompiler(k)
  \/ Relocate
  \/ \E t \in Trees : EnsureBuild(t)
  \/ \E t \in Trees : Interrupt(t)
  \/ StartTrace
  \/ TraceClean
  \/ TraceMake

Spec == Init /\ [][Next]_vars

-----------------------------------------------------------------------------
(* What the cache guarantees. *)

Hashed(t) == tree[t].hash # None

\* A tree that carries a hash was compiled to its end by make, unless its
\* removal or its introspection rebuild was cut short since: these two are
\* the only ways ensure_build can be brought to call an incomplete tree ready
\* (a crash between copy, clean, make and the writing of the hash is not one).
HashedTreeIsBuilt ==
  \A t \in Trees :
    Hashed(t) /\ tree[t].makefile # "other" => tree[t].whole \/ tree[t].torn

\* The hash is the one of the configuration the tree was copied from, unless
\* configure ran while the tree was between the hash and the copy
\* (build_tree.py:44-54), and the objects under it were compiled for that
\* configuration.  The exception is a make that took its flags from metadata
\* config.status had left behind: configure writes config.status first and the
\* metadata when it is done, or never (build_manager.py:243-262), and make
\* reads the two at different times (method_dispatcher.py:210-221).  What it
\* built for the older configuration goes under the newer hash, and later
\* makes take the fast path to it.
HashNamesSource ==
  \A t \in Trees :
    Hashed(t) =>
      /\ tree[t].src = tree[t].hash \/ tree[t].raced
      /\ tree[t].makefile # "other" /\ ~tree[t].torn /\ ~tree[t].behind =>
           tree[t].objs \subseteq ({tree[t].hash} \X Compilers)

\* No tree that carries a hash mixes objects of two builds, nor objects copied
\* from the root: what config_vars.mk says (HarnessBuilder.build takes the
\* sanitizers of the harness from it) is what its objects were compiled with.
ObjectsMatchFlags ==
  \A t \in Trees :
    Hashed(t) /\ tree[t].makefile # "other" /\ ~tree[t].torn =>
      \A b \in tree[t].objs :
        /\ b # None /\ tree[t].flags # None
        /\ b[1] = tree[t].flags[1]
        /\ \A c \in tree[t].objs : c = b

\* A tree that carries a hash is not taken apart in place: past the fast path
\* make clean only ever meets a tree without a hash or one already torn.
NoRebuildInPlace ==
  \A t \in Trees :
    job[t].pc \in {"patch", "clean", "make"} /\ Hashed(t) => tree[t].torn

\* The inductive invariant: the four above with what the steps between them
\* establish (BuildTree_proofs shows that it is one).
JobHasBuild ==
  \A t \in Trees : job[t].pc \notin {"idle", "traceClean", "trace"} => job[t].build \in Builds

PathsAreChecked ==
  \A t \in Trees : job[t].pc \in {"hash", "fast"} /\ Hashed(t) => tree[t].makefile # "other"

HashIsOfTheCopy ==
  \A t \in Trees :
    /\ CopyPending(t) => job[t].hash = root.config \/ job[t].raced
    /\ job[t].pc \in {"fast", "patch", "clean", "make", "save"} =>
         /\ tree[t].src = job[t].hash \/ job[t].raced
         /\ Hashed(t) => tree[t].hash = job[t].hash

\* Flags of another configuration than the hash come from metadata left behind.
BehindIsMarked ==
  \A t \in Trees :
    /\ HashPending(t) => job[t].build[1] = root.config \/ job[t].behind
    /\ job[t].pc \in {"remove2", "copy2", "fast", "patch", "clean", "make", "save"} =>
         job[t].build[1] = job[t].hash \/ job[t].behind
    /\ Hashed(t) => tree[t].flags[1] = tree[t].hash \/ tree[t].behind

BuildInProgress ==
  \A t \in Trees :
    /\ job[t].pc \in {"clean", "make", "save"} =>
         tree[t].flags = job[t].build /\ tree[t].behind = job[t].behind
    /\ job[t].pc = "make" /\ tree[t].makefile # "other" => tree[t].objs = {}
    /\ job[t].pc = "save" /\ tree[t].makefile # "other" =>
         tree[t].objs = {job[t].build} /\ tree[t].whole

TreeIsConsistent ==
  \A t \in Trees :
    /\ tree[t].whole => tree[t].libmain
    /\ Hashed(t) => tree[t].flags # None
    /\ job[t].pc = "trace" => tree[t].torn
    /\ job[t].pc \in {"traceClean", "trace"} =>
         IF tree[t].flags = None THEN job[t].build = None
         ELSE job[t].build \in Builds /\ job[t].build[1] = tree[t].flags[1]

IInv ==
  /\ TypeOK
  /\ HashedTreeIsBuilt /\ HashNamesSource /\ ObjectsMatchFlags /\ NoRebuildInPlace
  /\ JobHasBuild /\ PathsAreChecked /\ HashIsOfTheCopy /\ BehindIsMarked
  /\ BuildInProgress /\ TreeIsConsistent

\* A fast path is taken only for a complete tree (build_tree.py:56, "Fast path:
\* already built and up to date").
FastPathIsComplete ==
  \A t \in Trees : job[t].pc = "ready" => tree[t].whole

=============================================================================
