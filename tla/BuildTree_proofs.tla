--------------------------- MODULE BuildTree_proofs ---------------------------
(***************************************************************************)
(* Proofs about BuildTree, for any set of trees, configurations and        *)
(* compilers.                                                              *)
(***************************************************************************)
EXTENDS BuildTree, TLAPS

\* Changing one tree and one job keeps the types of all of them.
LEMMA TreeUpdate ==
  ASSUME TypeOK, NEW t \in Trees, NEW s \in TreeState, tree' = [tree EXCEPT ![t] = s]
  PROVE  tree' \in [Trees -> TreeState]
BY DEF TypeOK

LEMMA JobUpdate ==
  ASSUME TypeOK, NEW t \in Trees, NEW j \in JobState, job' = [job EXCEPT ![t] = j]
  PROVE  job' \in [Trees -> JobState]
BY DEF TypeOK

LEMMA GotoType ==
  ASSUME TypeOK, NEW t \in Trees, NEW from, NEW to \in Steps, Goto(t, from, to)
  PROVE  job' \in [Trees -> JobState]
<1>1. [job[t] EXCEPT !.pc = to] \in JobState
  BY DEF TypeOK, JobState
<1>2. job' = [job EXCEPT ![t] = [job[t] EXCEPT !.pc = to]]
  BY DEF Goto
<1>3. QED
  BY <1>1, <1>2, JobUpdate

LEMMA NoTreeType == NoTree \in TreeState
  BY DEF NoTree, TreeState

LEMMA NoJobType == NoJob \in JobState
  BY DEF NoJob, JobState, Steps

LEMMA CopyType ==
  ASSUME TypeOK, NEW c \in BOOLEAN
  PROVE  CopyOfRoot(c) \in TreeState
<1>1. /\ root.makefile \in {"own", "other"} /\ root.config \in Configs \cup {None}
      /\ root.libmain \in BOOLEAN
  BY DEF TypeOK
<1> DEFINE o == IF root.libmain THEN {None} ELSE {}
<1>2. o \in SUBSET (Builds \cup {None})
  OBVIOUS
<1>3. CopyOfRoot(c) = [NoTree EXCEPT !.exists = TRUE, !.makefile = root.makefile,
                         !.src = root.config, !.libmain = root.libmain, !.cdb = c, !.objs = o]
  BY DEF CopyOfRoot
<1> HIDE DEF o
<1>4. QED
  BY <1>1, <1>2, <1>3, NoTreeType DEF TreeState

LEMMA CleanedType ==
  ASSUME NEW s \in TreeState
  PROVE  Cleaned(s) \in TreeState
BY DEF Cleaned, TreeState

LEMMA MadeType ==
  ASSUME NEW s \in TreeState, NEW b \in Builds \cup {None}, NEW c \in BOOLEAN
  PROVE  Made(s, b, c) \in TreeState
BY DEF Made, TreeState

\* What an interrupted command leaves behind is still a tree.
LEMMA LeftBehindType ==
  ASSUME TypeOK, NEW t \in Trees, NEW s \in LeftBehind(t)
  PROVE  s \in TreeState
<1>1. tree[t] \in TreeState /\ job[t].build \in Builds \cup {None}
  BY DEF TypeOK, JobState
<1>2. ASSUME NEW p \in PartialCopy
      PROVE  p \in TreeState
  <2>1. root.makefile \in {"own", "other"} /\ root.libmain \in BOOLEAN
    BY DEF TypeOK
  <2>2. PICK m \in {None, root.makefile, "other"}, l \in {FALSE, root.libmain} :
          p = [CopyOfRoot(FALSE) EXCEPT !.makefile = m, !.libmain = l]
    BY <1>2 DEF PartialCopy
  <2>3. CopyOfRoot(FALSE) \in TreeState
    BY CopyType
  <2>4. QED
    BY <2>1, <2>2, <2>3 DEF TreeState
<1>3. ASSUME NEW p \in PartialRemove(tree[t])
      PROVE  p \in TreeState
  <2>1. PICK m \in {None, tree[t].makefile}, h \in {None, tree[t].hash},
             l \in {FALSE, tree[t].libmain}, b \in {None, tree[t].meta},
             c \in {FALSE, tree[t].cdb} :
          p = [tree[t] EXCEPT !.makefile = m, !.hash = h, !.libmain = l, !.meta = b,
                              !.cdb = c, !.whole = FALSE, !.torn = TRUE]
    BY <1>3 DEF PartialRemove
  <2>2. QED
    BY <1>1, <2>1 DEF TreeState
<1>4. ASSUME NEW p \in PartialClean(tree[t])
      PROVE  p \in TreeState
  <2>1. PICK l \in {FALSE, tree[t].libmain} :
          p = tree[t] \/ p = [tree[t] EXCEPT !.whole = FALSE, !.libmain = l]
    BY <1>4 DEF PartialClean
  <2>2. QED
    BY <1>1, <2>1 DEF TreeState
<1>5. ASSUME NEW p \in PartialMake(tree[t], job[t].build)
      PROVE  p \in TreeState
  <2>1. PICK l \in {tree[t].libmain, TRUE} :
          \/ p = tree[t]
          \/ p = [tree[t] EXCEPT !.objs = @ \cup {job[t].build}, !.libmain = l]
    BY <1>5 DEF PartialMake
  <2>2. tree[t].objs \cup {job[t].build} \in SUBSET (Builds \cup {None})
    BY <1>1 DEF TreeState
  <2>3. QED
    BY <1>1, <2>1, <2>2 DEF TreeState
<1>6. QED
  BY <1>1, <1>2, <1>3, <1>4, <1>5 DEF LeftBehind

\* The type invariant is inductive by itself.
LEMMA TypeStep ==
  ASSUME TypeOK, [Next]_vars
  PROVE  TypeOK'
<1>1. ASSUME NEW c \in Configs, Configure(c)
      PROVE  TypeOK'
  BY <1>1 DEF Configure, TypeOK
<1>2. CASE ConfigStatus
  <2>1. ASSUME NEW t \in Trees
        PROVE  [job[t] EXCEPT !.raced = @ \/ CopyPending(t), !.behind = @ \/ HashPending(t)]
                 \in JobState
    BY DEF TypeOK, JobState, CopyPending, HashPending
  <2>2. job' \in [Trees -> JobState]
    BY <1>2, <2>1 DEF ConfigStatus, TypeOK
  <2>3. QED
    BY <1>2, <2>2 DEF ConfigStatus, TypeOK
<1>3. CASE SaveRootMeta
  BY <1>3 DEF SaveRootMeta, TypeOK
<1>4. CASE CleanRoot
  BY <1>4 DEF CleanRoot, TypeOK
<1>5. CASE MakeRoot
  BY <1>5 DEF MakeRoot, TypeOK
<1>6. CASE InterruptRoot
  BY <1>6 DEF InterruptRoot, TypeOK
<1>7. ASSUME NEW k \in Compilers, SetCompiler(k)
      PROVE  TypeOK'
  BY <1>7 DEF SetCompiler, TypeOK
<1>8. CASE Relocate
  <2>1. ASSUME NEW t \in Trees
        PROVE  [tree[t] EXCEPT !.makefile = "other"] \in TreeState
    BY DEF TypeOK, TreeState
  <2>2. tree' \in [Trees -> TreeState]
    BY <1>8, <2>1 DEF Relocate, TypeOK
  <2>3. QED
    BY <1>8, <2>2 DEF Relocate, TypeOK
<1>9. ASSUME NEW t \in Trees, EnsureBuild(t)
      PROVE  TypeOK'
  <2>0. /\ tree[t] \in TreeState /\ job[t] \in JobState
        /\ root.config \in Configs \cup {None}
    BY DEF TypeOK
  <2>1. CASE StartMake(t)
    <3>1. [NoJob EXCEPT !.pc = "tree", !.build = <<root.meta, cc>>,
                        !.behind = root.meta # root.config] \in JobState
      BY <2>1 DEF StartMake, NoJob, JobState, Steps, Builds, TypeOK
    <3>2. job' \in [Trees -> JobState]
      BY <2>1, <3>1, JobUpdate DEF StartMake
    <3>3. QED
      BY <2>1, <3>2 DEF StartMake, TypeOK
  <2>2. CASE EnsureTree(t)
    BY <2>2, GotoType DEF EnsureTree, TypeOK, Steps
  <2>3. CASE CopyTree(t)
    <3>1. tree' \in [Trees -> TreeState]
      BY <2>3, CopyType, TreeUpdate DEF CopyTree
    <3>2. [job[t] EXCEPT !.pc = AfterCopy(@)] \in JobState
      BY <2>0, <2>3 DEF CopyTree, AfterCopy, JobState, Steps
    <3>3. job' \in [Trees -> JobState]
      BY <2>3, <3>2, JobUpdate DEF CopyTree
    <3>4. QED
      BY <2>3, <3>1, <3>3 DEF CopyTree, TypeOK
  <2>4. CASE CheckPaths(t)
    BY <2>4, GotoType DEF CheckPaths, TypeOK, Steps
  <2>5. CASE RemoveTree(t)
    <3>1. tree' \in [Trees -> TreeState]
      BY <2>5, NoTreeType, TreeUpdate DEF RemoveTree
    <3>2. [job[t] EXCEPT !.pc = IF @ = "remove1" THEN "copy1" ELSE "copy2"] \in JobState
      BY <2>0 DEF JobState, Steps
    <3>3. job' \in [Trees -> JobState]
      BY <2>5, <3>2, JobUpdate DEF RemoveTree
    <3>4. QED
      BY <2>5, <3>1, <3>3 DEF RemoveTree, TypeOK
  <2>6. CASE ReadHash(t)
    <3>1. UpToDate(t) \in BOOLEAN /\ tree[t].raced \in BOOLEAN
      BY <2>0 DEF UpToDate, TreeState
    <3>2. [job[t] EXCEPT !.hash = root.config, !.raced = UpToDate(t) /\ tree[t].raced,
                         !.pc = IF UpToDate(t) THEN "fast" ELSE "remove2"] \in JobState
      BY <2>0, <3>1 DEF JobState, Steps
    <3>3. job' \in [Trees -> JobState]
      BY <2>6, <3>2, JobUpdate DEF ReadHash
    <3>4. QED
      BY <2>6, <3>3 DEF ReadHash, TypeOK
  <2>7. CASE FastPath(t)
    BY <2>7, GotoType DEF FastPath, TypeOK, Steps
  <2>8. CASE PatchFlags(t)
    <3>1. [tree[t] EXCEPT !.flags = job[t].build, !.behind = job[t].behind] \in TreeState
      BY <2>0 DEF TreeState, JobState
    <3>2. tree' \in [Trees -> TreeState]
      BY <2>8, <3>1, TreeUpdate DEF PatchFlags
    <3>3. QED
      BY <2>8, <3>2, GotoType DEF PatchFlags, TypeOK, Steps
  <2>9. CASE MakeClean(t)
    <3>1. tree' \in [Trees -> TreeState]
      BY <2>0, <2>9, CleanedType, TreeUpdate DEF MakeClean
    <3>2. QED
      BY <2>9, <3>1, GotoType DEF MakeClean, TypeOK, Steps
  <2>10. CASE Make(t)
    <3>1. job[t].build \in Builds \cup {None}
      BY <2>0 DEF JobState
    <3>2. tree' \in [Trees -> TreeState]
      BY <2>0, <2>10, <3>1, MadeType, TreeUpdate DEF Make
    <3>3. QED
      BY <2>10, <3>2, GotoType DEF Make, TypeOK, Steps
  <2>11. CASE SaveHash(t)
    <3>1. [tree[t] EXCEPT !.hash = job[t].hash, !.raced = job[t].raced, !.torn = FALSE]
            \in TreeState
      BY <2>0 DEF TreeState, JobState
    <3>2. tree' \in [Trees -> TreeState]
      BY <2>11, <3>1, TreeUpdate DEF SaveHash
    <3>3. QED
      BY <2>11, <3>2, GotoType DEF SaveHash, TypeOK, Steps
  <2>12. CASE SaveMeta(t)
    <3>1. [tree[t] EXCEPT !.meta = job[t].build] \in TreeState
      BY <2>0 DEF TreeState, JobState
    <3>2. tree' \in [Trees -> TreeState]
      BY <2>12, <3>1, TreeUpdate DEF SaveMeta
    <3>3. job' \in [Trees -> JobState]
      BY <2>12, NoJobType, JobUpdate DEF SaveMeta
    <3>4. QED
      BY <2>12, <3>2, <3>3 DEF SaveMeta, TypeOK
  <2>13. QED
    BY <1>9, <2>1, <2>2, <2>3, <2>4, <2>5, <2>6, <2>7, <2>8, <2>9, <2>10, <2>11, <2>12
       DEF EnsureBuild
<1>10. ASSUME NEW t \in Trees, Interrupt(t)
       PROVE  TypeOK'
  <2>1. PICK s \in LeftBehind(t), bear \in BOOLEAN :
          tree' = [tree EXCEPT ![t] = IF bear /\ job[t].pc = "trace"
                                      THEN [s EXCEPT !.cdb = TRUE] ELSE s]
    BY <1>10 DEF Interrupt
  <2>2. s \in TreeState /\ [s EXCEPT !.cdb = TRUE] \in TreeState
    BY LeftBehindType DEF TreeState
  <2>3. tree' \in [Trees -> TreeState]
    BY <2>1, <2>2, TreeUpdate
  <2>4. job' \in [Trees -> JobState]
    BY <1>10, NoJobType, JobUpdate DEF Interrupt
  <2>5. QED
    BY <1>10, <2>3, <2>4 DEF Interrupt, TypeOK
<1>11. CASE StartTrace
  <2>1. TraceBuild(tree[CovTree]) \in Builds \cup {None}
    <3>1. tree[CovTree].flags \in Builds \cup {None} /\ cc \in Compilers
      BY BuildTreeAssumption DEF TypeOK, TreeState
    <3>2. ASSUME tree[CovTree].flags # None
          PROVE  <<tree[CovTree].flags[1], cc>> \in Builds
      BY <3>1, <3>2 DEF Builds
    <3>3. QED
      BY <3>2 DEF TraceBuild
  <2>2. [NoJob EXCEPT !.pc = "traceClean", !.build = TraceBuild(tree[CovTree])] \in JobState
    BY <2>1, NoJobType DEF JobState, Steps
  <2>3. job' \in [Trees -> JobState]
    BY <1>11, <2>2, JobUpdate, BuildTreeAssumption DEF StartTrace
  <2>4. QED
    BY <1>11, <2>3 DEF StartTrace, TypeOK
<1>12. CASE TraceClean
  <2>1. tree[CovTree] \in TreeState /\ Cleaned(tree[CovTree]) \in TreeState
    BY BuildTreeAssumption, CleanedType DEF TypeOK
  <2>2. ASSUME NEW s \in TreeState
        PROVE  /\ [s EXCEPT !.torn = TRUE] \in TreeState
               /\ [s EXCEPT !.torn = TRUE, !.whole = FALSE] \in TreeState
    BY DEF TreeState
  <2>3. PICK x \in TreeState : tree' = [tree EXCEPT ![CovTree] = x]
    BY <1>12, <2>1, <2>2 DEF TraceClean
  <2>4. tree' \in [Trees -> TreeState]
    BY <2>3, TreeUpdate, BuildTreeAssumption
  <2>5. QED
    BY <1>12, <2>4, GotoType, BuildTreeAssumption DEF TraceClean, TypeOK, Steps
<1>13. CASE TraceMake
  <2> DEFINE s == tree[CovTree]
             m == Made(s, job[CovTree].build, TRUE)
  <2>1. s \in TreeState /\ job[CovTree].build \in Builds \cup {None}
    BY BuildTreeAssumption DEF TypeOK, JobState
  <2>2. m \in TreeState
    BY <2>1, MadeType
  <2>3. (s.torn /\ (s.objs # {} \/ s.makefile = "other")) \in BOOLEAN
    BY <2>1 DEF TreeState
  <2>4. [m EXCEPT !.torn = s.torn /\ (s.objs # {} \/ s.makefile = "other")] \in TreeState
    BY <2>2, <2>3 DEF TreeState
  <2>5. tree' \in [Trees -> TreeState]
    BY <1>13, <2>4, TreeUpdate, BuildTreeAssumption DEF TraceMake
  <2>6. job' \in [Trees -> JobState]
    BY <1>13, NoJobType, JobUpdate, BuildTreeAssumption DEF TraceMake
  <2>7. QED
    BY <1>13, <2>5, <2>6 DEF TraceMake, TypeOK
<1>14. CASE UNCHANGED vars
  BY <1>14 DEF vars, TypeOK
<1>15. QED
  BY <1>1, <1>2, <1>3, <1>4, <1>5, <1>6, <1>7, <1>8, <1>9, <1>10, <1>11, <1>12, <1>13, <1>14
     DEF Next

\* Every state of every behaviour has the declared types.
THEOREM TypeCorrect == Spec => []TypeOK
<1>1. Init => TypeOK
  BY NoTreeType, NoJobType DEF Init, TypeOK
<1>2. TypeOK /\ [Next]_vars => TypeOK'
  BY TypeStep
<1>3. QED
  BY <1>1, <1>2, PTL DEF Spec

-----------------------------------------------------------------------------
(* The inductive invariant, one tree at a time: s is a tree, j the job on  *)
(* it and c the configuration of the root.                                 *)

GoodTree(s, j, c) ==
  /\ s.hash # None /\ s.makefile # "other" => s.whole \/ s.torn
  /\ s.hash # None => s.src = s.hash \/ s.raced
  /\ s.hash # None /\ s.makefile # "other" /\ ~s.torn =>
       \A b \in s.objs : /\ b # None /\ s.flags # None /\ b[1] = s.flags[1]
                         /\ \A d \in s.objs : d = b
  /\ j.pc \in {"patch", "clean", "make"} /\ s.hash # None => s.torn
  /\ j.pc \notin {"idle", "traceClean", "trace"} => j.build \in Builds
  /\ j.pc \in {"hash", "fast"} /\ s.hash # None => s.makefile # "other"
  /\ j.pc \in {"remove2", "copy2"} => j.hash = c \/ j.raced
  /\ j.pc \in {"fast", "patch", "clean", "make", "save"} =>
       /\ s.src = j.hash \/ j.raced
       /\ s.hash # None => s.hash = j.hash
  /\ j.pc \in {"tree", "copy0", "check", "remove1", "copy1", "hash"} =>
       j.build[1] = c \/ j.behind
  /\ j.pc \in {"remove2", "copy2", "fast", "patch", "clean", "make", "save"} =>
       j.build[1] = j.hash \/ j.behind
  /\ s.hash # None => s.flags[1] = s.hash \/ s.behind
  /\ j.pc \in {"clean", "make", "save"} => s.flags = j.build /\ s.behind = j.behind
  /\ j.pc = "make" /\ s.makefile # "other" => s.objs = {}
  /\ j.pc = "save" /\ s.makefile # "other" => s.objs = {j.build} /\ s.whole
  /\ s.whole => s.libmain
  /\ s.hash # None => s.flags # None
  /\ j.pc = "trace" => s.torn
  /\ j.pc \in {"traceClean", "trace"} =>
       IF s.flags = None THEN j.build = None
       ELSE j.build \in Builds /\ j.build[1] = s.flags[1]

\* Where the flags are of the hash's configuration, so are the objects.
LEMMA ObjectsUnderHash ==
  ASSUME NEW s \in TreeState, NEW j, NEW c, GoodTree(s, j, c),
         s.hash # None, s.makefile # "other", ~s.torn, ~s.behind
  PROVE  s.objs \subseteq ({s.hash} \X Compilers)
<1>1. ASSUME NEW b \in s.objs
      PROVE  b \in {s.hash} \X Compilers
  <2>1. b \in Configs \X Compilers
    BY <1>1 DEF GoodTree, TreeState, Builds
  <2>2. b[1] = s.hash
    BY <1>1 DEF GoodTree
  <2>3. QED
    BY <2>1, <2>2
<1>2. QED
  BY <1>1

\* The parts of the invariant without their types, and the comparison of the
\* objects with the hash, which follows from the others.
GoodTrees ==
  /\ HashedTreeIsBuilt /\ ObjectsMatchFlags /\ NoRebuildInPlace
  /\ JobHasBuild /\ PathsAreChecked /\ HashIsOfTheCopy /\ BehindIsMarked
  /\ BuildInProgress /\ TreeIsConsistent
  /\ \A t \in Trees : Hashed(t) => tree[t].src = tree[t].hash \/ tree[t].raced

LEMMA GoodTreesOneByOne ==
  GoodTrees <=> \A t \in Trees : GoodTree(tree[t], job[t], root.config)
BY DEF GoodTrees, GoodTree, HashedTreeIsBuilt, ObjectsMatchFlags,
       NoRebuildInPlace, JobHasBuild, PathsAreChecked, HashIsOfTheCopy, BuildInProgress,
       TreeIsConsistent, BehindIsMarked, Hashed, CopyPending, HashPending

LEMMA TreeByTree ==
  IInv <=> TypeOK /\ \A t \in Trees : GoodTree(tree[t], job[t], root.config)
<1>1. IInv => GoodTrees /\ TypeOK
  BY DEF IInv, GoodTrees, HashNamesSource
<1>2. ASSUME TypeOK, GoodTrees
      PROVE  HashNamesSource
  <2>1. ASSUME NEW t \in Trees, Hashed(t), tree[t].makefile # "other", ~tree[t].torn,
               ~tree[t].behind
        PROVE  tree[t].objs \subseteq ({tree[t].hash} \X Compilers)
    <3>1. tree[t] \in TreeState
      BY <1>2 DEF TypeOK
    <3>2. GoodTree(tree[t], job[t], root.config)
      BY <1>2, GoodTreesOneByOne
    <3>3. QED
      BY <2>1, <3>1, <3>2, ObjectsUnderHash DEF Hashed
  <2>2. QED
    BY <1>2, <2>1 DEF HashNamesSource, GoodTrees
<1>3. QED
  BY <1>1, <1>2, GoodTreesOneByOne DEF IInv, GoodTrees

LEMMA TreeByTreePrimed ==
  IInv' <=> TypeOK' /\ \A t \in Trees : GoodTree(tree'[t], job'[t], root'.config)
<1>1. (IInv <=> TypeOK /\ \A t \in Trees : GoodTree(tree[t], job[t], root.config))'
  BY TreeByTree, PTL
<1>2. QED
  BY <1>1 DEF GoodTree

\* A step on the tree t that leaves the root alone only has to be checked there.
LEMMA OneTree ==
  ASSUME IInv, TypeOK', NEW t \in Trees, root'.config = root.config,
         \A u \in Trees \ {t} : tree'[u] = tree[u] /\ job'[u] = job[u],
         GoodTree(tree'[t], job'[t], root.config)
  PROVE  IInv'
BY TreeByTree, TreeByTreePrimed

\* A fresh copy of the root carries no hash.
LEMMA CopyIsUnhashed ==
  ASSUME NEW c \in BOOLEAN
  PROVE  /\ CopyOfRoot(c).hash = None /\ ~CopyOfRoot(c).whole
         /\ CopyOfRoot(c).src = root.config
BY DEF CopyOfRoot, NoTree

\* The end of a job loses nothing.
LEMMA NoJobGood ==
  ASSUME NEW s \in TreeState, NEW j, NEW c, GoodTree(s, j, c)
  PROVE  GoodTree(s, NoJob, c)
BY DEF GoodTree, NoJob

\* A tree that is not there yet, or only half there, has nothing to get wrong.
LEMMA UnhashedGood ==
  ASSUME NEW s \in TreeState, NEW j \in JobState, NEW c, s.hash = None, ~s.whole,
         j.pc \in {"idle", "check", "copy0", "copy1", "hash"},
         j.pc # "idle" => j.build \in Builds /\ (j.build[1] = c \/ j.behind)
  PROVE  GoodTree(s, j, c)
BY DEF GoodTree

\* What a command cut short leaves behind keeps the invariant.
LEMMA LeftBehindGood ==
  ASSUME IInv, NEW t \in Trees, job[t].pc # "idle", NEW s \in LeftBehind(t)
  PROVE  GoodTree(s, NoJob, root.config)
<1>1. /\ tree[t] \in TreeState /\ job[t] \in JobState /\ TypeOK
      /\ GoodTree(tree[t], job[t], root.config)
  BY TreeByTree DEF TypeOK
<1>2. s \in TreeState
  BY <1>1, LeftBehindType
<1>3. CASE s = tree[t]
  BY <1>1, <1>3, NoJobGood
<1>4. CASE s \in PartialCopy
  <2>1. PICK m \in {None, root.makefile, "other"}, l \in {FALSE, root.libmain} :
          s = [CopyOfRoot(FALSE) EXCEPT !.makefile = m, !.libmain = l]
    BY <1>4 DEF PartialCopy
  <2>2. CopyOfRoot(FALSE) \in TreeState
    BY <1>1, CopyType
  <2>3. s.hash = None /\ ~s.whole
    BY <2>1, <2>2, CopyIsUnhashed DEF TreeState
  <2>4. QED
    BY <1>2, <2>3, UnhashedGood, NoJobType DEF NoJob
<1>5. CASE s \in PartialRemove(tree[t])
  <2>1. PICK m \in {None, tree[t].makefile}, h \in {None, tree[t].hash},
             l \in {FALSE, tree[t].libmain}, b \in {None, tree[t].meta},
             c \in {FALSE, tree[t].cdb} :
          s = [tree[t] EXCEPT !.makefile = m, !.hash = h, !.libmain = l, !.meta = b,
                              !.cdb = c, !.whole = FALSE, !.torn = TRUE]
    BY <1>5 DEF PartialRemove
  <2>2. /\ s.hash \in {None, tree[t].hash} /\ s.torn /\ ~s.whole /\ s.flags = tree[t].flags
        /\ s.src = tree[t].src /\ s.raced = tree[t].raced
        /\ s.behind = tree[t].behind /\ s.makefile \in {None, tree[t].makefile}
    BY <1>1, <2>1 DEF TreeState
  <2>3. QED
    BY <1>1, <2>2 DEF GoodTree, NoJob
<1>6. CASE job[t].pc = "clean" /\ s \in PartialClean(tree[t])
  <2>1. PICK l \in {FALSE, tree[t].libmain} :
          s = tree[t] \/ s = [tree[t] EXCEPT !.whole = FALSE, !.libmain = l]
    BY <1>6 DEF PartialClean
  <2>2. CASE s # tree[t]
    <3>1. /\ s.hash = tree[t].hash /\ s.torn = tree[t].torn /\ ~s.whole
          /\ s.flags = tree[t].flags /\ s.src = tree[t].src /\ s.raced = tree[t].raced
          /\ s.behind = tree[t].behind
      BY <1>1, <2>1, <2>2 DEF TreeState
    <3>2. QED
      BY <1>1, <1>6, <3>1 DEF GoodTree, NoJob
  <2>3. QED
    BY <1>3, <2>2
<1>7. CASE job[t].pc \in {"make", "trace"} /\ s \in PartialMake(tree[t], job[t].build)
  <2>1. PICK l \in {tree[t].libmain, TRUE} :
          \/ s = tree[t]
          \/ s = [tree[t] EXCEPT !.objs = @ \cup {job[t].build}, !.libmain = l]
    BY <1>7 DEF PartialMake
  <2>2. CASE s # tree[t]
    <3>1. /\ s.hash = tree[t].hash /\ s.torn = tree[t].torn /\ s.whole = tree[t].whole
          /\ s.flags = tree[t].flags /\ s.src = tree[t].src /\ s.raced = tree[t].raced
          /\ s.behind = tree[t].behind
          /\ s.makefile = tree[t].makefile /\ (tree[t].libmain => s.libmain)
      BY <1>1, <2>1, <2>2 DEF TreeState
    <3>2. QED
      BY <1>1, <1>7, <3>1 DEF GoodTree, NoJob
  <2>3. QED
    BY <1>3, <2>2
<1>8. QED
  BY <1>3, <1>4, <1>5, <1>6, <1>7 DEF LeftBehind

\* Every step of ensure_build keeps the invariant of the tree it works on.
LEMMA EnsureBuildGood ==
  ASSUME IInv, NEW t \in Trees, EnsureBuild(t)
  PROVE  GoodTree(tree'[t], job'[t], root.config)
<1>1. /\ tree[t] \in TreeState /\ job[t] \in JobState /\ TypeOK
      /\ tree \in [Trees -> TreeState] /\ job \in [Trees -> JobState]
      /\ GoodTree(tree[t], job[t], root.config)
  BY TreeByTree DEF TypeOK
<1>2. CASE StartMake(t)
  <2>1. <<root.meta, cc>> \in Builds
    BY <1>1, <1>2 DEF StartMake, TypeOK, Builds
  <2>2. /\ tree'[t] = tree[t] /\ job'[t].pc = "tree" /\ job'[t].build \in Builds
        /\ job'[t].build[1] = root.config \/ job'[t].behind
    BY <1>1, <1>2, <2>1 DEF StartMake, NoJob
  <2>3. QED
    BY <1>1, <2>2 DEF GoodTree
<1>3. CASE EnsureTree(t)
  <2>1. /\ tree'[t] = tree[t] /\ job'[t].pc \in {"check", "copy0"} /\ job[t].pc = "tree"
        /\ job'[t].build = job[t].build /\ job'[t].behind = job[t].behind
    BY <1>1, <1>3 DEF EnsureTree, Goto, JobState
  <2>2. QED
    BY <1>1, <2>1 DEF GoodTree
<1>4. CASE CopyTree(t)
  <2>1. PICK cdb \in BOOLEAN : tree'[t] = CopyOfRoot(cdb)
    BY <1>1, <1>4 DEF CopyTree
  <2>2. /\ tree'[t] \in TreeState /\ tree'[t].hash = None /\ ~tree'[t].whole
        /\ tree'[t].src = root.config
    BY <1>1, <2>1, CopyType, CopyIsUnhashed
  <2>3. /\ job'[t].build = job[t].build /\ job'[t].hash = job[t].hash
        /\ job'[t].raced = job[t].raced /\ job'[t].pc = AfterCopy(job[t].pc)
        /\ job'[t].behind = job[t].behind
        /\ job[t].pc \in {"copy0", "copy1", "copy2"}
    BY <1>1, <1>4 DEF CopyTree, JobState
  <2>4. QED
    BY <1>1, <2>2, <2>3 DEF GoodTree, AfterCopy
<1>5. CASE CheckPaths(t)
  <2>1. /\ tree'[t] = tree[t] /\ job[t].pc = "check" /\ job'[t].build = job[t].build
        /\ job'[t].pc \in {"remove1", "hash"} /\ job'[t].behind = job[t].behind
        /\ job'[t].pc = "hash" => tree[t].makefile # "other"
    BY <1>1, <1>5 DEF CheckPaths, NeedsRecreate, Goto, JobState
  <2>2. QED
    BY <1>1, <2>1 DEF GoodTree
<1>6. CASE RemoveTree(t)
  <2>1. /\ tree'[t].hash = None /\ ~tree'[t].whole
    BY <1>1, <1>6 DEF RemoveTree, NoTree
  <2>2. /\ job'[t].build = job[t].build /\ job'[t].hash = job[t].hash
        /\ job'[t].raced = job[t].raced /\ job[t].pc \in {"remove1", "remove2"}
        /\ job'[t].behind = job[t].behind
        /\ job'[t].pc = IF job[t].pc = "remove1" THEN "copy1" ELSE "copy2"
    BY <1>1, <1>6 DEF RemoveTree, JobState
  <2>3. QED
    BY <1>1, <2>1, <2>2 DEF GoodTree
<1>7. CASE ReadHash(t)
  <2>1. /\ tree'[t] = tree[t] /\ job[t].pc = "hash" /\ job'[t].build = job[t].build
        /\ job'[t].hash = root.config /\ job'[t].behind = job[t].behind
        /\ job'[t].raced = (UpToDate(t) /\ tree[t].raced)
        /\ job'[t].pc = IF UpToDate(t) THEN "fast" ELSE "remove2"
    BY <1>1, <1>7 DEF ReadHash, JobState
  <2>2. CASE UpToDate(t)
    BY <1>1, <2>1, <2>2 DEF GoodTree, UpToDate
  <2>3. CASE ~UpToDate(t)
    BY <1>1, <2>1, <2>3 DEF GoodTree
  <2>4. QED
    BY <2>2, <2>3
<1>8. CASE FastPath(t)
  <2>1. /\ tree'[t] = tree[t] /\ job[t].pc = "fast" /\ job'[t].build = job[t].build
        /\ job'[t].hash = job[t].hash /\ job'[t].raced = job[t].raced
        /\ job'[t].behind = job[t].behind
        /\ job'[t].pc = IF AlreadyBuilt(t) THEN "ready" ELSE "patch"
    BY <1>1, <1>8 DEF FastPath, Goto, JobState
  <2>2. CASE AlreadyBuilt(t)
    BY <1>1, <2>1, <2>2 DEF GoodTree
  <2>3. CASE ~AlreadyBuilt(t)
    BY <1>1, <2>1, <2>3 DEF GoodTree, AlreadyBuilt
  <2>4. QED
    BY <2>2, <2>3
<1>9. CASE PatchFlags(t)
  <2>1. /\ tree'[t] = [tree[t] EXCEPT !.flags = job[t].build, !.behind = job[t].behind]
        /\ job[t].pc = "patch"
        /\ job'[t] = [job[t] EXCEPT !.pc = "clean"]
    BY <1>1, <1>9 DEF PatchFlags, Goto
  <2>2. job[t].build # None
    BY <1>1, <2>1, BuildTreeAssumption DEF GoodTree, Builds
  <2>3. QED
    BY <1>1, <2>1, <2>2 DEF GoodTree, TreeState, JobState
<1>10. CASE MakeClean(t)
  <2>1. /\ tree'[t] = Cleaned(tree[t]) /\ job[t].pc = "clean"
        /\ job'[t] = [job[t] EXCEPT !.pc = "make"]
    BY <1>1, <1>10 DEF MakeClean, Goto
  <2>2. CASE tree[t].makefile = "other"
    BY <1>1, <2>1, <2>2 DEF GoodTree, Cleaned, TreeState, JobState
  <2>3. CASE tree[t].makefile # "other"
    BY <1>1, <2>1, <2>3 DEF GoodTree, Cleaned, TreeState, JobState
  <2>4. QED
    BY <2>2, <2>3
<1>11. CASE Make(t)
  <2>1. PICK bear \in BOOLEAN : tree'[t] = Made(tree[t], job[t].build, bear)
    BY <1>1, <1>11 DEF Make
  <2>2. job[t].pc = "make" /\ job'[t] = [job[t] EXCEPT !.pc = "save"]
    BY <1>1, <1>11 DEF Make, Goto
  <2>3. CASE tree[t].makefile = "other"
    <3>1. /\ tree'[t].hash = tree[t].hash /\ tree'[t].torn = tree[t].torn
          /\ tree'[t].whole = tree[t].whole /\ tree'[t].libmain = tree[t].libmain
          /\ tree'[t].flags = tree[t].flags /\ tree'[t].src = tree[t].src
          /\ tree'[t].raced = tree[t].raced /\ tree'[t].makefile = "other"
          /\ tree'[t].behind = tree[t].behind
      BY <1>1, <2>1, <2>3 DEF Made, TreeState
    <3>2. QED
      BY <1>1, <2>2, <3>1 DEF GoodTree, JobState
  <2>4. CASE tree[t].makefile # "other"
    <3>1. /\ tree'[t].hash = tree[t].hash /\ tree'[t].torn = tree[t].torn
          /\ tree'[t].whole /\ tree'[t].libmain
          /\ tree'[t].flags = tree[t].flags /\ tree'[t].src = tree[t].src
          /\ tree'[t].raced = tree[t].raced /\ tree'[t].makefile = tree[t].makefile
          /\ tree'[t].behind = tree[t].behind
          /\ tree'[t].objs = tree[t].objs \cup {job[t].build}
      BY <1>1, <2>1, <2>4 DEF Made, TreeState
    <3>2. tree'[t].objs = {job[t].build}
      BY <1>1, <2>2, <2>4, <3>1 DEF GoodTree
    <3>3. QED
      BY <1>1, <2>2, <2>4, <3>1, <3>2 DEF GoodTree, JobState
  <2>5. QED
    BY <2>3, <2>4
<1>12. CASE SaveHash(t)
  <2>1. /\ tree'[t] = [tree[t] EXCEPT !.hash = job[t].hash, !.raced = job[t].raced,
                                      !.torn = FALSE]
        /\ job[t].pc = "save" /\ job'[t] = [job[t] EXCEPT !.pc = "meta"]
    BY <1>1, <1>12 DEF SaveHash, Goto
  <2>2. job[t].build # None
    BY <1>1, <2>1, BuildTreeAssumption DEF GoodTree, Builds
  <2>3. /\ tree'[t].hash = job[t].hash /\ tree'[t].raced = job[t].raced /\ ~tree'[t].torn
        /\ tree'[t].flags = tree[t].flags /\ tree'[t].src = tree[t].src
        /\ tree'[t].makefile = tree[t].makefile /\ tree'[t].objs = tree[t].objs
        /\ tree'[t].whole = tree[t].whole /\ tree'[t].libmain = tree[t].libmain
        /\ tree'[t].behind = tree[t].behind
        /\ job'[t].pc = "meta" /\ job'[t].build = job[t].build
    BY <1>1, <2>1 DEF TreeState, JobState
  <2>4. QED
    BY <1>1, <2>1, <2>2, <2>3 DEF GoodTree
<1>13. CASE SaveMeta(t)
  <2>1. tree'[t] = [tree[t] EXCEPT !.meta = job[t].build] /\ job'[t] = NoJob
    BY <1>1, <1>13 DEF SaveMeta
  <2>2. QED
    BY <1>1, <2>1 DEF GoodTree, NoJob, TreeState
<1>14. QED
  BY <1>2, <1>3, <1>4, <1>5, <1>6, <1>7, <1>8, <1>9, <1>10, <1>11, <1>12, <1>13
     DEF EnsureBuild

\* The invariant is inductive.
LEMMA IInvStep ==
  ASSUME IInv, [Next]_vars
  PROVE  IInv'
<1>1. TypeOK /\ TypeOK'
  BY TypeStep DEF IInv
<1>2. \A t \in Trees : /\ tree[t] \in TreeState /\ job[t] \in JobState
                       /\ GoodTree(tree[t], job[t], root.config)
  BY TreeByTree DEF TypeOK
<1>3. CASE ConfigStatus
  <2>1. ASSUME NEW t \in Trees
        PROVE  GoodTree(tree'[t], job'[t], root'.config)
    <3>1. tree'[t] = tree[t]
      BY <1>3 DEF ConfigStatus
    <3>2. /\ job'[t].pc = job[t].pc /\ job'[t].build = job[t].build
          /\ job'[t].hash = job[t].hash
          /\ job[t].raced \/ CopyPending(t) => job'[t].raced
          /\ job[t].behind \/ HashPending(t) => job'[t].behind
          /\ ~HashPending(t) => job'[t].behind = job[t].behind
      BY <1>2, <1>3 DEF ConfigStatus, JobState
    <3>3. CASE CopyPending(t)
      BY <1>2, <3>1, <3>2, <3>3 DEF GoodTree, CopyPending, HashPending
    <3>4. CASE HashPending(t)
      BY <1>2, <3>1, <3>2, <3>4 DEF GoodTree, CopyPending, HashPending
    <3>5. CASE ~CopyPending(t) /\ ~HashPending(t)
      BY <1>2, <3>1, <3>2, <3>5 DEF GoodTree, CopyPending, HashPending, JobState
    <3>6. QED
      BY <3>3, <3>4, <3>5
  <2>2. QED
    BY <1>1, <2>1, TreeByTreePrimed
<1>4. CASE Relocate
  <2>1. ASSUME NEW t \in Trees
        PROVE  GoodTree(tree'[t], job'[t], root'.config)
    <3>1. /\ job'[t] = job[t] /\ job[t].pc = "idle" /\ root'.config = root.config
          /\ tree'[t] = tree[t] \/ tree'[t] = [tree[t] EXCEPT !.makefile = "other"]
      BY <1>1, <1>4 DEF Relocate, TypeOK
    <3>2. QED
      BY <1>2, <3>1 DEF GoodTree, TreeState
  <2>2. QED
    BY <1>1, <2>1, TreeByTreePrimed
<1>5. ASSUME UNCHANGED <<tree, job>>, root'.config = root.config
      PROVE  IInv'
  BY <1>1, <1>2, <1>5, TreeByTreePrimed
<1>6. ASSUME NEW c \in Configs, Configure(c)
      PROVE  IInv'
  BY <1>5, <1>6 DEF Configure
<1>7. CASE SaveRootMeta
  BY <1>1, <1>5, <1>7 DEF SaveRootMeta, TypeOK
<1>8. CASE CleanRoot
  BY <1>1, <1>5, <1>8 DEF CleanRoot, TypeOK
<1>9. CASE MakeRoot
  BY <1>1, <1>5, <1>9 DEF MakeRoot, TypeOK
<1>10. CASE InterruptRoot
  BY <1>1, <1>5, <1>10 DEF InterruptRoot, TypeOK
<1>11. ASSUME NEW k \in Compilers, SetCompiler(k)
       PROVE  IInv'
  BY <1>5, <1>11 DEF SetCompiler
<1>12. ASSUME NEW t \in Trees, EnsureBuild(t)
       PROVE  IInv'
  <2>1. GoodTree(tree'[t], job'[t], root.config)
    BY <1>12, EnsureBuildGood
  <2>2. \A u \in Trees \ {t} : tree'[u] = tree[u] /\ job'[u] = job[u]
    BY <1>1, <1>12
       DEF TypeOK, EnsureBuild, StartMake, EnsureTree, CopyTree, CheckPaths, RemoveTree,
           ReadHash, FastPath, PatchFlags, MakeClean, Make, SaveHash, SaveMeta, Goto
  <2>3. root' = root
    BY <1>12
       DEF EnsureBuild, StartMake, EnsureTree, CopyTree, CheckPaths, RemoveTree,
           ReadHash, FastPath, PatchFlags, MakeClean, Make, SaveHash, SaveMeta
  <2>4. QED
    BY <1>1, <2>1, <2>2, <2>3, OneTree
<1>13. ASSUME NEW t \in Trees, Interrupt(t)
       PROVE  IInv'
  <2>1. PICK s \in LeftBehind(t) :
          \/ tree' = [tree EXCEPT ![t] = s]
          \/ tree' = [tree EXCEPT ![t] = [s EXCEPT !.cdb = TRUE]]
    BY <1>13 DEF Interrupt
  <2>2. /\ job' = [job EXCEPT ![t] = NoJob] /\ root' = root /\ job[t].pc # "idle"
    BY <1>13 DEF Interrupt
  <2>3. GoodTree(s, NoJob, root.config) /\ s \in TreeState
    BY <1>1, <2>2, LeftBehindGood, LeftBehindType
  <2>4. GoodTree([s EXCEPT !.cdb = TRUE], NoJob, root.config)
    BY <2>3 DEF GoodTree, TreeState
  <2>5. GoodTree(tree'[t], job'[t], root.config)
    BY <1>1, <2>1, <2>2, <2>3, <2>4 DEF TypeOK
  <2>6. \A u \in Trees \ {t} : tree'[u] = tree[u] /\ job'[u] = job[u]
    BY <1>1, <2>1, <2>2 DEF TypeOK
  <2>7. QED
    BY <1>1, <2>2, <2>5, <2>6, OneTree
<1>14. CASE StartTrace
  <2>1. GoodTree(tree'[CovTree], job'[CovTree], root.config)
    <3>1. /\ tree'[CovTree] = tree[CovTree] /\ job'[CovTree].pc = "traceClean"
          /\ job'[CovTree].build = TraceBuild(tree[CovTree])
      BY <1>1, <1>14, BuildTreeAssumption DEF StartTrace, NoJob, TypeOK
    <3>2. /\ tree[CovTree].flags \in Builds \cup {None} /\ cc \in Compilers
      BY <1>1, BuildTreeAssumption DEF TypeOK, TreeState
    <3>3. ASSUME tree[CovTree].flags # None
          PROVE  /\ TraceBuild(tree[CovTree]) \in Builds
                 /\ TraceBuild(tree[CovTree])[1] = tree[CovTree].flags[1]
      BY <3>2, <3>3 DEF TraceBuild, Builds
    <3>4. tree[CovTree].flags = None => TraceBuild(tree[CovTree]) = None
      BY DEF TraceBuild
    <3>5. QED
      BY <1>2, <3>1, <3>3, <3>4, BuildTreeAssumption DEF GoodTree
  <2>2. \A u \in Trees \ {CovTree} : tree'[u] = tree[u] /\ job'[u] = job[u]
    BY <1>1, <1>14, BuildTreeAssumption DEF StartTrace, TypeOK
  <2>3. QED
    BY <1>1, <1>14, <2>1, <2>2, OneTree, BuildTreeAssumption DEF StartTrace
<1>15. CASE TraceClean
  <2>1. GoodTree(tree'[CovTree], job'[CovTree], root.config)
    <3>1. /\ tree[CovTree] \in TreeState /\ job[CovTree] \in JobState
          /\ GoodTree(tree[CovTree], job[CovTree], root.config)
      BY <1>2, BuildTreeAssumption
    <3>2. /\ job[CovTree].pc = "traceClean"
          /\ job'[CovTree] = [job[CovTree] EXCEPT !.pc = "trace"]
      BY <1>1, <1>15, BuildTreeAssumption DEF TraceClean, Goto, TypeOK
    <3>3. \/ tree'[CovTree] = [Cleaned(tree[CovTree]) EXCEPT !.torn = TRUE]
          \/ tree'[CovTree] = [tree[CovTree] EXCEPT !.torn = TRUE, !.whole = FALSE]
      BY <1>1, <1>15, BuildTreeAssumption DEF TraceClean, TypeOK
    <3>4. /\ tree'[CovTree].torn /\ tree'[CovTree].hash = tree[CovTree].hash
          /\ tree'[CovTree].whole => tree'[CovTree].libmain
          /\ tree'[CovTree].flags = tree[CovTree].flags
          /\ tree'[CovTree].src = tree[CovTree].src
          /\ tree'[CovTree].raced = tree[CovTree].raced
          /\ tree'[CovTree].behind = tree[CovTree].behind
      BY <3>1, <3>3 DEF Cleaned, TreeState, GoodTree
    <3>5. QED
      BY <3>1, <3>2, <3>4 DEF GoodTree, JobState
  <2>2. \A u \in Trees \ {CovTree} : tree'[u] = tree[u] /\ job'[u] = job[u]
    BY <1>1, <1>15, BuildTreeAssumption DEF TraceClean, Goto, TypeOK
  <2>3. QED
    BY <1>1, <1>15, <2>1, <2>2, OneTree, BuildTreeAssumption DEF TraceClean
<1>16. CASE TraceMake
  <2> DEFINE s == tree[CovTree]
             j == job[CovTree]
             n == tree'[CovTree]
  <2>1. GoodTree(tree'[CovTree], job'[CovTree], root.config)
    <3>1. s \in TreeState /\ j \in JobState /\ GoodTree(s, j, root.config)
      BY <1>2, BuildTreeAssumption
    <3>2. j.pc = "trace" /\ job'[CovTree] = NoJob
      BY <1>1, <1>16, BuildTreeAssumption DEF TraceMake, TypeOK
    <3>3. n = [Made(s, j.build, TRUE) EXCEPT
                 !.torn = s.torn /\ (s.objs # {} \/ s.makefile = "other")]
      BY <1>1, <1>16, BuildTreeAssumption DEF TraceMake, TypeOK
    <3>4. CASE s.makefile = "other"
      <4>1. /\ n.torn /\ n.hash = s.hash /\ n.whole = s.whole /\ n.libmain = s.libmain
            /\ n.flags = s.flags /\ n.src = s.src /\ n.raced = s.raced
            /\ n.behind = s.behind
        BY <3>1, <3>2, <3>3, <3>4 DEF Made, TreeState, GoodTree
      <4>2. QED
        BY <3>1, <3>2, <4>1 DEF GoodTree, NoJob
    <3>5. CASE s.makefile # "other"
      <4> DEFINE m == Made(s, j.build, TRUE)
                 torn == s.torn /\ (s.objs # {} \/ s.makefile = "other")
      <4>1. m \in TreeState
        BY <3>1, MadeType DEF JobState
      <4>2. /\ m.hash = s.hash /\ m.whole /\ m.libmain /\ m.flags = s.flags
            /\ m.src = s.src /\ m.raced = s.raced /\ m.behind = s.behind
            /\ m.objs = s.objs \cup {j.build}
        BY <3>1, <3>5 DEF Made, TreeState
      <4>3. s.torn /\ (~torn => s.objs = {})
        BY <3>1, <3>2 DEF GoodTree
      <4>4. n = [m EXCEPT !.torn = torn]
        BY <3>3
      <4> HIDE DEF m, torn
      <4>5. /\ n.hash = s.hash /\ n.whole /\ n.libmain /\ n.flags = s.flags
            /\ n.src = s.src /\ n.raced = s.raced /\ n.behind = s.behind
            /\ n.objs = s.objs \cup {j.build}
            /\ ~n.torn => ~torn
        BY <4>1, <4>2, <4>4 DEF TreeState
      <4>6. ~n.torn => n.objs = {j.build}
        BY <4>3, <4>5
      <4>7. s.flags # None => j.build # None /\ j.build[1] = s.flags[1]
        BY <3>1, <3>2, BuildTreeAssumption DEF GoodTree, Builds
      <4>8. QED
        BY <3>1, <3>2, <4>5, <4>6, <4>7 DEF GoodTree, NoJob
    <3>6. QED
      BY <3>4, <3>5
  <2>2. \A u \in Trees \ {CovTree} : tree'[u] = tree[u] /\ job'[u] = job[u]
    BY <1>1, <1>16, BuildTreeAssumption DEF TraceMake, TypeOK
  <2>3. QED
    BY <1>1, <1>16, <2>1, <2>2, OneTree, BuildTreeAssumption DEF TraceMake
<1>17. CASE UNCHANGED vars
  BY <1>5, <1>17 DEF vars
<1>18. QED
  BY <1>3, <1>4, <1>6, <1>7, <1>8, <1>9, <1>10, <1>11, <1>12, <1>13, <1>14, <1>15, <1>16,
     <1>17 DEF Next

LEMMA InitGood == Init => IInv
<1>1. Init => TypeOK
  BY NoTreeType, NoJobType DEF Init, TypeOK
<1>2. ASSUME Init, NEW t \in Trees
      PROVE  GoodTree(tree[t], job[t], root.config)
  BY <1>2 DEF Init, NoTree, NoJob, GoodTree
<1>3. QED
  BY <1>1, <1>2, TreeByTree

\* The inductive invariant holds in every state.
THEOREM Invariance == Spec => []IInv
<1>1. IInv /\ [Next]_vars => IInv'
  BY IInvStep
<1>2. QED
  BY InitGood, <1>1, PTL DEF Spec

\* A tree that carries a hash is complete unless it was torn since.
THEOREM HashedTreesAreBuilt == Spec => []HashedTreeIsBuilt
<1>1. IInv => HashedTreeIsBuilt
  BY DEF IInv
<1>2. QED
  BY Invariance, <1>1, PTL

\* A hash is the one of the configuration the tree was copied from, unless
\* configure ran between the reading of the hash and the copy; and the one its
\* objects were compiled for, unless the tree was torn or make took its flags
\* from metadata that config.status had left behind (build_manager.py:243-262).
THEOREM HashesNameSources == Spec => []HashNamesSource
<1>1. IInv => HashNamesSource
  BY DEF IInv
<1>2. QED
  BY Invariance, <1>1, PTL

\* A hashed tree holds the objects of one build, the one of its recorded flags.
THEOREM ObjectsMatchRecordedFlags == Spec => []ObjectsMatchFlags
<1>1. IInv => ObjectsMatchFlags
  BY DEF IInv
<1>2. QED
  BY Invariance, <1>1, PTL

\* make clean only meets a tree without a hash or one already torn: what
\* another command may be using is not taken apart (build_tree.py:56-66).
THEOREM HashedTreesAreNotRebuilt == Spec => []NoRebuildInPlace
<1>1. IInv => NoRebuildInPlace
  BY DEF IInv
<1>2. QED
  BY Invariance, <1>1, PTL

=============================================================================
